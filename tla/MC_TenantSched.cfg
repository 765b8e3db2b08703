\* asymmetric partition: decisions may carry inode moves and drain a tenant
SPECIFICATION Spec
CONSTANTS
    NumApps = 2
    QDepth = 1
    NumReqsPerLoop = 3
    MaxWeight = 2
    CpsWeight = 2
    ReqCycles = 1
    TickCycles = 1
    EpochTicks = 2
    FrameTicks = 2
    CacheCap = 1
    Weights <- MCWeights
    RateInvs <- MCRateInvs
    SymmPartition = FALSE
    MaxRounds = 1
    TicksPerLoop = 1
INVARIANT TypeOK InflightAccounting MigrationQuiesced
PROPERTY DrainCompletes AppProgress
