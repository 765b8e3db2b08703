\* Two RW threads of one app: barriers, a synchronous SEQ workload and an
\* async ring, FS failures allowed
CONSTANTS
    t1 = t1  t2 = t2
    Threads <- MCThreads
    Calls <- MCCalls
    Fds <- MCFds
    Workloads <- MCWorkloads
    FsMayFail = TRUE
    OffMins <- MCOffMins
    OffMaxs <- MCOffMaxs
    OffAligns <- MCOffAligns
    NumApps = 2
    AppOf <- MCAppOf
SPECIFICATION Spec
INVARIANT TypeOK InFlightAccounted BuffersIdleAtExit OffsetsInRange ParentExitMatches
PROPERTY ImplementsBarrier RunEnds
