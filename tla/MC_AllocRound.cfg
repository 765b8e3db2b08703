\* One allocation round over every pair of apps' ghost windows.
CONSTANTS
    NumApps = 2
    TotalCache = 10
    TotalBw = 16
    TotalCpu = 32
    CacheDelta = 2
    MinBandwidth = 1
    MinBandwidthHarvest = 1
    FullHitNum = 999
    FullHitDen = 1000
    GhostMin = 4
    GhostTick = 4
    GhostTicks = 3
    NumWorkers = 2
    WindowImages <- MCWindowImages
    Weights <- MCWeights
    WindowAccts <- MCWindowAccts
    AbortOffer = 1000000
    HarvestEnabled = TRUE
SPECIFICATION Spec
INVARIANT TypeOK ResourcesConserved WhatIfAssertsHold
