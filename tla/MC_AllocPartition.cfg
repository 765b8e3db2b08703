\* All three policies: all weight placed, no worker oversubscribed by an asymmetric policy, leftover list sorted.
CONSTANTS
    NumWorkers <- MCNumWorkers
    NumApps <- MCNumApps
    WorkerAvailWeight <- MCWorkerAvailWeight
    CyclesPerWeight <- MCCyclesPerWeight
    MaxAppWeight <- MCMaxAppWeight
    OldWeights <- MCOldWeights
    Policies = {"symm", "naive", "tiny"}
SPECIFICATION Spec
INVARIANT PartitionComplete AsymmNotOversubscribed LeftoverOrderSorted
