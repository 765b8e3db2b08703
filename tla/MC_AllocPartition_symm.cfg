\* Symmetric policy: do the rounding leftovers fit the workers?
CONSTANTS
    NumWorkers <- MCNumWorkers
    NumApps <- MCNumApps
    WorkerAvailWeight <- MCWorkerAvailWeight
    CyclesPerWeight <- MCCyclesPerWeight
    MaxAppWeight <- MCMaxAppWeight
    OldWeights <- MCOldWeights
    Policies = {"symm"}
SPECIFICATION Spec
INVARIANT WorkerNotOversubscribed
