\* Apportionment and move plan over all bounded inputs, asymmetric policy.
CONSTANTS
    NumWorkers <- MCNumWorkers
    MaxFiles <- MCMaxFiles
    MaxWeight <- MCMaxWeight
    ResrcAmounts <- MCResrcAmounts
    SymmPartition = FALSE
SPECIFICATION Spec
INVARIANT NFilesApportioned MovesWithinSurplus SharesCoverTotal
