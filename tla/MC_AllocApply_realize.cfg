\* Does the move plan take nfiles_curr to nfiles_next?
CONSTANTS
    NumWorkers <- MCNumWorkers
    MaxFiles <- MCMaxFiles
    MaxWeight <- MCMaxWeight
    ResrcAmounts <- MCResrcAmounts
    SymmPartition = FALSE
SPECIFICATION Spec
INVARIANT MovesRealizeNext
