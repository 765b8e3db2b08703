\* One tenant, three slots, two blocks of inode 2 and one metadata block.
CONSTANTS
    s1 = s1  s2 = s2  s3 = s3
    b1 = b1  b2 = b2  b3 = b3
    a1 = a1
    UNALLOC = UNALLOC  Gone = Gone  NoKey = NoKey  NoTenant = NoTenant
    Slots <- MCSlots
    Blocks <- MCBlocks
    Apps <- MCApps
    BlockIndex <- MCBlockIndex
    InitTag <- MCInitTag
    FgFlushLimit = 1
    SubmitNum = 0
    RatioNum = 1
    RatioDen = 2
    MaxVer = 1
    MaxHeld = 1
    MinCache = 1
SPECIFICATION Spec
CONSTRAINT MCConstraint
SYMMETRY MCSymmetry
INVARIANT TypeOK DirtyAccounting DirtyPinned SplitSafe
