\* A block rewritten while its flush is in flight: is the device left with the newest data?
CONSTANTS
    s1 = s1  s2 = s2  s3 = s3
    b1 = b1  b2 = b2  b3 = b3
    a1 = a1
    UNALLOC = UNALLOC  Gone = Gone  NoKey = NoKey  NoTenant = NoTenant
    Slots <- MCSlotsSmall
    Blocks <- MCBlocksSmall
    Apps <- MCApps
    BlockIndex <- MCBlockIndexSmall
    InitTag <- MCInitTagSmall
    FgFlushLimit = 1
    SubmitNum = 0
    RatioNum = 1
    RatioDen = 2
    MaxVer = 2
    MaxHeld = 1
    MinCache = 1
SPECIFICATION Spec
CONSTRAINT MCConstraint

INVARIANT CleanMatchesDisk
