SPECIFICATION FairSpec
CONSTANTS
    p1 = p1
    p2 = p2
    Proc = {p1, p2}
    LockCount = 1
    MaxIssued = 3
    MaxFaults = 1
    Rotation = {TRUE}
    Pausing = TRUE
INVARIANTS
    RefreshOnce
PROPERTIES
    NoLostUpdate
    DeadHolderReplaced
