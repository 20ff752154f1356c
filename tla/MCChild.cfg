SPECIFICATION FairSpec
CONSTANT Child = {c1}
INVARIANTS
    SettledBeforeReturn
    ResultMeansSettled
    RecoveryAfterExit
    ResultFollowsEvents
    NoOrphanAfterFinish
PROPERTIES
    CleanupTerminates
    ReturnsAfterCleanup
    KeepsPromise
CHECK_DEADLOCK FALSE
