SPECIFICATION FairSpec
CONSTANT Handler = {h1}
INVARIANTS
    ReleasedWhenDone
    ExitStatusTellsTruth
    TeardownBeforeExit
    CompletedMeansHandedOff
PROPERTIES
    StopFinishes
    PiExitFinishes
    HandoffExits
CHECK_DEADLOCK FALSE
