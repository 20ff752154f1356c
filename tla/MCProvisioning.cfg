SPECIFICATION Spec
CONSTANT Role = {"root", "child"}
INVARIANTS
    NothingLeftUnsaid
    RunsOnlyItsOwn
    RecoveredClean
CHECK_DEADLOCK FALSE
