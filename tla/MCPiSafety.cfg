SPECIFICATION Spec
CONSTANTS
    Call = {p1, p2}
    Binder = b
    Question = {}
    Kind = {"root", "read", "write"}
    Capacity = 2
    MaxRecords = 7
SYMMETRY Symmetry
INVARIANTS
    LifecycleFollowsTransport
CHECK_DEADLOCK FALSE
