SPECIFICATION FairSpec
CONSTANTS
    Call = {p1}
    Binder = b
    Question = {q1}
    Kind = {"root"}
    Capacity = 2
    MaxRecords = 4
INVARIANTS
    QuestionsMatch
PROPERTIES
    StopEnds
    LossSettles
CHECK_DEADLOCK FALSE
