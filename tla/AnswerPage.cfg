SPECIFICATION Spec
CONSTANTS
    Last = 2
    Words = {"a", "b"}
    MaxTyped = 3
CHECK_DEADLOCK FALSE
INVARIANTS
    TypeOK
    LastSaveWins
    CalmSubmissionIsComplete
