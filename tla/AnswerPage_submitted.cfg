SPECIFICATION Spec
CONSTANTS
    Last = 2
    Words = {"a", "b"}
    MaxTyped = 2
CHECK_DEADLOCK FALSE
INVARIANTS
    SubmittedIsStored
