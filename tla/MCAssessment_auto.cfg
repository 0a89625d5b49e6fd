CONSTANTS
    Jobs = {j1}
    Participants = {p1}
    Questions = {q1, q2}
    Attached = {q1}
    Answers = {a1}
    NoAnswer = NoAnswer
    Durations = {1}
    MaxTime = 1
    Requests = {r1, r2}
    TenantTx = FALSE
SPECIFICATION Spec
SYMMETRY Interchangeable
INVARIANTS
    TypeOK
    GradedWhenCompleted
    AnswersAreGated
    SavesAreInTime
PROPERTIES
    DeadlineIsFixed
    AnswersSettle
    ImplementsLifecycle
