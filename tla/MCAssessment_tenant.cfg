CONSTANTS
    Jobs = {j1}
    Participants = {p1}
    Questions = {q1}
    Attached = {q1}
    Answers = {a1}
    NoAnswer = NoAnswer
    Durations = {1}
    MaxTime = 0
    Requests = {r1, r2}
    TenantTx = TRUE
SPECIFICATION FairSpec
INVARIANTS
    IInv
PROPERTIES
    RequestsEnd
