SPECIFICATION Spec
CONSTANTS
    Jobs = {j1}
    Participants = {p1}
    Questions = {q1, q2}
    t1 = t1
    t2 = t2
    Texts = {t1, t2}
    Blank = Blank
    MaxOptions = 2
    Inputs <- SomeForms
    Missing = Missing
    Requests = {r1, r2}
SYMMETRY Interchangeable
INVARIANTS
    OfferedWereAsked
    IInv
PROPERTIES
    InvitedJobsSettle
    DeprecatedQuestionsSettle
    WithdrawnJobsSettle
    ImplementsLibrary
