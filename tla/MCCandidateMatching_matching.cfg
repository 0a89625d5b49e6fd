SPECIFICATION Spec
CONSTANTS
    Participants = {p1, p2}
    NameOf <- AllAlike
    Jobs = {j1, j2}
    a = a
    b = b
    wordA = wordA
    wordB = wordB
    Names = {a, b}
    Terms = {wordA, wordB}
    TermOf <- TermOfName
    Cvs <- OneOrBothTerms
    Labellings <- OppositeOrders
    Schemas = {"public", "tenant"}
    Absent = Absent
    Requests = {r1, r2}
INVARIANTS
    TypeOK
    AloneRefreshIsComplete
    OnlyTraitsOrNamesakesDeadlock
PROPERTIES
    EligibilityFollowsCVs
    UploadsSettle
SYMMETRY Interchangeable
