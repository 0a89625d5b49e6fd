SPECIFICATION UnderWay
CONSTANTS
    Watched = {i1}
    Invitations = {i1, i2}
    Users = {u1}
    Documents = {d1, d2}
    Requests = {r1, r2}
    TenantTx = FALSE
    Interviewers = {}
    Candidates = {c1}
    Buffer = 1
    MaxUndelivered = 1
SYMMETRY Texts
INVARIANTS
    MeetingTypeOK
    QuietViewersAreCurrent
    StreamsArePrivate
    ShownWasSaved
