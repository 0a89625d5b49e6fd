SPECIFICATION MeetingSpec
CONSTANTS
    Watched = {i1}
    Invitations = {i1}
    Users = {u1}
    Documents = {d1, d2}
    Requests = {r1}
    TenantTx = TRUE
    Interviewers = {u1}
    Candidates = {}
    Buffer = 1
    MaxUndelivered = 2
SYMMETRY Texts
INVARIANTS
    QuietViewersAreCurrent
