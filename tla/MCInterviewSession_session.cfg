CONSTANTS
    Invitations = {i1}
    Users = {u1, u2}
    Documents = {d1, d2}
    Requests = {r1, r2}
    TenantTx = FALSE
SPECIFICATION Spec
SYMMETRY Interchangeable
INVARIANTS
    TypeOK
PROPERTIES
    NotesWhileStarted
    ChangedByAttendees
    StatusSettles
    SchedulesSettle
