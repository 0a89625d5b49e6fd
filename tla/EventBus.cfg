SPECIFICATION FairSpec
CONSTANTS
    Subscribers = {s1, s2}
    Buffer = 1
    MaxEvents = 2
    MaxLinks = 2
CHECK_DEADLOCK FALSE
INVARIANTS
    TypeOK
    RegisteredAreOpen
    ClosedForGood
    OneConnection
    NothingSkipped
PROPERTIES
    PublicationsEnd
    DispatchersEnd
    CancelledAreClosed
