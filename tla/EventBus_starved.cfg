SPECIFICATION FairSpec
CONSTANTS
    Subscribers = {s1}
    Buffer = 1
    MaxEvents = 1
    MaxLinks = 2
CHECK_DEADLOCK FALSE
PROPERTIES
    SubscribersAreServed
