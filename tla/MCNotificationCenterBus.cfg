SPECIFICATION FairSpec
CONSTANTS
    Observers = {o1, o2}
    Events = {e1}
    MaxPosts = 3
    MaxDepth = 3
    MaxDeferred = 2
INVARIANTS
    PostedExactlyOnce
PROPERTIES
    ImplementsBus
    EventuallyBroadcast
CHECK_DEADLOCK FALSE
