SPECIFICATION Spec
CONSTANTS
    Observers = {o1, o2}
    Events = {e1, e2}
    MaxPosts = 3
    MaxDepth = 2
    MaxDeferred = 1
SYMMETRY HubSymmetry
INVARIANTS
    TypeOK
    NoDuplicateObservers
    RegistrationOutcome
PROPERTIES
    StableWhileBroadcasting
CHECK_DEADLOCK FALSE
