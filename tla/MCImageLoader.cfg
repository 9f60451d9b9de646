SPECIFICATION Spec
CONSTANTS
    k1 = k1
    u1 = u1
    u2 = u2
    None = None
    Views = {v1, v2}
    Keys = {k1, k2}
    Urls = {u1, u2}
    UrlOf <- OwnUrls
    Local = {u1, u2}
    Capacity = 1
    MaxCalls = 5
SYMMETRY ViewSymmetry
INVARIANTS
    TypeOK
    ShownIsAlive
    CountsAreViews
CHECK_DEADLOCK FALSE
