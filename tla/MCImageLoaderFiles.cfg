SPECIFICATION Spec
CONSTANTS
    k1 = k1
    u1 = u1
    u2 = u2
    None = None
    Views = {v1, v2}
    Keys = {k1, k2}
    Urls = {u1}
    UrlOf <- OneUrl
    Local = {}
    Capacity = 2
    MaxCalls = 5
SYMMETRY ViewSymmetry
INVARIANTS
    NobodyIsForgotten
CHECK_DEADLOCK FALSE
