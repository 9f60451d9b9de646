SPECIFICATION Spec
CONSTANTS
    Files = {f1, f2, f3}
    MaxCalls = 5
SYMMETRY FileSymmetry
INVARIANTS
    TypeOK
    SlotsAreCounted
    AtMostThree
    UnearnedNeedsCancel
    WaitingIsWokenUp
    ReportedOnce
    OnePerFile
CHECK_DEADLOCK FALSE
