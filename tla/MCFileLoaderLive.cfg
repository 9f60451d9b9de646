SPECIFICATION FairSpec
CONSTANTS
    Files = {f1, f2}
    MaxCalls = 4
PROPERTIES
    CancelledEnds
CHECK_DEADLOCK FALSE
