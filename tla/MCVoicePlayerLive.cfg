SPECIFICATION FairSpec
CONSTANTS
    Buffers = 2
    Length = 3
    MaxPlays = 1
    MaxSeeks = 1
    MaxPauses = 1
INVARIANTS
    PausesCostOnePart
PROPERTIES
    PlaybackEnds
CHECK_DEADLOCK FALSE
