SPECIFICATION Spec
CONSTANTS
    Buffers = 2
    Length = 2
    MaxPlays = 2
    MaxSeeks = 1
    MaxPauses = 1
INVARIANTS
    TypeOK
    PlayedAsItIs
CHECK_DEADLOCK FALSE
