SPECIFICATION Spec
CONSTANTS
    MaxStarts = 3
    MaxStops = 2
    MaxChunks = 2
INVARIANTS
    TypeOK
    EncoderIsOwn
    SentAsRecorded
    StopStops
    RunningIsRecorded
CHECK_DEADLOCK FALSE
