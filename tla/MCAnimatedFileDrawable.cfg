SPECIFICATION FairSpec
CONSTANTS
    Threads = {t1, t2}
INVARIANTS
    TypeOK
    DecoderIsAlive
PROPERTIES
    ReleasedInTheEnd
CHECK_DEADLOCK FALSE
