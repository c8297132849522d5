SPECIFICATION FairSpec
CONSTANTS
    Idle = Idle
    Readers = {R1, R2}
    Writers = {R1, W}
    NULL = NULL
    Chars = 2
    Word = 6
    MAX_SPIN_TICKS = 1
    Fifo = 1
    MaxBytes = 2
INVARIANTS
    TypeOK
PROPERTIES
    SynchronizedNotTorn
    ReadsGenuine
    NoEarlyTimeoutUnlessWrapped
    CallsReturn
CHECK_DEADLOCK FALSE
