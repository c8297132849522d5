SPECIFICATION FairSpec
CONSTANTS
    Main = Main
    T = T
    MainLine = 1
    TLine = 3
    Reloads = {513}
    Counts = {258, 772}
    NULL = NULL
INVARIANTS
    BootsSafely
    ContextKept
    CounterWhole
PROPERTIES
    MasksOwn
    TicksForever
CHECK_DEADLOCK FALSE
