SPECIFICATION Spec
CONSTANTS
    Alignment = 2
    PageSize = 8
    HeapInit = 8
    kernel_end = 6
    MemoryMaps <- MCMemoryMaps
    MemoryEnd = 24
    Word = 64
    NULL = NULL
    Zero = Zero
    V = V
    Values <- MCValues
    Junk = Junk
    Sizes = {0, 1, 5}
    MaxLive = 3
INVARIANTS
    TypeOK
    NoAssert
    BlocksTile
    HeapInRam
    FreeListCoalesced
    ContentsKept
    AtLeastAsked
PROPERTIES
    BytesCounted
CHECK_DEADLOCK FALSE
CONSTRAINT MCIntact
VIEW MCView
