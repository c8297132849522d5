SPECIFICATION FairSpec
CONSTANTS
    Lines = {0, 1, 8, 9}
    Driven = {0, 1, 2, 8, 9}
    None = None
INVARIANTS
    TypeOK
    ServiceEnds
PROPERTIES
    TimerServed
