SPECIFICATION Spec
CONSTANTS
    Idle = Idle
    Main = Main
    A = A
    B = B
    C = C
    NULL = NULL
    Threads = {Idle, Main, A, B, C}
    MaxTid = 4
    Sought = {3}
    Askers = {Main, A}
SYMMETRY Slots
INVARIANTS
    NoThreadLost
CHECK_DEADLOCK FALSE
