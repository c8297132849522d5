SPECIFICATION Spec
CONSTANTS
    Threads = {Idle, Main, A, B}
    Idle = Idle
    Main = Main
    NULL = NULL
INVARIANTS
    EspIsInnermostFrame
CHECK_DEADLOCK FALSE
