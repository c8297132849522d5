SPECIFICATION FairClockSpec
CONSTANTS
    Idle = Idle
    Main = Main
    A = A
    B = B
    NULL = NULL
    KernelLock = KernelLock
    Threads <- MCPair
    Word = 4
    SleepTicks = {3}
    Semaphores = {}
    Mutexes = {m1}
    CondVars = {cv1}
    MaxCount = 0
    MaxDepth = 1
PROPERTIES
    ReadyRuns
    HandedOverIsTaken
    SleepersWake
    SleepsLongEnoughUnlessWrapped
