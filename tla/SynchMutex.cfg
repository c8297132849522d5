SPECIFICATION Spec
CONSTANTS
    Idle = Idle
    Main = Main
    A = A
    B = B
    NULL = NULL
    KernelLock = KernelLock
    Threads <- MCThreads
    Word = 1
    SleepTicks = {}
    Semaphores = {s1}
    Mutexes = {m1, m2}
    CondVars = {cv1}
    MaxCount = 1
    MaxDepth = 2
SYMMETRY MCSymmetry
INVARIANTS
    TypeOK
    NoPanic
    LinkedOnce
    CountIsQueueLength
    MutualExclusion
PROPERTIES
    NoOvertaking
    ImplementsFifoLock
