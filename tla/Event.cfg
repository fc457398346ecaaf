SPECIFICATION Spec
CONSTANTS
    kernel = kernel
    a = a
    b = b
    idle = idle
    e1 = e1
    e2 = e2
    Threads <- SmallThreads
    KernelThread = kernel
    Idle = idle
    Events = {e1, e2}
    MaxPending = 1
SYMMETRY WorkerSymmetry
INVARIANTS
    TypeOK
    QueuedOnce
    
    YieldLockFree
    ListenersAreWaiting
    AwaitReportsFired
PROPERTY
    LostOnlyBeforeBlocked
CHECK_DEADLOCK FALSE
