SPECIFICATION Spec
CONSTANTS
    kernel = kernel
    a = a
    b = b
    idle = idle
    e1 = e1
    e2 = e2
    Threads <- SmallThreads
    KernelThread = kernel
    Idle = idle
    Events = {e1}
    MaxPending = 1
INVARIANT
    HookNotLinked
CHECK_DEADLOCK FALSE
