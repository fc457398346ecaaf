\* Four forked processes for two pids; nobody changes its group.
SPECIFICATION Spec
CONSTANTS
    init = init
    a = a
    b = b
    c = c
    d = d
    Procs = {init, a, b, c, d}
    InitProc = init
    Kernel = Kernel
    None = None
    MaxPid = 3
    WaitArgs <- PidArgs
    JobControl = FALSE
SYMMETRY ForkedSymmetry
INVARIANTS
    TypeOK
    ProcessTableExact
    LiveProcessHasParent
    ReapedOnceAfterExit
PROPERTY
    ExitLostOnlyByRace
CHECK_DEADLOCK FALSE
