\* Two forked processes with process groups, sessions and signals.
SPECIFICATION Spec
CONSTANTS
    init = init
    a = a
    b = b
    c = c
    d = d
    Procs = {init, a, b}
    InitProc = init
    Kernel = Kernel
    None = None
    MaxPid = 3
    WaitArgs <- GroupArgs
    JobControl = TRUE
SYMMETRY ForkedSymmetry

    
    
PROPERTIES
    ExitLostOnlyByRace
    ThreadLostOnlyBySignal
CHECK_DEADLOCK FALSE
