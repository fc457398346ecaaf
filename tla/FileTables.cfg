CONSTANTS
    Procs = {p1, p2}
    First = p1
    Descs = {d1, d2}
    Terminal = tty
    None = None
    MaxFd = 9
    MaxOffset = 0
    Requests <- SomeRequests
    Modes <- NoModes
    Closed = {6, 8}
    Positions <- NoPositions
SYMMETRY FileSymmetry
SPECIFICATION Spec
INVARIANT TypeOK
PROPERTY NextIndexNumbersKept
CHECK_DEADLOCK FALSE
