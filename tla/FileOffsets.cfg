CONSTANTS
    Procs = {p1, p2}
    First = p1
    Descs = {d1}
    Terminal = tty
    None = None
    MaxFd = 8
    MaxOffset = 3
    Requests <- NoRequests
    Modes <- AllModes
    Closed = {2}
    Positions <- SomePositions
SPECIFICATION Spec
INVARIANT NoByteSkipped
CHECK_DEADLOCK FALSE
