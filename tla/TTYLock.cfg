SPECIFICATION Spec
CONSTANTS
    Readers = {r1, r2}
    Chars = {"x", "space", "nl", "cr", "eof", "kill", "erase", "werase", "nul", "intr", "esc"}
    Capacity = 2
    MaxBytes = 2
    MaxPending = 4
    MaxLines = 2
SYMMETRY ReaderSymmetry
INVARIANT
    NoDeadlockPanic
CHECK_DEADLOCK FALSE
