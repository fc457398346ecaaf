SPECIFICATION Spec
CONSTANTS
    Procs = {p1, p2}
    First = p1
    MaxVirt = 6
    MaxPhys = 7
    TotalBase = 4
    Images <- OneImage
    StackTop = 6
    MaxLength = 2
    FixedBases = {1, 3}
    MaxRegions = 3
    MaxCalls = 5
INVARIANT
    ForkCopiesMemory
CHECK_DEADLOCK FALSE
