\* Three clients on the small machine; 16-valued counters so that they wrap.
SPECIFICATION Spec
CONSTANTS
    MemoryMap <- SmallMap
    EarlyHeapPages = 2
    Callers = {c1, c2, c3}
    EarlyHeap = EarlyHeap
    MaxRequest = 3
    Word = 16
SYMMETRY CallerSymmetry
INVARIANTS
    TypeOK
    PagesHandedOutOnce
    FreeMemoryExact
    NoPageLost
PROPERTY FailsOnlyAtTheCursor
