SPECIFICATION FairSpec
CONSTANTS
    Threads = {t1, t2}
    Nobody = Nobody
    Sizes = {2, 4}
    MAX_BYTES = 4
    MoveCap = 2
    PageCells = 4
    NumPages = 2
    LargePages = {2}
INVARIANTS
    ObjectsConserved
    ListsWithinLimit
    NoIdleSpan
PROPERTIES
    ImplementsHeap
    CallsFinish
