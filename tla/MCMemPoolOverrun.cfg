SPECIFICATION Spec
CONSTANTS
    Threads = {t1, t2}
    Nobody = Nobody
    Sizes = {3}
    MAX_BYTES = 6
    MoveCap = 2
    PageCells = 4
    NumPages = 3
    LargePages = {2}
SYMMETRY Symmetry
INVARIANT BlocksDisjoint
