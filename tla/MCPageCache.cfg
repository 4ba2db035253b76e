SPECIFICATION Spec
CONSTANTS
    SpanIds = {s1, s2, s3, s4, s5}
    NoSpan = NoSpan
    NumPages = 7
    KMAX = 3
    MaxRequest = 4
\* Large spans are never released: when they fill the address space no call is left.
CHECK_DEADLOCK FALSE
SYMMETRY Symmetry
INVARIANTS
    Tiling
    SoundLookups
PROPERTY ImplementsAllocator
