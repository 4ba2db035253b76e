SPECIFICATION FairSpec
CONSTANTS
    Clients = {c1, c2}
    init_threads = 1
    max_threads = 3
    Priorities = {"High", "Normal", "Low"}
    Nested = TRUE
    NumTasks = 3
    NumSpurious = 1
\* The pool is destroyed, or its destructor hangs.
CHECK_DEADLOCK FALSE
INVARIANTS
    TasksConserved
    EnoughWorkers
PROPERTIES
    TasksEnd
    DestructorReturnsUnlessRaced
