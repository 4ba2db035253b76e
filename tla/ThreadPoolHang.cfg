SPECIFICATION FairSpec
CONSTANTS
    Clients = {c1}
    init_threads = 2
    max_threads = 4
    Priorities = {"Normal"}
    Nested = FALSE
    NumTasks = 2
    NumSpurious = 0
CHECK_DEADLOCK FALSE
PROPERTY DestructorReturns
