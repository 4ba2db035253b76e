SPECIFICATION Spec
CONSTANTS
    Clients = {c1}
    init_threads = 1
    max_threads = 2
    Priorities = {"Normal"}
    Nested = TRUE
    NumTasks = 2
    NumSpurious = 0
CHECK_DEADLOCK FALSE
PROPERTY NoneAcceptedAfterStop
