SPECIFICATION LocksSpec
CONSTANTS
    p1 = p1
    p2 = p2
    c1 = c1
    c2 = c2
    u1 = u1
    Threads = {p1, p2, c1, c2}
    Calls <- SomeCalls
    Capacities = {1, 2}
    NumValues = 4
    NumSpurious = 1
    Users = {u1, u2, u3}
    MaxCalls = 2
    MaxWakeups = 1
    Waiters = {u1, u2, u3}
    MaxWaits = 3
    MaxSets = 3
    MaxSurprises = 1
    Pids = {1, 2, 3, 4}
    Application = 1
    InitProcess = 0
    MaxLaunches = 2
\* Consumers may wait for more than will be pushed, and the bounds stop the rest.
CHECK_DEADLOCK FALSE
INVARIANTS
    FifoOrder
    HandedOnce
    NobodyStranded
    LockSound
    OneWaitPerSet
    LaunchSound
PROPERTIES
    ImplementsChannel
    NobodySleepsAfterWakeup
    ImplementsReadersWriters
    CallsReturn
    SetReachesWaiters
