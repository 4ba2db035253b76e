SPECIFICATION EventSpec
CONSTANTS
    Waiters = {t1, t2}
    MaxSets = 2
    MaxWaits = 2
    MaxSurprises = 0
CHECK_DEADLOCK FALSE
INVARIANT WokenIsSuccess
