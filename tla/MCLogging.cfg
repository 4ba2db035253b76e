SPECIFICATION LoggingSpec
CONSTANTS
    Extensions = {TRUE, FALSE}
    BaseNames = {"a", "b"}
    Configured = "a"
    IndexMod = 3
    MaxFileNum = 2
    MaxSize = 2
    MsgSizes = {1}
    NumFiles = 4
    NumRestarts = 1
    NumChanges = 1
    t1 = t1
    t2 = t2
    Threads = {t1, t2}
    Changers = {t1}
    Spaces = 1
    MaxLines = 3
    MaxInits = 2
    MaxChanges = 1
\* The bounds stop both parts.
CHECK_DEADLOCK FALSE
INVARIANTS
    FilesSound
    LinesKept
PROPERTIES
    OnlySurplusGoesUnlessReplaced
    OldestGoFirst
    LimitKept
    QueuedIsFlushed
    LoggerCallsReturn
