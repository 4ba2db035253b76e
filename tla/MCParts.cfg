SPECIFICATION PartsSpec
CONSTANTS
    u1 = u1
    u2 = u2
    Threads = {u1, u2}
    Caches = {"c1", "c2"}
    CacheOf <- OneEach
    Objects = {o1, o2, o3}
    Null = Null
    LastSize = 270000
    FirstSizes <- Sweeps
    TreeKeys = {1, 2, 3}
    MaxCopies = 2
    MaxNodes = 6
    Keys = {1, 2, 3, 4}
    \* Values are lengths; 0 is the empty value of a deleted key.
    Values = {0, 3}
    KeySize = 2
    End = 1000
    MaxLevel = 3
    MaxMem = 12
    \* Two threads push, one pushes and pops.
    Callers = {"a", "b", "c"}
    Poppers = {"c"}
    StackNodes = {1, 2, 3}
    NULL = 0
    MaxPushes = 4
    Capacity = 5
    MaxRead = 4
    MaxLen = 4
    MaxStream = 11
    Bytes = {0, 77, 165, 255}
    MaxText = 6
    MaxHeight = 3
    MaxWord = 6
    Plain = {"x"}
    Fields = {"v"}
    DateFields = {"D"}
    MaxTokens = 3
    ConfigKeys <- SomeKeys
    ConfigValues <- SomeValues
    MaxLines = 3
    ObjectSizes = {1, 3, 4, 12}
    Word = 2
    PageSize = 6
    ChunkSize = 6
    MaxChunks = 2
    Kinds <- AllKinds
    Shapes <- SomeShapes
    DestinationShapes <- OneShape
    Destinations <- OneDestination
    Hash <- SomeHash
    Times = {1}
    Reporters = {"r"}
    MaxServers = 3
    MaxPicks = 5
    MaxHeld = 3
    MaxOff = 1
\* The bounds stop the parts.
CHECK_DEADLOCK FALSE
INVARIANTS
    CachesSound
    SizesFit
    StructuresSound
    RingSound
    TextsSound
    ConnectionsCounted
    SharesKept
PROPERTIES
    ImplementsBag
    ImplementsDictionary
    ImplementsStack
