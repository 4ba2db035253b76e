SPECIFICATION Spec
CONSTANTS
    Extensions = {TRUE}
    BaseNames = {"a"}
    Configured = "a"
    IndexMod = 8
    MaxFileNum = 3
    MaxSize = 1
    MsgSizes = {1}
    NumFiles = 4
    NumRestarts = 1
    NumChanges = 0
CHECK_DEADLOCK FALSE
PROPERTY OnlySurplusGoes
