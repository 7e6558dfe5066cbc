SPECIFICATION SpecAll
CONSTANTS
    Key = {1, 2}
    Value = {a}
    PutValue = {a}
    MAX_NUM = 2
    LevelBase = 1
    NLevels = 6
    Garbage <- UninitInt
    MaxSS = 3
    MaxLog = 6
    MaxTail = 2
    MaxCrash = 0
    Empty = Empty
    Deleted = Deleted
CHECK_DEADLOCK FALSE
INVARIANTS ClientSees MemoryMatchesDisk
PROPERTIES OperationsReturn
