SPECIFICATION SpecKill
CONSTANTS
    Key = {1, 2, 3}
    Value = {a, b}
    PutValue = {a, b}
    MAX_NUM = 1
    LevelBase = 1
    NLevels = 6
    Garbage = {0}
    MaxSS = 6
    MaxLog = 99
    MaxTail = 0
    MaxCrash = 1
    Empty = Empty
    Deleted = Deleted
CHECK_DEADLOCK FALSE
SYMMETRY Values
INVARIANTS ClientSees
PROPERTIES DiskIsPrefix FlushIsNewest
