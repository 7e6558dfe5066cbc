SPECIFICATION SSpec
CONSTANTS
    Key = {1,2,4,5,6,7,8,9,10,11,12}
    Value = {old, new}
    PutValue = {old, new}
    MAX_NUM = 2
    LevelBase = 2
    NLevels = 6
    Garbage = {0}
    MaxSS = 99
    MaxLog = 99
    MaxTail = 0
    MaxCrash = 0
    Empty = Empty
    Deleted = Deleted
    old = old
    new = new
CHECK_DEADLOCK FALSE
INVARIANT GetReturnsLastPut
