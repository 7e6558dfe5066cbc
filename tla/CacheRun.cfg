SPECIFICATION Spec
CONSTANTS
    maxSetNum = 2
    maxLine = 3
    maxBlock = 2
    Addr = {1, 4, 8, 12, 6}
    MaxTime = 7
CHECK_DEADLOCK FALSE
INVARIANTS SetsWellFormed
PROPERTIES IsLRU
