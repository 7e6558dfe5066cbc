SPECIFICATION Spec
CONSTANTS
    LISTNUM = 3
    MAX_HEAP = 140
    PreAlloc <- MCPreAlloc
    Trigger = 28
    Id = {101, 102, 103}
    Sizes = {8, 20, 28}
    MaxTraces = 2
    MaxOps = 7
CHECK_DEADLOCK FALSE
INVARIANTS HeapConsistent DriverAccepts
PROPERTIES ImplementsAPI
