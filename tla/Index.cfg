SPECIFICATION IndexSpec
CONSTANTS
    Key = {0, 1, 2}
    Value = {"a"}
    DELETED = "~DELETED~"
    MAX_LEVEL = 3
    MAX_NUM = 3
    Data = {1, 2, 3, 4, 5, 6, 7, 8}
    Guarded = TRUE
    TreeValue = {0, 1, 4, 5, 16, 21, 31, 63}
    MaxLen = 6
    TableKey = {1, 2, 3, 4, 5, 6}
    Lens = {0, 4}
    Chunks = {4, 8}
    MaxHead = 14
    MaxKills = 1
    Uninit = {0}
    Tasks = 5
    maxThreads = 2
    Char = {10, 32, 48}
    MaxText = 5
    Item = {1, 2, 3}
    Size = 5
CHECK_DEADLOCK FALSE
INVARIANTS LinksSound RBSound TreesRight FilesSound AnswersRight ProgramsRight
PROPERTIES ImplementsTable CallsEnd
