SPECIFICATION FairSpec
CONSTANTS
    Pid = {1, 2}
    MAXJOBS = 2
    MaxKeys = 2
CHECK_DEADLOCK FALSE
INVARIANTS TypeOK OneForeground JobsAreChildren StatesMatch
PROPERTIES WaitingEnds
