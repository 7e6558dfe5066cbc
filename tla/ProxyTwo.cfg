SPECIFICATION TwoSpec
CONSTANTS
    Conn = {1, 2}
    FD = {4, 5, 6, 7}
    Req <- TwoReq
    Resp <- TwoResp
    MayStop <- OneClient
    MaxFail = 0
    MaxOut = 5
    None = None
CHECK_DEADLOCK FALSE
INVARIANTS Isolation LogExclusive
PROPERTY ThreadsEnd
