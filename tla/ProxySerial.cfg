SPECIFICATION SerialSpec
CONSTANTS
    Conn = {1, 2}
    FD = {4, 5}
    Req <- SerialReq
    Resp <- SerialResp
    MayStop <- Sock
    MaxFail = 1
    MaxOut = 5
    None = None
CHECK_DEADLOCK FALSE
INVARIANTS Relays LogCounts NoDescriptorLeft
