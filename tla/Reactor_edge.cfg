SPECIFICATION ReadingSpec
CONSTANTS
    Peers = {p1, p2}
    NoPeer = NoPeer
    Streams <- TwoRequests
    Trigger = "Edge"
    MaxHead = 1
    RespLen = 2
    MaxConns = 1
    NumFds = 2
    SndBuf = 1
    ReadChunk = 1
    Depth = 1
    MaxFaults = 0
INVARIANTS
    TablesAgree
    InterestMatchesState
    NoLostWakeup
PROPERTIES
    ClosedForACause
    EventsStayWithTheirConnection
    RequestsServed
CHECK_DEADLOCK FALSE
