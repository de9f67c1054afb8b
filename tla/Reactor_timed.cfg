SPECIFICATION TimedSpec
CONSTANTS
    Peers = {p1, p2}
    NoPeer = NoPeer
    Streams <- CutRequest
    Trigger = "Level"
    MaxHead = 1
    RespLen = 2
    MaxConns = 1
    NumFds = 2
    SndBuf = 1
    ReadChunk = 1
    Depth = 1
    MaxFaults = 1
PROPERTIES
    EveryConnectionEnds
    ShutdownStops
    ListenerRearmed
CHECK_DEADLOCK FALSE
