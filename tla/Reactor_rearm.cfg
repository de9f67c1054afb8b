SPECIFICATION TimedSpec
CONSTANTS
    Peers = {p1, p2, p3}
    NoPeer = NoPeer
    Streams <- Silent
    Trigger = "Edge"
    MaxHead = 1
    RespLen = 1
    MaxConns = 2
    NumFds = 2
    SndBuf = 1
    ReadChunk = 1
    Depth = 1
    MaxFaults = 0
PROPERTIES
    ListenerRearmed
CHECK_DEADLOCK FALSE
