SPECIFICATION FairSpec
CONSTANTS
    Peers = {p1, p2}
    NoPeer = NoPeer
    Streams <- OneRequest
    MaxHead = 1
    RespLen = 1
    Caps = {1, 2}
    NumFds = 2
    SqEntries = 1
    NumBufs = 1
    TailMod = 2
    BufSize = 1
    Depth = 1
    MaxFaults = 0
PROPERTIES
    RequestsServed
    ArrivalsTaken
CHECK_DEADLOCK FALSE
