SPECIFICATION Spec
CONSTANTS
    p1 = p1
    p2 = p2
    Peers <- TwoPeers
    NoPeer = NoPeer
    Stream <- KeepThenClose
    Caps = {1, 2}
    MaxHead = 1
    RespLen = 2
    NumFds = 2
    SndBuf = 1
    ReadChunk = 1
    MaxFaults = 1
INVARIANTS WantsMatch
PROPERTIES ClosedForACause RequestsServed BacklogTaken
CHECK_DEADLOCK FALSE
