SPECIFICATION Spec
CONSTANTS
    Peers = {p1, p2}
    NoPeer = NoPeer
    Streams <- TwoRequests
    MaxHead = 1
    RespLen = 2
    Caps = {2}
    NumFds = 2
    SqEntries = 1
    NumBufs = 2
    TailMod = 4
    BufSize = 1
    Depth = 1
    MaxFaults = 1
SYMMETRY PeerSymmetry
INVARIANTS
    FdsAccounted
    SendBufferStable
    BuffersConserved
    InputIntact
CHECK_DEADLOCK FALSE
