SPECIFICATION Spec
CONSTANTS
    MaxHead = 1
    RespLen = 2
    ReadChunk = 3
    Depth = 3
    Streams <- ShortStreams
INVARIANTS
    RepliesAnswerRequests
    SequentialPeerNotOwed
    SequentialBufferBounded
PROPERTY WorkerReleased
CHECK_DEADLOCK FALSE
