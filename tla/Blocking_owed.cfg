SPECIFICATION Spec
CONSTANTS
    MaxHead = 1
    RespLen = 1
    ReadChunk = 3
    Depth = 2
    Streams <- ShortStreams
INVARIANT NothingOwedWhileReading
CHECK_DEADLOCK FALSE
