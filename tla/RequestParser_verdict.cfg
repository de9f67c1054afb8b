SPECIFICATION Spec
CONSTANTS
    Streams <- AllStreams
    MaxRequestLine = 6
    MaxHeaderBytes = 10
    MaxHeaderCount = 1
    MaxBody = 1
INVARIANTS
    IndicesInBounds
    ScanSkipsNothing
    BoundedWhileIncomplete
    BufferIsUnconsumed
    VerdictIgnoresReads
CHECK_DEADLOCK FALSE
