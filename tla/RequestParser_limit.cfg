SPECIFICATION Spec
CONSTANTS
    Streams <- AtLimit
    MaxRequestLine = 6
    MaxHeaderBytes = 10
    MaxHeaderCount = 1
    MaxBody = 1
INVARIANT VerdictIsReference
CHECK_DEADLOCK FALSE
