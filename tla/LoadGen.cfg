SPECIFICATION Spec
CONSTANTS
    Workers = {w1, w2, w3}
    Total = 3
INVARIANTS
    EachRequestOnce
    NoLostWakeup
PROPERTY Terminates
CHECK_DEADLOCK FALSE
