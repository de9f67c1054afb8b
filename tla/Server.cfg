SPECIFICATION Spec
CONSTANTS
    Conns = {c1, c2, c3}
    NoConn = NoConn
    MaxConnections = 2
    NumWorkers = 2
    MaxFaults = 2
INVARIANTS PermitsAccounted OneOwner ChildrenCounted WorkersReaped FirstErrorReturned
CHECK_DEADLOCK FALSE
PROPERTIES ImplementsDispatch EveryConnectionSettled SignalEndsServer WorkersFollowParent
