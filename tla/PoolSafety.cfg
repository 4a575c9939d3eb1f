SPECIFICATION Spec
CONSTANTS
    MaxClient = 2
    InitClient = 1
    MaxThreads = 3
    MaxFd = 2
    Conns = {c1, c2}
    NoConn = NoConn
    MaxRequests = 1
    SigHosts = {0, 1, 2, 3}
INVARIANTS
    OneThreadPerSlot
    StatusTruthful
PROPERTIES
    SlotsLive
SYMMETRY Symmetry
CHECK_DEADLOCK FALSE
