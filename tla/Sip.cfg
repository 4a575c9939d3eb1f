SPECIFICATION Spec
CONSTANTS
    Hosts = {h1}
    Macs = {m1, m2}
    Own = own
    OwnMac = ownMac
    Bcast = bcast
    TableSize = 2
    Memory = 3
    Pcbs = {p1, p2, p3}
    NULL = NULL
    NoSock = NoSock
    HTABLE = 4
    Ports = {0, 1, 2, 5}
    Threads = {t1, t2, t3}
    Socks = {s1, s2, s3}
    NUM_SOCKETS = 2
    Bytes = {0, 1, 247, 255}
    MaxRest = 4
    PseudoSum = 70000
SYMMETRY Symmetry
INVARIANTS
    DatagramsCost
    ListsExact
    TableConsistent
    OnlyCloseDangles
    AcceptedAsKnown

    
CHECK_DEADLOCK FALSE
