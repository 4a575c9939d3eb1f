SPECIFICATION Spec
CONSTANTS
    Nodes = {n1, n2, n3, n4}
    NIL = NIL
    Keys = {k1, k2}
    Dropping = {k1}
    Junk = {0}
    Handlers = {h1}
    Hooks = {}
    Ops = {"Insert", "Delete", "Append", "List", "Flush", "Replace"}
    Targets = {1, 2, 3}
    Positions <- MorePositions
    HitModulus = 1
    MaxDeficit = 2
    Settings <- NoSettings
INVARIANTS
    ChainsIntact
    KnownOops

    
SYMMETRY Symmetry
CHECK_DEADLOCK FALSE
