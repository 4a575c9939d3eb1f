SPECIFICATION FairSpec
CONSTANTS
    Nodes = {n1, n2, n3}
    NIL = NIL
    Keys = {k1, k2}
    Dropping = {k1}
    Junk = {0}
    Handlers = {h1}
    Hooks = {}
    Ops = {"Insert", "Delete", "Append", "List", "Flush", "Replace"}
    Targets = {1, 3}
    Positions <- MorePositions
    HitModulus = 1
    MaxDeficit = 1
    Settings <- NoSettings
PROPERTIES
    CommandsEnd
CHECK_DEADLOCK FALSE
