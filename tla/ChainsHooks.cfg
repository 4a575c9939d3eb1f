SPECIFICATION Spec
CONSTANTS
    Nodes = {n1, n2, n3}
    NIL = NIL
    Keys = {k1, k2}
    Dropping = {k1}
    Junk = {0}
    Handlers = {h1}
    Hooks = {p1}
    Ops = {"Insert", "Delete", "Append", "Flush", "Replace"}
    Targets = {1}
    Positions <- FewPositions
    HitModulus = 1
    MaxDeficit = 1
    Settings <- SomeSettings
INVARIANTS
    CalmHookRight
    CalmHookSafe
    GrownHookFindsFirst
SYMMETRY Symmetry
CHECK_DEADLOCK FALSE
