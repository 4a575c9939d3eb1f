SPECIFICATION Spec
CONSTANTS
    Users = {u1, u2}
    MaxLines = 2
    MaxPieces = 2
    BUF_SIZE = 2
    MaxCalls = 2
    MaxBytes = 3
    WRITELEN = 4
    PipeSize = 2
    SemStart = 2
    MaxItems = 4
INVARIANTS
    InOrder
    
PROPERTIES
    
    StopsOrStarves
    FileCopied
CHECK_DEADLOCK FALSE
