SPECIFICATION Spec
CONSTANTS
    Clients = {c1, c2}
    Nobody = Nobody
    BACKLOG = 1
    MaxSlow = 1
    MaxForkFails = 1
    NumCallers = 3
    CLIENTNUM = 2
    Cleared = 1
    Descriptors = 2
    MaxNumber = 2
    Servers = {s1, s2}
    Stranger = Stranger
    Nowhere = Nowhere
    times = 2
    MaxCopies = 1
    MaxStrange = 1
    Default = Default
    Empty = Empty
    Options <- Typing
    MaxTyped = 2
    MaxLines = 2
INVARIANTS
    HeldByOne
    FoundAnswered
    
PROPERTIES
    TimeTold
    TableAnswers
CHECK_DEADLOCK FALSE
