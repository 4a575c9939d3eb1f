SPECIFICATION PingsFair
CONSTANTS
    Slots = 2
    ShortMax = 3
    MaxTries = 4
    MaxStrays = 1
    MaxSigs = 1
INVARIANTS
    LaterFinds
    EitherCounts
    LostIsEarly
PROPERTIES
    SigintEnds
CHECK_DEADLOCK FALSE
