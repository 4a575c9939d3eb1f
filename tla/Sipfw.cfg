SPECIFICATION Spec
CONSTANTS
    Clients = {c1, c2}
    CommandLines <- Typed
    Capacity = 2
    Width = 4
    MaxRules = 2
    MaxDeficit = 1
    Writers = {w1, w2}
    Texts <- Words
    Faults = {2}
    ConfFiles <- Files
    Setters = {w1, w2}
    Cpus = {q1}
    PortNos = {1, 2}
    Addrs = {1}
INVARIANTS
    
    AnswerOwed
    GoneForGood
PROPERTIES
    ClientEnds
    WrittenIsSet
CHECK_DEADLOCK FALSE
