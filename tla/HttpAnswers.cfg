SPECIFICATION FairSpec
CONSTANTS
    MaxSize = 3
    Buf = 2
    MaxFiles = 2
    Bounds = {0, 2}
    Garbage <- MCGarbage
INVARIANTS
    DescriptorsBalance
    BodyAsPromised
PROPERTIES
    Answers
