SPECIFICATION FairSpec
CONSTANTS
    None = None
    c1 = c1
    c2 = c2
    Callers <- TwoCallers
    TTLs <- SomeTTLs
    MaxAges <- SomeMaxAges
    Second = 3
    Half = 8
    MaxVersion = 2
INVARIANTS
    HitsAreFresh
PROPERTIES
    NeverBehindTheCache
    CatchesUp
