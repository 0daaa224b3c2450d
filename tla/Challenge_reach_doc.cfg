SPECIFICATION Spec
CONSTANTS
    None = None
    c1 = c1
    c2 = c2
    s1 = s1
    s2 = s2
    Calls <- TwoCalls
    States <- TwoStates
    MayUse <- Shared
    MaxCopies = 1
INVARIANT WaiterIsReachable
CHECK_DEADLOCK FALSE
