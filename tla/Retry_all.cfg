CONSTANTS
    MaxDuration = 31
    Second = 4
    DefaultMax = 12
    Headers <- MCHeaders
    Bounds <- MCBounds
SPECIFICATION Spec
INVARIANTS
    BackoffInBounds
    WaitWithinCeiling
    NeverSpins
    HintHonoured
PROPERTIES
    WaitsKeepUp
