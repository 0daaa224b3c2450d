SPECIFICATION Spec
CONSTANTS
    JTI <- TwoSETs
    MaxEvents = 2
    Parallelism = 2
    MaxLevel = 0
    Outcomes <- AllOutcomes
    Faults <- AllFaults
    MaxRuns = 2
    MaxOrphans = 1
INVARIANTS
    SettledWasConsumed
    DropIsReported
    HeldOnce
    AckNotForgotten
    HandedOnce
    IdleOwesNothing
PROPERTY DeliverySpec
CHECK_DEADLOCK FALSE
