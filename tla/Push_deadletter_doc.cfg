SPECIFICATION Spec
CONSTANTS
    MaxRetries = 3
    Faults = {"cancel"}
INVARIANTS
    CancelIsNotDeadLettered
CHECK_DEADLOCK FALSE
