SPECIFICATION FairSpec
CONSTANTS
    MaxRetries = 3
    Faults = {"cancel", "transport", "gateway", "body", "sign", "target"}
INVARIANTS
    NilMeansAccepted
    NoSilentDrop
    VerdictHonoured
    BudgetKept
PROPERTIES
    CancelStops
    Returns
CHECK_DEADLOCK FALSE
