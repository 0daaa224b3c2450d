SPECIFICATION FairSpec
CONSTANTS
    JTI <- ThreeSETs
    MaxEvents = 1
    Parallelism = 2
    MaxLevel = 1
    Outcomes <- Terminal
    Faults <- CancelOnly
    MaxRuns = 1
    MaxOrphans = 1
PROPERTIES
    Settles
    CancelStops
CHECK_DEADLOCK FALSE
