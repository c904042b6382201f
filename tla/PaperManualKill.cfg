SPECIFICATION Spec
CONSTANTS
    Symbols = {"s1", "s2"}
    MaxConcurrent = 2
    LossThreshold = 1
    DailyLimit = 2
    Legacy <- MCLegacy
    AllowBootstrap = TRUE
    MaxPositions = 2
    MaxDay = 1
    MaxFaults = 1
    MaxCrashes = 1
CHECK_DEADLOCK FALSE
INVARIANTS ManualKillHolds
