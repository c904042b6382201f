SPECIFICATION FairSpec
CONSTANTS
    MaxLegacy = 0
    MaxT0 = 1
    Paths <- MCPaths
    Cap = 1
    Overlap = FALSE
    MaxTears = 1
    MaxFaults = 0
    MaxRequests = 4
PROPERTY EverySettles
CHECK_DEADLOCK FALSE
