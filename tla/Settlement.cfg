SPECIFICATION FairSpec
CONSTANTS
    MaxLegacy = 2
    MaxT0 = 3
    Paths <- MCPaths
    Cap = 2
    Overlap = FALSE
    MaxTears = 1
    MaxFaults = 1
    MaxRequests = 8
INVARIANTS HotIsBacked ProvedByFinalCandles BoundToItsRow
PROPERTIES SettledOnce SettledOrTorn EveryT0Binds 
CHECK_DEADLOCK FALSE
