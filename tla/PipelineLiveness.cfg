SPECIFICATION FairSpec
CONSTANTS
    MaxT0 = 3
    NSymbols = 2
    MaxCandle = 2
    Lag = 0
    RetryLimit = 1
    DedupeWindow = 5
    Poison = {1}
    JournalTears = {}
    PostsMayOverlap = FALSE
    MaxCrashes = 1
    MaxErrors = 1
PROPERTIES EveryReceiptResolves
