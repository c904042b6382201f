SPECIFICATION Spec
CONSTANTS
    MaxT0 = 4
    NSymbols = 2
    MaxCandle = 2
    Lag = 0
    RetryLimit = 2
    DedupeWindow = 5
    Poison = {}
    JournalTears = {}
    PostsMayOverlap = FALSE
    MaxCrashes = 1
    MaxErrors = 2
INVARIANTS RouteOnlyDurable LineageExact SealedFirst OneTreatmentPerCandle
PROPERTIES NoRetroactiveRouting ImplementsLineage
