SPECIFICATION Spec
CONSTANTS
    MaxT0 = 2
    LateBinding = FALSE
    SettleNewest = FALSE
    WriteMayRaise = FALSE
    MaxFaults = 2
INVARIANTS TypeOK NeverAhead DurablyBound HistoryComplete
PROPERTIES DiskOnlyGrows
