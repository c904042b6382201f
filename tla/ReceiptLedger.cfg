SPECIFICATION Spec
CONSTANTS
    Receipts = {r1, r2}
    Rows = {1, 2}
    AppendTears = {"lost", "torn", "unterminated"}
    MarkTears = {"lost"}
    MaxEvents = 8
    MaxCrashes = 3
CHECK_DEADLOCK FALSE
INVARIANTS TypeOK AlwaysReplayable
PROPERTIES NeverForgets
