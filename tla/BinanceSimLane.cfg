SPECIFICATION FairSpec
CONSTANTS
    Start = 5
    Prices = {8, 10, 12}
    Fee = 1
    Band = 2
    TimeStop = 2
    MaxClosed = 2
    MaxOrders = 4
    MaxFaults = 2
INVARIANTS BooksBalance
PROPERTIES EveryPositionCloses
