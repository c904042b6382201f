SPECIFICATION MCSpec
CONSTANTS
    Handlers = {"h1", "h2"}
    Period = 2
    Headroom = 1
    ConfiguredTtl = 2
    MaxLatency = 1
    MaxRows = 2
    MaxFaults = 1
INVARIANTS CountNeverShort FreshMeansRecent
PROPERTIES GenerationsAdvance ServesFreshAgain
