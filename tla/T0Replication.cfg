SPECIFICATION FairReplicationSpec
CONSTANTS
    MaxPackets = 3
    BatchLimit = 2
    MaxFaults = 3
CHECK_DEADLOCK FALSE
INVARIANTS ConsumerPrefix NoGapRequested
PROPERTIES EventuallyReplicated
