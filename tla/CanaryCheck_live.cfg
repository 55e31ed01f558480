SPECIFICATION FairSpec
CONSTANTS
    Partitions <- ThreePartitions
    Workers = 2
    BatchSize = 2
    MaxCycles = 1
    MaxForeign = 0
    MaxCopies = 1
    Faults = {"stall", "refused", "slow", "log"}
INVARIANT OwnMessageAhead
PROPERTY KeepsPromise
PROPERTY EveryCheckReports
CHECK_DEADLOCK FALSE
