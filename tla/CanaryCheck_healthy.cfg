SPECIFICATION FairSpec
CONSTANTS
    Partitions <- TwoPartitions
    Workers = 2
    BatchSize = 2
    MaxCycles = 2
    MaxForeign = 1
    MaxCopies = 2
    Faults = {"retry"}
PROPERTY HealthyChecksSucceed
INVARIANT NoFalseAlarm
CHECK_DEADLOCK FALSE
