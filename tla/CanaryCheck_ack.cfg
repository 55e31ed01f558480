SPECIFICATION FairSpec
CONSTANTS
    Partitions <- TwoPartitions
    Workers = 2
    BatchSize = 2
    MaxCycles = 1
    MaxForeign = 0
    MaxCopies = 1
    Faults = {"slow"}
PROPERTY AckInTimeProceeds
CHECK_DEADLOCK FALSE
