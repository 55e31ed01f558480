SPECIFICATION Spec
CONSTANTS
    p0 = p0
    p1 = p1
    Partitions <- OnePartition
    CacheTTL = 1
    DegradedAfter = 2
    UnhealthyAfter = 3
    ReadyCycles = 1
    MaxCycles = 3
    MaxTime = 3
PROPERTY HealthyIsMostlyGood
CHECK_DEADLOCK FALSE
