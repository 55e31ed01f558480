SPECIFICATION Spec
CONSTANTS
    p0 = p0
    p1 = p1
    Partitions <- TwoPartitions
    CacheTTL = 1
    DegradedAfter = 2
    UnhealthyAfter = 3
    ReadyCycles = 1
    MaxCycles = 1
    MaxTime = 2
INVARIANT ReadyAfterCycles
CHECK_DEADLOCK FALSE
