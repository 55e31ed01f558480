SPECIFICATION Spec
CONSTANTS
    p0 = p0
    p1 = p1
    Partitions <- TwoPartitions
    CacheTTL = 2
    DegradedAfter = 2
    UnhealthyAfter = 4
    ReadyCycles = 2
    MaxCycles = 2
    MaxTime = 6
SYMMETRY Symmetry
INVARIANT TypeOK
INVARIANT HealthyIsRecent
INVARIANT AlarmIsRecent
INVARIANT ReadyDuringLast
CHECK_DEADLOCK FALSE
