SPECIFICATION FairSpec
CONSTANTS
    MaxPartitions = 3
    MaxWorkers = 2
    Threshold = 3
    MaxCycles = 3
    MaxMishaps = 1
    Faults = {"sync", "add", "log", "reentry"}
INVARIANT TypeOK
INVARIANT PoolAgrees
INVARIANT NoUseAfterClose
INVARIANT StreakIsTrue
INVARIANT CountedOnce
INVARIANT AllClosedAtStop
PROPERTY ShutdownStops
PROPERTY KeepsCycle
CHECK_DEADLOCK FALSE
