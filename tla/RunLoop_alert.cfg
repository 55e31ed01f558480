SPECIFICATION Spec
CONSTANTS
    MaxPartitions = 2
    MaxWorkers = 1
    Threshold = 1
    MaxCycles = 3
    MaxMishaps = 1
    Faults = {}
INVARIANT AlertSeesStreak
CHECK_DEADLOCK FALSE
