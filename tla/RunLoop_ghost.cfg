SPECIFICATION Spec
CONSTANTS
    MaxPartitions = 2
    MaxWorkers = 1
    Threshold = 2
    MaxCycles = 2
    MaxMishaps = 1
    Faults = {}
INVARIANT AlertIsCurrent
CHECK_DEADLOCK FALSE
