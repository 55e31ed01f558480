SPECIFICATION Spec
CONSTANTS
    MaxPartitions = 3
    MaxWorkers = 1
    Threshold = 3
    MaxCycles = 1
    MaxMishaps = 1
    Faults = {"add"}
INVARIANT NothingLeftOpen
CHECK_DEADLOCK FALSE
