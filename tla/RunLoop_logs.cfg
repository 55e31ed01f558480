SPECIFICATION Spec
CONSTANTS
    MaxPartitions = 1
    MaxWorkers = 1
    Threshold = 1
    MaxCycles = 2
    MaxMishaps = 1
    Faults = {"log"}
INVARIANT LogsDoNotCount
CHECK_DEADLOCK FALSE
