SPECIFICATION Spec
CONSTANTS
    MaxPartitions = 3
    MaxWorkers = 1
    Threshold = 2
    MaxCycles = 2
    MaxMishaps = 1
    Faults = {}
INVARIANT LabelsFollowThreshold
CHECK_DEADLOCK FALSE
