SPECIFICATION Spec
CONSTANTS
    QueueSize = 3
    MaxMishaps = 2
    Configurations <- MCConfigurations
INVARIANT NothingDropped
CHECK_DEADLOCK FALSE
