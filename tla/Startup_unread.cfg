SPECIFICATION Spec
CONSTANTS
    QueueSize = 3
    MaxMishaps = 2
    Configurations <- MCConfigurations
INVARIANT RefusedPolitely
CHECK_DEADLOCK FALSE
