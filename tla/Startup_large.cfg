SPECIFICATION Spec
CONSTANTS
    QueueSize = 3
    MaxMishaps = 0
    Configurations <- MCConfigurations
PROPERTY LargeTopicsToo
CHECK_DEADLOCK FALSE
