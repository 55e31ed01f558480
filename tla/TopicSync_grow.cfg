SPECIFICATION FairSpec
CONSTANTS
    i1 = i1
    i2 = i2
    Instances <- TwoInstances
    MaxBrokers = 3
    MaxScalings = 2
    MaxCrashes = 1
    CanShrink = FALSE
    Faults = {"metadata", "create", "delete", "partitions", "timeout", "crash"}
INVARIANT PoolWithinTopic
PROPERTY GrowthKeepsTopic
PROPERTY SharesTopic
PROPERTY Convergence
CHECK_DEADLOCK FALSE
