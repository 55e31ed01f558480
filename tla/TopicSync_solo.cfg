SPECIFICATION FairSpec
CONSTANTS
    i1 = i1
    i2 = i2
    Instances <- OneInstance
    MaxBrokers = 4
    MaxScalings = 3
    MaxCrashes = 0
    CanShrink = TRUE
    Faults = {"create", "partitions"}
INVARIANT PoolMatchesTopic
PROPERTY Convergence
CHECK_DEADLOCK FALSE
