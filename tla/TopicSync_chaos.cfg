SPECIFICATION FairSpec
CONSTANTS
    i1 = i1
    i2 = i2
    Instances <- TwoInstances
    MaxBrokers = 2
    MaxScalings = 1
    MaxCrashes = 1
    CanShrink = TRUE
    Faults = {"metadata", "create", "delete", "partitions", "timeout", "crash"}
INVARIANT TypeOK
PROPERTY SyncTerminates
PROPERTY RestartHeals
PROPERTY ChangesWarranted
CHECK_DEADLOCK FALSE
