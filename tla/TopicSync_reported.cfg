SPECIFICATION Spec
CONSTANTS
    i1 = i1
    i2 = i2
    Instances <- OneInstance
    MaxBrokers = 2
    MaxScalings = 0
    MaxCrashes = 0
    CanShrink = TRUE
    Faults = {"delete"}
PROPERTY ReturnReflectsCluster
CHECK_DEADLOCK FALSE
