SPECIFICATION FairSpec
CONSTANTS
    i1 = i1
    i2 = i2
    Instances <- TwoInstances
    MaxBrokers = 2
    MaxScalings = 0
    MaxCrashes = 0
    CanShrink = TRUE
    Faults = {}
PROPERTY TopicComesBack
CHECK_DEADLOCK FALSE
