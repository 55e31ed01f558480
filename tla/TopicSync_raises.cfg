SPECIFICATION Spec
CONSTANTS
    i1 = i1
    i2 = i2
    Instances <- OneInstance
    MaxBrokers = 2
    MaxScalings = 1
    MaxCrashes = 0
    CanShrink = TRUE
    Faults = {"metadata"}
PROPERTY LoopSurvivesSync
CHECK_DEADLOCK FALSE
