SPECIFICATION Spec
CONSTANTS
    QueueSize = 3
    MaxMishaps = 2
    Configurations <- MCConfigurations
INVARIANTS TypeOK RecordsSurvive AcceptedStarts
PROPERTIES ExitKeepsRecords ComesUp StopsForGood
CHECK_DEADLOCK FALSE
