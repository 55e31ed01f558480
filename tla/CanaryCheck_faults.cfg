SPECIFICATION Spec
CONSTANTS
    Partitions <- OnePartition
    Workers = 1
    BatchSize = 2
    MaxCycles = 3
    MaxForeign = 1
    MaxCopies = 2
    Faults = {"seek", "local", "retry", "refused", "slow", "consume", "poison", "log"}
INVARIANT TypeOK
INVARIANT OwnMessageAhead
PROPERTY KeepsPromise
CHECK_DEADLOCK FALSE
