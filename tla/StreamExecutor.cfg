SPECIFICATION Spec
CONSTANTS
    Keys = {1, 2}
    Length = 2
    Configs <- AllConfigs
    Workers = {w1, w2}
    NoMatch <- Unrouted
    MaxBatch = 2
INVARIANTS
    AckedIsSettled
    CheckpointIsSettled
    SuccessIsComplete
PROPERTIES
    StopEnds
    EveryRecordIsAcked
CHECK_DEADLOCK FALSE
