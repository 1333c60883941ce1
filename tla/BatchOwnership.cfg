SPECIFICATION Spec
CONSTANTS
    p1 = p1
    r1 = r1
    r2 = r2
    None = None
    Pipelines = {p1}
    Runs = {r1, r2}
    PipelineOf <- SinglePipeline
    MaxOrdinal = 2
    QueueMaxCount = 1
    OperatorOps = {"start", "stop", "restart"}
    Crashes = TRUE
    DispatchTimeouts = FALSE
    ProbeFailures = FALSE
    WorkerRestarts = TRUE
SYMMETRY RunSymmetry
CHECK_DEADLOCK FALSE
INVARIANTS
    TypeOK
    OneActiveBatchAttempt
    ExecutedAtMostOnce
    AckedIsRecorded
    SuccessIsReported
