SPECIFICATION Spec
CONSTANTS
    p1 = p1
    r1 = r1
    r2 = r2
    None = None
    Pipelines = {p1}
    Runs = {r1, r2}
    PipelineOf <- SinglePipeline
    MaxOrdinal = 2
    QueueMaxCount = 1
    OperatorOps = {"update"}
    Crashes = FALSE
    DispatchTimeouts = FALSE
    ProbeFailures = FALSE
    WorkerRestarts = FALSE

CHECK_DEADLOCK FALSE
INVARIANT OneActiveBatchAttempt
