SPECIFICATION Spec
CONSTANTS
    p1 = p1
    r1 = r1
    r2 = r2
    None = None
    Pipelines = {p1}
    Runs = {r1, r2}
    PipelineOf <- SinglePipeline
    MaxOrdinal = 1
    QueueMaxCount = 1
    OperatorOps = {"update", "delete"}
    Crashes = TRUE
    DispatchTimeouts = TRUE
    ProbeFailures = TRUE
    WorkerRestarts = TRUE
SYMMETRY RunSymmetry
CHECK_DEADLOCK FALSE
INVARIANTS
    LedgerOwnership
    SuccessIsReal
PROPERTY AuditIsImmutable
