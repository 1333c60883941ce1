SPECIFICATION Spec
CONSTANTS
    s1 = s1
    s2 = s2
    Sinks = {s1, s2}
    Conditional = {s2}
    NUnits = 5
    Configs <- AllConfigs
    MaxAttempts = 2
    MaxFaults = 2
INVARIANTS
    RemovedIsAccounted
    SuccessIsDelivered
    EveryUnitIsFinalized
