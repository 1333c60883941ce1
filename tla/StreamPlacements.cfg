SPECIFICATION Spec
CONSTANTS
    Workers = {w1, w2}
    None = None
    Configs <- AllConfigs
INVARIANTS DurablePlacement SlotRunsOnce
PROPERTIES BootSeesLive Heals
CHECK_DEADLOCK FALSE
