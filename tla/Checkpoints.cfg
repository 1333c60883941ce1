SPECIFICATION FairSpec
CONSTANTS
    NUnits = 3
    Configs <- AllConfigs
    MaxAttempts = 2
INVARIANTS
    StrictAckIsCommitted
    AckedIsAbsorbed
PROPERTIES
    StatefulUnitsAreAcked
