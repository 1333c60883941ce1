SPECIFICATION FairSpec
CONSTANTS
    Partitions = {1}
    LogEnd = 3
    Starts <- AllStarts
    MaxPoll = 2
    MaxReconnects = 2
    MaxFaults = 2
INVARIANTS
    CommittedIsDecided
PROPERTIES
    CommitNeverRegresses
    LogIsCommitted
CHECK_DEADLOCK FALSE
