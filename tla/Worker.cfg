CONSTANTS
    r1 = r1
    Attempts = {a1, a2, l1}
    Slots = {s1}
    MaxEpoch = 1
    TTL = 1
    Skew = 0
    None = None
    Legacy = {l1}
    Runs = {r1}
    RunOf <- OneRun
    Requests = {q1, q2}
    MaxSession = 2
    MaxFailures = 2
    LostReplies = TRUE
SYMMETRY Symmetry
CONSTRAINT Explored
SPECIFICATION Spec
INVARIANTS
    IndexFindsRun
    ResultsAgree
    ActiveHasOwner
PROPERTIES
    StartedAtMostOnce
    KeepsAttemptLife
