CONSTANTS
    r1 = r1
    Attempts = {a1, a2}
    Slots = {s1}
    MaxEpoch = 1
    TTL = 1
    Skew = 0
    None = None
    Legacy = {}
    Runs = {r1}
    RunOf <- OneRun
    Requests = {q1}
    MaxSession = 2
    MaxFailures = 0
    LostReplies = TRUE
SPECIFICATION FairSpec
PROPERTY ResultIsAcknowledged
