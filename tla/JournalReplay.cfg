CONSTANTS
    Attempts = {a1}
    Slots = {s1, s2}
    MaxEpoch = 2
    TTL = 1
    Skew = 1
    None = None
    MaxTime = 4
    MaxSession = 2
    AuditRetention = 1
    ReplayRetention = 1
    ClockFaults = TRUE
SPECIFICATION Spec
INVARIANTS
    RetiredTokenRefused
    RevokedNeverAdmitted
PROPERTY UnackedIsKept
