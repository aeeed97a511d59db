CONSTANTS
    c1 = c1
    c2 = c2
    None = None
    Controllers = {c1}
    LeaseMs = 6
    HeartbeatFloor = 1
    Deadline = 9
    MaxAttempts = 3
    MaxClock = 11
    MaxUpdates = 2
    StoreMayFail = TRUE
    Prompt = TRUE
SPECIFICATION FairSpec
CHECK_DEADLOCK FALSE
INVARIANTS LiveOwnerKeepsLease
PROPERTIES NoOrphanHeartbeat
