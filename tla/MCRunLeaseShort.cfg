CONSTANTS
    c1 = c1
    c2 = c2
    None = None
    Controllers = {c1, c2}
    LeaseMs = 3
    HeartbeatFloor = 10
    Deadline = 20
    MaxAttempts = 3
    MaxClock = 22
    MaxUpdates = 2
    StoreMayFail = FALSE
    Prompt = TRUE
SPECIFICATION Spec
SYMMETRY Symmetry
CHECK_DEADLOCK FALSE
INVARIANTS LiveOwnerKeepsLease
