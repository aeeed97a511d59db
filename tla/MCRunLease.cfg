CONSTANTS
    c1 = c1
    c2 = c2
    None = None
    Controllers = {c1, c2}
    LeaseMs = 2
    HeartbeatFloor = 1
    Deadline = 3
    MaxAttempts = 2
    MaxClock = 4
    MaxUpdates = 1
    StoreMayFail = TRUE
    Prompt = FALSE
SPECIFICATION Spec
SYMMETRY Symmetry
CHECK_DEADLOCK FALSE
INVARIANTS LeaseExclusive NoLostUpdate ReleaseIsFinal
