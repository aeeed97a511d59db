CONSTANTS
    p1 = p1
    p2 = p2
    Sessions = {"s1", "s2"}
    Procs = {p1, p2}
    ActiveTtl = 1
    TerminalTtl = 2
    Batch = 1
    MaxRev = 1
    MaxTime = 1
    MaxFaults = 1
SPECIFICATION Spec
SYMMETRY Symmetry
INVARIANTS
    AckedSurvives
PROPERTIES
    PruneOnlyExpired
    ImplementsRegister
