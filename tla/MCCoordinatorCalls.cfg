CONSTANTS
    w1 = w1
    w2 = w2
    e1 = e1
    e2 = e2
    e3 = e3
    Absent = Absent
    k1 = k1
    k2 = k2
    disc = disc
    Root = Root
    Discovery = disc
    Kernels = {k1, k2}
    MaxKernels = 2
    TargetScoped = {e1}
    MaxLapses = 1
    Workers = {w1, w2}
    Experiments = {e1, e2, e3}
    Initial = {e1, e2}
    Stress = {e2}
    Shared = {}
    Payloads = {"signal", "clean", "incomplete", "unfit"}
    MaxRounds = 1
    MaxExperiments = 3
    MaxCasAttempts = 2
    MaxFaults = 0
SPECIFICATION CallsSpec
SYMMETRY Symmetry
INVARIANTS
    ReasonedOnCurrentEvidence DispatchKeyDeterminesWork BaselineOnlyDelivered
    FanoutIsWhole
PROPERTIES ImplementsLifecycle
