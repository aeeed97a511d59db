CONSTANTS
    d1 = d1
    d2 = d2
    k1 = k1
    k2 = k2
    san = san
    st = st
    disc = disc
    NoVal = NoVal
    Root = Root
    Discovery = disc
    Kernels = {k1, k2}
    MaxKernels = 2
    Experiments = {san, st}
    Initial = {san, st}
    Stress = {st}
    Shared = {san}
    Payloads = {"signal", "incomplete"}
    MaxRounds = 0
    MaxExperiments = 3
    Drivers = {d1, d2}
    Identities = {"first", "second"}
    Inputs <- AllInputs
    MaxCrashes = 1
    MaxRevision = 3
SPECIFICATION FairSpec
INVARIANTS CheckpointsNeverConflict SummaryIsTrue DeliveredFileAgrees
PROPERTIES ResumeOnlyAdds RunEnds
