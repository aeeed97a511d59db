CONSTANTS
    MaxBlocks = 2
    MaxNoise = 2
    SiteLookahead = 1
    Bindings = {"b1", "b2"}
    Points = {"pc"}
    Ons = {"true", "false"}
    MaxCaptures = 2
    MaxCrashes = 2
    MaxFaults = 1
    EventFiles = {"f1", "f2"}
    Kernels = {"k1", "k2", "k3"}
    Mangled = {"m1", "m2"}
    MaxKernels = 2
    MaxEvents = 3
    MaxDeaths = 1
SPECIFICATION Spec
CHECK_DEADLOCK FALSE
INVARIANTS
    SessionAccepts CleanIsEarned FindingsReachTheirKernel
    CompleteIsOneCapture CommittedIsFinal ManifestMatchesEvents ReadsBack
