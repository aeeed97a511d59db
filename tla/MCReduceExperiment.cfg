CONSTANTS
    N = 4
    Strategies = {"linear", "bisect"}
    Targets <- MCTargets
    ConfidenceRuns = 3
    HangIsBug = TRUE
    Pinned = TRUE
SPECIFICATION ReduceSpec
INVARIANTS
    ResultTriggers
    BisectOneMinimal
    LinearMinimal
    ReductionVerdict
PROPERTY
    SearchAdvances
