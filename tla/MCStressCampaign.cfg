CONSTANTS
    Planned = 3
    Callers = {TRUE, FALSE}
    BaselineRuns = 2
    HangIsBug = TRUE
    AnyCodeIsClean = FALSE
    Targeted = TRUE
    MaxCrashes = 2
    MaxFaults = 2
SPECIFICATION FairSpec
INVARIANTS
    ProgressIsExplained
    VerdictIsEarned
    StressAccepted
PROPERTY
    CampaignEnds
