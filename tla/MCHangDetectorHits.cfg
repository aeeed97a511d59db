CONSTANTS
    None = None
    w1 = w1
    w2 = w2
    Warps = {w1}
    MaxKernels = 2
    MaxGraphNodes = 0
    MaxClock = 8
    Throttle = 1
    HistoryLen = 2
    LoopRepeatThresh = 1
    KernelTimeout = 0
    NoDataTimeout = 0
SPECIFICATION Spec
CHECK_DEADLOCK FALSE
INVARIANTS HangIsSustained
