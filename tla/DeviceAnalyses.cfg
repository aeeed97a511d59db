CONSTANTS
    None = None
    MaxLaunches = 2
    MaxRecords = 2
    MaxUnloads = 1
    DiskMayFail = TRUE
    Warps = {"w1"}
    MaxKernels = 2
    MaxGraphNodes = 2
    MaxClock = 4
    Throttle = 1
    HistoryLen = 2
    LoopRepeatThresh = 1
    KernelTimeout = 3
    NoDataTimeout = 2
    Procs = {"p1", "p2"}
    DumpKernels = {"k1", "k2"}
    MaxMishaps = 2
SPECIFICATION DeviceSpec
CHECK_DEADLOCK FALSE
INVARIANTS
    FootersAreTrue TablesOutliveRecords WatchdogsAreTrue DumpIsTheRun
PROPERTIES EveryCaptureFinishes
