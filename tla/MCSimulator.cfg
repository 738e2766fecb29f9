CONSTANTS
    Pc <- MCPc
    Start = 0
    Words <- MCWords
    Zero = 0
    Kind <- MCKind
    Follow <- MCFollow
    Result <- MCResult
    StoreBufferDepth = 2
    AnyLateSkip = FALSE
    StrayBreaks = {}
    NoInst = 99
    NR_WP = 2
    Exprs = {"x", "rtc", "bad"}
    DeviceExprs = {"rtc"}
    Readings = {0}
    MaxSteps = 2
    PMem <- MCPMem
    Devs = {"serial", "rtc", "keyboard"}
    Low <- MCLow
    High <- MCHigh
    ScanAddrs = {4, 16, 24}
    MaxWords = 2
    WordBits = 4
    pmem_read <- MCRead
    Numbers = {1, 3}
    Levels = 2
SPECIFICATION MCSpec
INVARIANTS
    NoFalseAlarm
    VerdictIsEarned
    NoChangeMissed
    EvaluatesRightly
PROPERTIES
    PoolIsList
