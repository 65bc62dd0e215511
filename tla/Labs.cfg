\* Programs end: deadlock is not checked.
SPECIFICATION Spec
CHECK_DEADLOCK FALSE
CONSTANTS
    MAX_HEAP = 13
    CHUNKSIZE = 4
    PADDING = 1
    TraceLists <- MCTraceLists
    Repeats = 2
    kbest = 2
    maxsamples = 3
    EpsNum = 1
    EpsDen = 4
    WORD = 4
    NEVENT = 2
    THRESHOLD = 2
    RECORDTHRESH = 2
    Starts = {3, 14}
    Durations = {1, 5, 6}
    MaxTicks = 1
    WIDTH = 8
    EXP = 4
    TEST_RANGE = 4
    MAX_TEST_VALS = 52
    timeout_limit = 2
    test_sets <- MCtest_sets
    Passes <- MCPasses
    arr = 3
    process = 3
    FitSizes = {1, 2, 3}
    Sizes <- MCTransSizes
    MAXN = 256
    LUMP = 32
    MAXLINE = 12
    MAXARGS = 4
    Scripts <- MCScripts
INVARIANTS
    RangesAreLive
    ReplayAgrees
    UtilizationBounded
    KBest
    MeasuredExactly
    StopsWhenConverged
    OnlySlowOnesFail
    OnlyStaleTimersMislead
    GenValsFit
    SolutionsRight
    TransposesAndSpills
    CountsAsReported
    PlacedAsPromised
    TypedIsExecuted
PROPERTIES
    NoFalseAlarm
    Returns
    RunEnds
