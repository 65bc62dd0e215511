SPECIFICATION Spec
CONSTANTS
    p1 = p1
    p2 = p2
    NoPid = 0
    Pids <- TwoPids
    MAXJOBS = 2
    UserSignals = {"INT", "TSTP"}
    JidBound = 2
SYMMETRY PidSymmetry
INVARIANTS
    TypeOK
    NoStaleEntry
    EveryChildListed
    ForegroundAwaited
    ShownStoppedIsStopped
    ForwardedToForegroundOnly
CHECK_DEADLOCK FALSE
