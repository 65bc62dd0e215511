SPECIFICATION FairSpec
CONSTANTS
    p1 = p1
    p2 = p2
    NoPid = 0
    Pids <- TwoPids
    MAXJOBS = 1
    UserSignals = {}
    JidBound = 2
PROPERTY
    EveryZombieReaped
CHECK_DEADLOCK FALSE
