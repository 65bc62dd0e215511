SPECIFICATION FairSpec
CONSTANTS
    p1 = p1
    p2 = p2
    NoPid = 0
    Pids <- TwoPids
    MAXJOBS = 2
    UserSignals = {}
    JidBound = 2
PROPERTIES
    EveryZombieReaped
    PromptComesBack
    JobControlSpec
CHECK_DEADLOCK FALSE
