SPECIFICATION Spec
CONSTANTS
    p1 = p1
    p2 = p2
    NoPid = 0
    Pids <- TwoPids
    MAXJOBS = 1
    UserSignals = {"INT", "TSTP"}
    JidBound = 2
SYMMETRY PidSymmetry
INVARIANT
    IInv
CHECK_DEADLOCK FALSE
