SPECIFICATION Spec
CONSTANTS
    p1 = p1
    p2 = p2
    p3 = p3
    p4 = p4
    NoPid = 0
    Pids <- FourPids
    MAXJOBS = 4
    JidBound = 6
INVARIANT
    JidsUnique
CHECK_DEADLOCK TRUE
