SPECIFICATION SpecBoth
CONSTANTS
    s = 1
    E = 2
    b = 1
    Addrs = {0, 2, 4, 6, 8, 9, 10}
    MaxAccesses = 7
INVARIANT
    CountsAsReference
CHECK_DEADLOCK FALSE
