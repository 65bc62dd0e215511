SPECIFICATION SpecBoth
CONSTANTS
    s = 1
    E = 2
    b = 1
    Addrs = {0, 2, 4, 6, 8, 9, 10}
    MaxAccesses = 7
INVARIANTS
    TypeOK
    TagOncePerSet
    EvictionsAccountForMisses
    OtherSetsAsReference
    AtMostOneOff
CHECK_DEADLOCK FALSE
