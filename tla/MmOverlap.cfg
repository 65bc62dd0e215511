SPECIFICATION Spec
CONSTANTS
    MAX_HEAP = 12
    CHUNKSIZE = 4
    PADDING = 1
    Sizes = {1, 33}
INVARIANT
    PayloadsDisjoint
CHECK_DEADLOCK FALSE
