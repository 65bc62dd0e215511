SPECIFICATION MallocSpec
CONSTANTS
    MAX_HEAP = 13
    CHUNKSIZE = 4
    PADDING = 1
    Sizes = {1, 9, 33}
INVARIANTS
    TypeOK
    Tiled
    Coalesced
    AllocatedIsLive
    CurrentBlockIsBlock
    FindFitFindsAny
PROPERTY
    AllocatorSpec
CHECK_DEADLOCK TRUE
