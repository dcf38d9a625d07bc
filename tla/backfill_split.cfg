SPECIFICATION Spec
CONSTANTS
    Dates = {0, 1, 2, 3, 4, 5, 6, 7}
    BatchSizes = {1, 2, 3, 9}
INVARIANTS
    ChunksTileWindow
    LoopIsSplitBackfill
CHECK_DEADLOCK FALSE
