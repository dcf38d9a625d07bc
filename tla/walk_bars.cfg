SPECIFICATION FairSpec
CONSTANTS
    Rows = {1, 2, 3, 4, 5}
    Key <- DistinctKeys
    Limit = 2
INVARIANTS
    PagesAscend
    StableRowsListed
PROPERTIES
    WalkEnds
