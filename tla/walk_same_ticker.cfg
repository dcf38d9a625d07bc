SPECIFICATION Spec
CONSTANTS
    Rows = {1, 2, 3}
    Key <- SharedKeys
    Limit = 2
INVARIANTS
    StableRowsListed
