SPECIFICATION FairSpec
CONSTANTS
    Downloads = {d1, d2, d3}
    Metas = {m1}
    Concurrency = 2
    MaxAttempts = 3
INVARIANTS
    TypeOK
    AttemptsBounded
    AloneEarnsFailure
PROPERTIES
    CallsEnd
CHECK_DEADLOCK FALSE
