SPECIFICATION Spec
CONSTANTS
    Downloads = {d1, d2}
    Metas = {}
    Concurrency = 2
    MaxAttempts = 3
INVARIANTS
    EveryFailureIsEarned
CHECK_DEADLOCK FALSE
