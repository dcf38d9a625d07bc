SPECIFICATION FairSyncSpec
CONSTANTS
    Instruments = {1, 2, 3}
    Exchanges <- TwoExchanges
    ExchangeOrder <- TwoOrder
    ExchangeOf <- TwoListings
    Sessions <- TwoSessions
    Lookback = 3
    DaemonJobs = {"sync_iteration"}
    OnceRuns = {}
    Backfills = {}
    Concurrency = 1
    BatchDays = 1
    EodParses = TRUE
    Windows <- NoWindow
    Seeding = FALSE
    MaxDay = 2
    MaxFaults = 1
INVARIANTS
    NoHalfFormedBar
PROPERTIES
    GapsHeal
    RunsEnd
