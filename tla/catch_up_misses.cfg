SPECIFICATION SyncSpec
CONSTANTS
    Instruments = {1, 2}
    Exchanges <- OneExchange
    ExchangeOrder <- OneOrder
    ExchangeOf <- OneListing
    Sessions <- OneSessions
    Lookback = 2
    DaemonJobs = {"sync_iteration", "catch_up_periodic"}
    OnceRuns = {}
    Backfills = {}
    Concurrency = 1
    BatchDays = 1
    EodParses = TRUE
    Windows <- NoWindow
    Seeding = FALSE
    MaxDay = 2
    MaxFaults = 1
PROPERTIES
    CatchUpSeesGaps
