SPECIFICATION Spec
CONSTANTS
    Instruments = {1}
    Exchanges <- OneExchange
    ExchangeOrder <- OneOrder
    ExchangeOf <- OneListing
    Sessions <- OneSessions
    Lookback = 2
    DaemonJobs = {"sync_iteration"}
    OnceRuns = {}
    Backfills = {"backfill"}
    Concurrency = 2
    BatchDays = 1
    EodParses = TRUE
    Windows <- WholePeriod
    Seeding = FALSE
    MaxDay = 2
    MaxFaults = 0
PROPERTIES
    FailedChunksAreReplanned
