SPECIFICATION Spec
CONSTANTS
    Instruments = {1}
    Exchanges <- OneExchange
    ExchangeOrder <- OneOrder
    ExchangeOf <- OneListing
    Sessions <- OneSessions
    Lookback = 3
    DaemonJobs = {"catch_up_periodic"}
    OnceRuns = {}
    Backfills = {"backfill"}
    Concurrency = 2
    BatchDays = 3
    EodParses = FALSE
    Windows <- AnyWindow
    Seeding = TRUE
    MaxDay = 3
    MaxFaults = 1
INVARIANTS
    TypeOK
    WatermarkIsNewestBar
PROPERTIES
    NeverMovesBack
