SPECIFICATION SyncSpec
CONSTANTS
    Instruments = {1}
    Exchanges <- OneExchange
    ExchangeOrder <- OneOrder
    ExchangeOf <- OneListing
    Sessions <- OneSessions
    Lookback = 3
    DaemonJobs = {"sync_iteration", "catch_up_on_start"}
    OnceRuns = {"run_once"}
    Backfills = {}
    Concurrency = 2
    BatchDays = 1
    EodParses = TRUE
    Windows <- NoWindow
    Seeding = TRUE
    MaxDay = 3
    MaxFaults = 1
INVARIANTS
    WatermarkIsNewestBar
    NoSilentGap
    BusyRowsAreWorkedOn
    SyncInvariant
PROPERTIES
    KeepsLedger
