SPECIFICATION FairSpec
CONSTANTS
    Instruments = {1, 2, 3, 4}
    Exchanges <- TwoExchanges
    ExchangeOrder <- TwoOrder
    ExchangeOf <- TwoListings
    Sessions <- TwoSessions
    Archive <- TwoArchives
    CliJobs = {"cmd_seed"}
    CliTargets <- CliOrder
    Attempts = 2
    MaxDay = 2
    MaxFaults = 1
INVARIANTS
    TypeOK
    ListingIsOneArchive
PROPERTIES
    KeepsListings
    RunsEnd
    EveryExchangeHasItsTurn
