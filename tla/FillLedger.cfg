CONSTANTS
    Symbols = {"S"}
    Price <- FourPrices
    Executions <- FourExecutions
    ActivityId <- FourIds
    PageSize = 2
    MaxPages = 2
    MaxCrashes = 1
SPECIFICATION FairSpec
INVARIANTS
    MemoryMatchesStore
    BooksBalance
    OnlyCutFillsAreSkipped
    LotsMatchVenue
PROPERTIES
    EveryFillCounted
