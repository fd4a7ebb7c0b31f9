CONSTANTS
    RiskKnobs = {0, 1, 3, 7, 8, 17, 18, 20, 21, 30}
    LossKnobs = {0, 15, 30}
    Equities = {60000, 120000}
    Asks = {100, 200}
    BookLimits <- MCBookLimits
    Symbols = {"A", "B", "C"}
    Quantities = {1, 2, 3}
    BookPrices = {19, 20, 21}
    BookEquities = {0, 50, 100}
    Realizeds <- MCRealizeds
    MaxHeld = 2
    Digits = 4
    SizedEquities = {1000, 2000}
    SizedAsks = {10, 13, 17, 19, 23, 37, 41, 53, 65, 78, 99}
    SizedRisks = {5, 10, 20}
    StopPcts = {2, 3, 5}
    Whole = 2
    Rate = 1
    Burst = 2
    MaxTime = 4
    MaxGrants = 5
    Bases = {1, 3}
    Caps = {3, 4, 7}
    MaxAttempt = 5
    Hours = {0, 1, 5, 6}
    StartHour = 1
    EndHour = 6
    MaxHalts = 2
    Prices = {10, 20}
    MaxBars = 5
    FastPeriod = 1
    SlowPeriod = 2
    Channel = 1
    ATRPeriod = 1
    StartingCash = 100
    Qty = 1
    Commission = 1
    SlippageBps = 1000
SPECIFICATION DeskSpec
INVARIANTS
    VerdictIsExact
    LosingReopensNothing
    EntryIsTradableExactlyWhen
    RefusedOnlyByRounding
    PacingIsBounded
    FirstHaltIsAnnounced
    ViewsAgree
    LedgerAddsUp
CHECK_DEADLOCK FALSE
