CONSTANTS
    Universe <- OneSymbol
    Limits <- MCLimits
    Band <- MCBand
    Equities <- WithRuin
    Realizeds <- MCRealizeds
    Ask = 20
    Stop = 19
    MarketHours = {TRUE, FALSE}
    MaxSeq = 2
    MaxRestarts = 1
SPECIFICATION FairSpec
INVARIANTS
    AtMostOneLeak
PROPERTIES
    GatedPlacement
    StandingBreachHalts
    IterationEnds
