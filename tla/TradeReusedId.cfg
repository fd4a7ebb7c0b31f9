CONSTANTS
    Universe <- OneSymbol
    Limits <- MCLimits
    Band <- MCBand
    Equities <- MCEquities
    Realizeds <- NoLosses
    Ask = 20
    Stop = 19
    MarketHours = {TRUE}
    MaxSeq = 2
    MaxRestarts = 1
SPECIFICATION FairSpec
PROPERTIES
    PlacedMeansArrived
