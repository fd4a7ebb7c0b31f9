CONSTANTS
    Orders = {buy, sell}
    Sells = {sell}
    OrderQty = 2
    TornWrites = TRUE
    SyncErrors = TRUE
    MaxLines = 4
    MaxCrashes = 1
SPECIFICATION Spec
INVARIANTS
    SentIsDurable
    RecordedIsKept
    ReplayFailsOnlyWhen
PROPERTIES
    GapHasAReason
CHECK_DEADLOCK FALSE
