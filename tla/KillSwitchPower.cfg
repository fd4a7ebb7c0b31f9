CONSTANTS
    Callers = {loop, gateway}
    Nobody = Nobody
    Causes = {"Manual"}
    Window = 2
    MaxOrders = 1
    HasBroker = FALSE
    SyncErrors = FALSE
    PowerLosses = TRUE
    MaxClock = 2
    MaxRecorded = 3
SPECIFICATION Spec
INVARIANTS
    RunawayBound
    CommittedHaltSurvivesPowerLoss
