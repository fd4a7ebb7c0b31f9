CONSTANTS
    Callers = {loop, gateway}
    Nobody = Nobody
    Causes = {"MaxDailyLoss", "Manual"}
    Window = 2
    MaxOrders = 0
    HasBroker = TRUE
    SyncErrors = TRUE
    PowerLosses = FALSE
    MaxClock = 0
    MaxRecorded = 1
SPECIFICATION FairSpec
INVARIANTS
    MemoryMatchesFile
    HaltSurvivesRestart
    NoMissedHalt
PROPERTIES
    CallsReturn
    IsDurableSwitch
