CONSTANTS
    Passphrases = {"p", "q"}
    MaxAttempts = 2
    MaxSetups = 2
    Topics = {"quote", "trade"}
    Handlers = {"h1", "h2"}
    MaxEvents = 3
    MaxTime = 2
    Levels = {"p1", "p2"}
    MaxU = 3
    MaxBuffer = 2
    Components = {"feed", "channel"}
    MaxRestarts = 2
    BaseBackoff = 1
    Factor = 2
    MaxBackoff = 3
    MaxBack = 4
    Procs = {"u1", "u2"}
    MaxTag = 2
    MaxBuilds = 3
    MaxRuns = 2
    Backends = 2
    MaxTurns = 3
    MaxAsks = 3
    MaxAtOnce = 2
    Callers = {"g1", "g2"}
    Symbols = {"A", "B"}
    Setups = {"A", ""}
    MaxRows = 2
SPECIFICATION ServicesSpec
INVARIANTS
    HandledInOrder
    BookFollowsVenue
    SetupIsWhole
    SetupsAreNotMixed
    BinarySurvives
    ChatStaysThreaded
    VaultFollowsStore
PROPERTIES
    SupervisionSettles
CHECK_DEADLOCK FALSE
