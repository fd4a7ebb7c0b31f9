CONSTANTS
    Passphrases = {"p", "q"}
    MaxAttempts = 2
    MaxSetups = 2
SPECIFICATION Spec
INVARIANTS
    NoOrphanConfig
CHECK_DEADLOCK FALSE
