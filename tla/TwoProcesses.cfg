CONSTANTS
    MaxCommands = 3
    MaxOrders = 2
SPECIFICATION Spec
PROPERTIES
    HaltStopsEverything
CHECK_DEADLOCK FALSE
