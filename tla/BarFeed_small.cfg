SPECIFICATION Spec
CONSTANTS
    LastBar = 3
    MaxTrades = 2
    MaxTotal = 4
    MaxCuts = 2
    MaxFaults = 1
PROPERTY WholeHistory
PROPERTY NeverRegresses
PROPERTY NonePassedOver
CHECK_DEADLOCK FALSE
