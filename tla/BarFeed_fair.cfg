SPECIFICATION FairSpec
CONSTANTS
    LastBar = 2
    MaxTrades = 2
    MaxTotal = 4
    MaxCuts = 2
    MaxFaults = 1
PROPERTY ClosesAnnounced
PROPERTY EventuallyWhole
CHECK_DEADLOCK FALSE
