SPECIFICATION FairSpec
CONSTANTS
    Qty = 2
    MaxFaults = 1
    MaxShort = 1
    MaxCrashes = 1
INVARIANT OncePerCommand
INVARIANT NeverOverclosed
INVARIANT LedgerTruthful
INVARIANT NothingForgotten
PROPERTY EntryOnlyWhileOpen
PROPERTY ClosedGetsFlat
