SPECIFICATION FairSpec
CONSTANTS
    l1 = l1
    m1 = m1
    b1 = b1
    NoJob = NoJob
    Jobs = {l1, m1, b1}
    Priority <- SmallPriority
    Timed <- SmallTimed
    Footprint <- SmallFootprint
    Size = 2
    MaxRuns = 2
    MaxFaults = 2
INVARIANTS ResolvedOnce Accounted NoIdleWorkerWhileLiveWaits
PROPERTIES Promised EveryJobSettles
CHECK_DEADLOCK FALSE
