SPECIFICATION FairSpec
CONSTANTS
    Jobs = {j1}
    Workers = {w1, w2}
    Keys = {k1}
    Priorities = {1}
    Retries = {2}
    Delays = {0, 1}
    LeaseTicks = 1
    BatchLimit = 1
    MaxDisruptions = 3
    NoJob = NoJob
    Idle = Idle
    Blank = Blank
    NoKey = NoKey
INVARIANTS TypeOK LeaseCoversActive NoLostJob SoleOwner RetryBudget
PROPERTIES ImplementsLifecycle EventuallyTaken OrphanRecovered
