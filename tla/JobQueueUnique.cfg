SPECIFICATION Spec
CONSTANTS
    Jobs = {j1, j2}
    Workers = {w1, w2}
    Keys = {k1}
    Priorities = {1}
    Retries <- NoRetry
    Delays = {0}
    LeaseTicks = 1
    BatchLimit = 1
    MaxDisruptions = 2
    NoJob = NoJob
    Idle = Idle
    Blank = Blank
    NoKey = NoKey
SYMMETRY Symmetry
INVARIANTS KeyOwnerLive RetryBudget
PROPERTIES KeyFreedByOwner
