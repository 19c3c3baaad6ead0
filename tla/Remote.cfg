SPECIFICATION FairSpec
CONSTANTS
    Jobs = {j1}
    Workers = {w1, w2}
    LeaseTicks = 2
    PollTicks = 1
    MaxRetries = 2
    MaxFaults = 1
    None = None
INVARIANTS TypeOK FreshOwner
PROPERTIES StopEnds JobsHandedOut
