SPECIFICATION Spec
CONSTANTS
    j1 = j1
    j2 = j2
    Jobs = {j1, j2}
    QueueOf <- OneEach
    Queues <- TwoQueues
    CfgWeight <- Weights
    Shared = {"low"}
    Concurrency = 2
    Slots = {s1, s2, s3}
    LeaseTicks = 2
    HeartbeatEvery = 1
    HookTicks = 0
    ShutdownTicks = 1
    MaxFaults = 1
    Idle = Idle
INVARIANTS LowerOnlyWhenHigherEmpty
