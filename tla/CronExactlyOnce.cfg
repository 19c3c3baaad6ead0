SPECIFICATION Spec
CONSTANTS
    Instances = {i1, i2}
    N = 1
    LastReading = 2
    Time <- Readings
    Windows <- RunTimes
    SchedNext <- EveryOrEven
    MaxResends = 1
INVARIANTS ClaimedIsEnqueued
