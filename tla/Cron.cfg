SPECIFICATION Spec
CONSTANTS
    Instances = {i1, i2}
    N = 2
    LastReading = 2
    Time <- Readings
    Windows <- RunTimes
    SchedNext <- EveryOrEven
    MaxResends = 1
SYMMETRY Symmetry
INVARIANTS TypeOK AtMostOncePerWindow NoCatchUpBurst
PROPERTIES NextRunAdvances
