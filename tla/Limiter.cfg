SPECIFICATION FairSpec
CONSTANTS
    Jobs = {j1, j2, j3, j4}
    Servers = {s1, s2}
    Max = 2
    Interval = 5
    Skew = 2
    MinDelay = 2
    MaxFaults = 1
    Nobody = Nobody
INVARIANTS TypeOK RateBound RetryExact
PROPERTIES EventuallyAdmitted
