SPECIFICATION FairSpec
CONSTANTS
    Calls <- ManyCalls
    Served = {"default", "asked", "own"}
    N = 3
    ChunkSize = 2
    Unset = Unset
INVARIANTS TypeOK AcceptedIsStored PartialIsPrefix OnceAndInTime
PROPERTIES AcceptedRuns
CHECK_DEADLOCK FALSE
