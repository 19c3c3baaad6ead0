SPECIFICATION FairSpec
CONSTANTS
    Size <- AllKinds
    MaxIds = 3
    Slots = {s1, s2}
    MaxDisruptions = 1
INVARIANTS TypeOK CompletedMeansAllAcked ChainInOrder CallbackAfterHeaders
PROPERTIES ChainMonotone ChainSettles CallbackFires
CHECK_DEADLOCK FALSE
