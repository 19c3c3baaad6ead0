SPECIFICATION Spec
CONSTANTS
    Size <- Chord
    MaxIds = 3
    Slots = {s1, s2}
    MaxDisruptions = 0
INVARIANTS CallbackOnlyAfterHeaders
CHECK_DEADLOCK FALSE
