SPECIFICATION Spec
CONSTANTS
    Size <- Group
    MaxIds = 2
    Slots = {s1, s2}
    MaxDisruptions = 0
INVARIANTS GroupCompletes
CHECK_DEADLOCK FALSE
