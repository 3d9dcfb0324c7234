SPECIFICATION Spec
CONSTANTS
    Key = {a, b}
    Worker = {w1, w2}
    Clearer = {}
    Cleaner = Cleaner
    MaxItems = 1
    Ttl = {0}
    MaxTime = 1
    MaxDrift = 1
INVARIANTS
    MaxItemsAllowed
