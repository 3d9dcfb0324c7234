SPECIFICATION Spec
CONSTANTS
    Key = {a, b}
    Worker = {w1, w2}
    Clearer = {w2}
    Cleaner = Cleaner
    MaxItems = 1
    Ttl = {0}
    MaxTime = 1
    MaxDrift = 0
INVARIANTS
    TypeOK
    CountExact
    BoundUnlessRaced
    OldestChosen
PROPERTIES
    CloseReturns
