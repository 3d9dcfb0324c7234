SPECIFICATION Spec
CONSTANTS
    Token = {t1, t2, t3}
    Browser = {b1, b2}
    Replica = {k1}
    Request = {r1}
    NoToken = NoToken
    MaxFaults = 2
SYMMETRY Symmetry
INVARIANTS
    TypeOK
    NoTokenLost
    RemovedStaysRemoved
    AcceptedWasStored
