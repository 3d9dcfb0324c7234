SPECIFICATION Spec
CONSTANTS
    Version = {v0, v1, v2, v3, vf}
    InitialVersion = v0
    ForeignVersion = vf
    NoVersion = NoVersion
    Execution = {e1, e2}
    MaxFaults = 1
SYMMETRY Symmetry
INVARIANTS
    TypeOK
    Recoverable
    AltersOwnAccount
