SPECIFICATION FairSpec
CONSTANTS
    Version = {v0, v1, v2, v3, vf}
    InitialVersion = v0
    ForeignVersion = vf
    NoVersion = NoVersion
    Execution = {e1}
    MaxFaults = 2
INVARIANT CurrentLogsIn
PROPERTIES
    ImplementsContract
    RotationCompletes
