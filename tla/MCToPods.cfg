SPECIFICATION FairSpecToPods
CONSTANTS
    Version = {v0, v1, vf}
    InitialVersion = v0
    ForeignVersion = vf
    NoVersion = NoVersion
    Execution = {e1}
    MaxFaults = 1
    Pod = {p1, p2}
    Replicas = 1
    MaxSurge = 1
    MaxReleases = 1
    MaxCrashes = 1
INVARIANTS
    ClusterTypeOK
    PodsReloadCurrent
PROPERTY PodsReconnect
