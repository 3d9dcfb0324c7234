SPECIFICATION Spec
CONSTANTS
    Version = {v0, v1}
    InitialVersion = v0
    NoVersion = NoVersion
    Pod = {p1, p2, p3}
    Replicas = 2
    MaxSurge = 1
    MaxReleases = 0
    MaxCrashes = 0
INVARIANT WithoutDowntime
