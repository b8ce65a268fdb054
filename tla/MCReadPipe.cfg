SPECIFICATION Spec
CONSTANTS
    FileLen = 7
    Sector = 2
    Cluster = 4
    Cap = 4
    Low = 2
    High = 4
    Chunk = 3
    SyncChunk = 2
    RaCap = 2
    CkptMax = 2
    CkptStride = 4
    ErrRetries = 2
    MaxFaults = 2
    MaxSeeks = 1
    Reads <- MCReads
    Targets <- MCTargets
INVARIANTS
    WindowSound
PROPERTIES
    ImplementsSource
    BurstEnds
