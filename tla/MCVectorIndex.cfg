SPECIFICATION IndexSpec
CONSTANTS
    Point = {1, 2, 3, 4}
    Sought = {1, 2, 3, 4, 5}
    Components <- Plane
    Scale = 67600
    Metric = {"Cosine"}
    M = 2
    MMax0 = 2
    EfConstruction = 2
    TopLevel = 0
    MaxNodes = 4
    RecordId = {a, b}
    Metadata <- Nulls
    Targets <- Asked
    Dims = {d1, d2}
    OverfetchPerK = 1
    OverfetchBase = 0
    BruteForceThreshold = 1
    MaxFilteredVisits = 10
    Queries = {1, 2}
SYMMETRY Symmetry
INVARIANTS
    OneLiveNode
    TombstonesDontStarve
    FastPathMatchesGraph
    RangesPartition
