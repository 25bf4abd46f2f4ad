SPECIFICATION IndexedSpec
CONSTANTS
    RecordId = {1, 2}
    FlushThreshold = 2
    NameBase = 10
    NameLimit = 1000000
    MaxBatch = 2
    MaxSeq = 3
    MaxSst = 3
    MaxCrashes = 1
    MaxFaults = 1
    Dims = {d1, d2}
    Metric = {L2, Cosine}
    L2 = L2
    NoMetric = NoMetric
SYMMETRY Symmetry
CONSTRAINT OneAccident
INVARIANTS
    NoGhosts
    OnlyMismatchesStale
    AskedMetricHolds
