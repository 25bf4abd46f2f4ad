SPECIFICATION PowerSpec
CONSTANTS
    RecordId = {a, b}
    FlushThreshold = 2
    NameBase = 10
    NameLimit = 1000000
    MaxBatch = 1
    MaxSeq = 2
    MaxSst = 2
    MaxCrashes = 1
    MaxFaults = 0
SYMMETRY Symmetry
INVARIANT AckedOutlivesPower
