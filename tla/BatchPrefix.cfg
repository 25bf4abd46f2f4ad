SPECIFICATION Spec
CONSTANTS
    RecordId = {a, b}
    FlushThreshold = 3
    NameBase = 10
    NameLimit = 1000000
    MaxBatch = 2
    MaxSeq = 2
    MaxSst = 2
    MaxCrashes = 1
    MaxFaults = 0
SYMMETRY Symmetry
INVARIANT BatchAllOrNothing
