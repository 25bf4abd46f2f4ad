SPECIFICATION Spec
CONSTANTS
    RecordId = {a, b}
    FlushThreshold = 2
    NameBase = 3
    NameLimit = 9
    MaxBatch = 2
    MaxSeq = 3
    MaxSst = 4
    MaxCrashes = 1
    MaxFaults = 1
SYMMETRY Symmetry
INVARIANTS
    FullInv
    ReadsSeeAcked
    AckedSurvives
    GetMatchesScan
    LevelsInSeqOrder
    DiskInSeqOrder
    MemtableLogged
    SeqIsFresh
    AckedNotOlder
PROPERTY MaintenanceKeepsView
PROPERTY EngineImplementsKV
