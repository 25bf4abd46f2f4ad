SPECIFICATION IngestSpec
CONSTANTS
    U32 = 4
    Usize = 200
    BodyLimit = 60
    RecordId = {1, 2}
    TableId = {1, 2}
    MaxSeq = 3
    MaxBatch = 2
    MaxDim = 2
    Float = {x, NaN}
    NaN = NaN
    Limit = 64
    Panic = Panic
    Corrupt = Corrupt
    Text <- MCText
    Metadata <- MCMetadata
    NoMetadata <- MCNoMetadata
    Bincode <- MCBincode
INVARIANTS
    ParserStaysInBody
    RowsReadBack
    ParsedIsSent
    CutIsRefused
    BinaryMatchesJson
    ServedAsSent
