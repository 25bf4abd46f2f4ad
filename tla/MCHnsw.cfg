SPECIFICATION HnswSpec
CONSTANTS
    Point = {1, 2, 3, 4, 5}
    Sought = {1, 2, 3, 4, 5, 6}
    Components <- Plane
    Scale = 67600
    Metric = {"L2", "Cosine", "DotProduct"}
    M = 2
    MMax0 = 2
    EfConstruction = 1
    TopLevel = 1
    MaxNodes = 5
INVARIANTS
    ListsInBounds
    WideBeamIsExact
    LostOnlyByPruning
    OneWayMeansFull
