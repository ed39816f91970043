CONSTANTS
    a = a
    b = b
    SeriesSeq <- MCSeriesSeq
    History = 2
    Tip = 2
    TipCap = 3
    MaxRetries = 2
    MaxBar = 5
    StoredAtStart <- MCStoredAtStart
    FaultKinds = {"call", "blip", "thin", "jump", "kill", "restart"}
    FaultBound = 2
SPECIFICATION FairSpec
INVARIANTS StoreIsSound CompletedMeansCurrent
PROPERTIES CatchesUp
