CONSTANTS
    b1 = b1
    t1 = t1
    t2 = t2
    d1 = d1
    None = None
    All = All
    Bead <- OneBead
    Task <- TwoTasks
    Db <- OneDb
    Readable <- AnyManifest
    MayFail = {"active", "closed", "history"}
    Window = 0
    Threshold = 2
    MaxDay = 1
    MaxWrites = 2
SYMMETRY TaskSymmetry
SPECIFICATION Spec
INVARIANTS
    TypeOK
    SkipMissesNothing
    HistoryHoldsItsWindow
    DetailsDropped
PROPERTIES
    HistoryNeverNarrows
