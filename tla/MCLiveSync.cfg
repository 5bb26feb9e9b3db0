CONSTANTS
    b1 = b1
    a = a
    d1 = d1
    None = None
    All = All
    Watcher = Watcher
    Bead <- OneBead
    Db <- OneDb
    Tab <- OneTab
    Region <- WholeBoard
    Task <- PaneTasks
    Readable <- Readings
    MayFail = {}
    Window = 0
    Threshold = 1
    MaxDay = 0
    MaxWrites = 1
    QueueSize = 1
SPECIFICATION LiveFairSpec
INVARIANTS
    LiveTypeOK
    NoEventMissed
PROPERTIES
    BoardConverges
