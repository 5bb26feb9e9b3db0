CONSTANTS
    b1 = b1
    a = a
    d1 = d1
    None = None
    All = All
    Watcher = Watcher
    Bead <- OneBead
    Db <- OneDb
    Tab <- OneTab
    Region <- LanesAndCounts
    Task <- PaneTasks
    Readable <- Readings
    MayFail = {}
    Window = 0
    Threshold = 1
    MaxDay = 0
    MaxWrites = 2
    QueueSize = 1
SPECIFICATION LiveFairSpec
PROPERTY EveryChangeReachesTheBoard
