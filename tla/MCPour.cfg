CONSTANTS
    t1 = t1
    t2 = t2
    b1 = b1
    m1 = m1
    None = None
    Failed = Failed
    Task <- TwoTasks
    Detail <- OneBead
    Memory <- OneMemory
    MaxWrites <- TwiceOrOnce
SPECIFICATION PourFairSpec
INVARIANTS
    CacheKeepsUp
    AnswersKeepUp
    JoinersHaveAnOwner
    ToldIsListed
PROPERTIES
    EveryRequestAnswered
