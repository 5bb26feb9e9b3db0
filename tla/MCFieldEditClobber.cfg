CONSTANTS
    t1 = t1
    t2 = t2
    b1 = b1
    None = None
    Failed = Failed
    Task <- TwoTabs
    Detail <- OneBead
    Memory <- NoMemory
    MaxWrites <- Twice
SPECIFICATION Spec
PROPERTIES
    NoSilentClobber
