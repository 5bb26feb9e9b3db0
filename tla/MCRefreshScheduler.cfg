CONSTANTS
    t1 = t1
    t2 = t2
    t3 = t3
    None = None
    Task <- MCTask
    Debounce = 2
    Cooldown = 3
    MaxNotify = 4
SPECIFICATION FairSpec
INVARIANTS
    TypeOK
    SingleFlight
    SettlesInTime
PROPERTIES
    PassNeverCancelled
    CooldownHonoured
    ImplementsContract
    SettleLeadsToPass
