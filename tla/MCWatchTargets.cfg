CONSTANTS
    d1 = d1
    Root = Root
    Db <- OneDb
    MaxChanges = 3
    MaxWrites = 2
SPECIFICATION WatchFairSpec
INVARIANTS
    WatchTypeOK
    SignatureVouches
    HeardIsPending
PROPERTIES
    WatchRecovers
    HeardWritesReachAPass
