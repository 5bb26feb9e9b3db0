CONSTANTS
    None = None
    All = All
    OneDay = OneDay
    Preset <- TwoPresets
    Default = OneDay
    Length <- Lengths
    Date = {0, 1}
    Size = {1, 2}
    DefaultSize = 2
    Second = 2
    Day = 4
    Offset = 1
    Stamp <- Moments
    World <- Worlds
    Log <- Logs
    Bead = {1, 2, 3}
    Origin <- Closings
    MaxNow = 6
    MaxChanges = 1
    MaxClicks = 3
    MaxReloads = 1
    MaxFlight = 2
CHECK_DEADLOCK FALSE
SPECIFICATION PageSpec
INVARIANTS
    PageTypeOK
    WalkMissesNothing
    ChoiceStands
    FetchSuffices
    SeriesAddUp
    PercentilesSplit
    
