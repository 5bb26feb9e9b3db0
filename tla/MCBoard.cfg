CONSTANTS
    Bead <- ThreeBeads
    Status <- FourStatuses
    Typing <- Typings
    Graph <- AnyBlocks
    MaxLinks = 2
SPECIFICATION Spec
INVARIANTS
    ReadyIsClaimable
    BadgeTellsTruth
    
    CyclesExact
    StripInSequence
