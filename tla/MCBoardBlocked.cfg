CONSTANTS
    Bead <- ThreeBeads
    Status <- FourStatuses
    Typing <- Mixed
    Graph <- NoLinks
    MaxLinks = 1
SPECIFICATION Spec
INVARIANT BlockedSelfCorrects
