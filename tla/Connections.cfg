SPECIFICATION FairSpec
CONSTANTS
    N = 3
    Conns = {1}
    Sync = {2}
    ReplicaPriority = "any"
    MaxLag = 0
    IncludePrimary = TRUE
    NoFallback = FALSE
    StopListening = TRUE
    MaxPos = 1
INVARIANT Spread
PROPERTIES ConnectionsFollow RetainedUndisturbed
