SPECIFICATION Spec
CONSTANTS
    Proxies = {p1, p2}
    DBs = {d1, d2}
    NoDB = NoDB
    ProxyTimeout = 2
    ProxyCheckInterval = 1
    SleepInterval = 1
    StoreLatency = 0
    StoreErrors = FALSE
    QuickHandover = FALSE
    MaxElections = 1
    MaxFaults = 1
SYMMETRY ProxySymmetry
INVARIANTS HandshakeInv FencedBeforePublish OneWritableTarget
PROPERTY RoutingSpec
