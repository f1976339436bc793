SPECIFICATION FairSpec
CONSTANTS
    Proxies = {p1}
    DBs = {d1, d2}
    NoDB = NoDB
    ProxyTimeout = 2
    ProxyCheckInterval = 1
    SleepInterval = 1
    StoreLatency = 0
    StoreErrors = TRUE
    QuickHandover = TRUE
    MaxElections = 1
    MaxFaults = 2
INVARIANT AckMeansClosed
PROPERTIES MasterGetsPublished ProxiesFollow
