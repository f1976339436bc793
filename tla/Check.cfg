SPECIFICATION FairSpec
CONSTANTS
    Sentinels = {s1}
    SleepInterval = 0
    FailInterval = 1
    TTL = 0
    NoFallback = TRUE
    PublishWorks = TRUE
    MaxElections = 2
    MaxRequests = 1
    LateRequests = FALSE
PROPERTIES NoHastyFailure  EndpointFollows
