SPECIFICATION FairSpec
CONSTANTS
    Sentinels = {s1, s2}
    Pauses = {p1}
    Resumes = {r1}
    Updates = {}
    Promotes = {}
    Edits = {}
    Inits = {}
    Skips = {}
    Writes = {}
    NoData = NoData
    Backend = "kubernetes"
    MutateRetries = 2
    ConflictSteps = 2
    MaxChecks = 2
    MaxFaults = 1
INVARIANT CreatedOnce
PROPERTIES RegisterSpec CommandsReturn
