SPECIFICATION Spec
CONSTANTS
    Sentinels = {s1, s2}
    Pauses = {p1}
    Resumes = {}
    Updates = {u1}
    Promotes = {m1}
    Edits = {}
    Inits = {}
    Skips = {k1}
    Writes = {}
    NoData = NoData
    Backend = "etcdv3"
    MutateRetries = 2
    ConflictSteps = 2
    MaxChecks = 2
    MaxFaults = 1
SYMMETRY WriterSymmetry
INVARIANT StoreInv
PROPERTIES ReportsTruly RegisterSpec
