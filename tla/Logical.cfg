SPECIFICATION FairSpec
CONSTANTS
    Slots = {s1}
    MaxLSN = 3
    MaxFailures = 1
    MaxFailovers = 1
INVARIANTS NeverAhead
PROPERTY NotForgotten
