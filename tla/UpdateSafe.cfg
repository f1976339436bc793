SPECIFICATION Spec
CONSTANTS
    N = 3
    Priority <- KeeperPriority
    CanBeMaster = {1, 2, 3}
    MaxStandbyLag = 0
    MaxStandbysPerSender = 2
    UnsafeAutoFailback = TRUE
    ReinitRoles = {"standby", "master"}
    Rounds = 1
    MaxPos = 1
    MaxTimeline = 4
    MaxFaults = 1
    MaxRequests = 1
INVARIANTS MasterPresent InvalidIsDiverged ValidIsOnLine
PROPERTY BoundedLoss
