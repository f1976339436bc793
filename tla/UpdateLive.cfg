SPECIFICATION FairSpec
CONSTANTS
    N = 3
    Priority <- KeeperPriority
    CanBeMaster = {1, 2, 3}
    MaxStandbyLag = 1
    MaxStandbysPerSender = 2
    UnsafeAutoFailback = FALSE
    ReinitRoles = {"standby"}
    Rounds = 0
    MaxPos = 1
    MaxTimeline = 3
    MaxFaults = 1
    MaxRequests = 0

PROPERTY SelfHeals
