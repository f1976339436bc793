SPECIFICATION FairSpec
CONSTANTS
    DBs = {d1, d2, d3}
    CanLead = {d1, d2}
    Extras = {}
    Ignored = {}
    TTL = 1
    MaxSwitches = 2
PROPERTIES GraceKept FollowersGetSlots OrphansCleaned
