SPECIFICATION FairSpec
CONSTANTS
    Coroutine = {c1}
    limit_min = 0
    limit_max = 1
    count_per_shrink = 1
    Listener = {l1}
    MaxFd = 4
    MaxBacklog = 2
    MaxEvents = 2
    EventSets = {{"IN"}, {"OUT"}}
    Faults = {}
    UserMayCloseEarly = FALSE
    UserOps = {"read", "write", "connect"}
    MaxSockets = 1
    None = none
PROPERTIES
    Stops
    Served
