SPECIFICATION FairSpec
CONSTANTS
    Coroutine = {c1}
    limit_min = 0
    limit_max = 1
    count_per_shrink = 1
    Listener = {l1, l2}
    MaxFd = 5
    MaxBacklog = 1
    MaxEvents = 1
    EventSets = {{"IN"}}
    Faults = {}
    UserMayCloseEarly = FALSE
    UserOps = {"read"}
    MaxSockets = 0
    None = none
PROPERTY
    Served
