SPECIFICATION Spec
CONSTANTS
    Coroutine = {c1, c2}
    limit_min = 1
    limit_max = 2
    count_per_shrink = 1
    Listener = {l1}
    MaxFd = 4
    MaxBacklog = 2
    MaxEvents = 2
    EventSets = {{"IN"}, {"OUT"}}
    Faults = {}
    UserMayCloseEarly = TRUE
    UserOps = {"read", "write", "connect"}
    MaxSockets = 1
    None = none
PROPERTY
    NoForeignClose
