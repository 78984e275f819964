SPECIFICATION CallsSpec
CONSTANTS
    MaxFd = 3
    InitCap = 1
    Routine = {r1, r2}
    Listener = listener
    Ptr = {r1, r2, listener}
    PollPtr = {r1, r2, listener}
    EventSets = {}
    PollEventSets = {}
    MaxEvents = 2
    Linked = {"epollet"}
    MaxBacklog = 1
INVARIANT
    OwnEvents
