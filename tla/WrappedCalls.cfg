SPECIFICATION MCSpec
CONSTANTS
    MaxFd = 3
    InitCap = 1
    Routine = {r1, r2}
    Listener = listener
    Ptr = {r1, r2, listener}
    PollPtr = {r1, r2, listener}
    EventSets = {{"IN"}, {"OUT"}, {"HUP"}, {"IN", "HUP"}}
    PollEventSets = {}
    MaxEvents = 2
    Linked = {"epollet", "poll", "port"}
    MaxBacklog = 1
INVARIANTS
    CallsTypeOK
    NoOtherLostWakeup
    NoOtherForeignEvent
    ArrayInv
    FilledAreReady
    PollInv
    ArraysFit
PROPERTY
    CallsImplementPollSet
CHECK_DEADLOCK FALSE
