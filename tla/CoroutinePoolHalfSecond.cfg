SPECIFICATION Spec
CONSTANTS
    Fiber = {f1, f2, f3}
    Thread = thread
    Null = null
    limit_min = 1
    limit_max = 3
    IdleArgs = {500}
    CountArgs = {2}
    TickUsec = {400000}
    MaxNow = 1600000
PROPERTY
    ShrinkFreesOnlyIdle
