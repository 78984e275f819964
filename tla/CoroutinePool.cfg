SPECIFICATION Spec
CONSTANTS
    Fiber = {f1, f2, f3, f4}
    Thread = thread
    Null = null
    limit_min = 1
    limit_max = 3
    IdleArgs = {0, 1000}
    CountArgs <- MCCountArgs
    TickUsec = {700000}
    MaxNow = 2100000
INVARIANTS
    FiberInv
    ChainReachesThread
    PoolInv
    FreeListByAge
PROPERTIES
    ShrinkKeepsMinimum
    ShrinkFreesOnlyIdle
    ShrinkFreesAllIdle
    ImplementsCoroutines
    ImplementsCallStack
SYMMETRY FiberSymmetry
