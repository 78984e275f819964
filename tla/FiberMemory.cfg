SPECIFICATION Spec
CONSTANTS
    Fiber = {f1, f2, f3}
    Thread = thread
    ef_page_size = 4096
    stack_size = 16000
INVARIANTS
    MemoryInv
    GuardPage
\* the process is gone once SIGABRT was raised
CHECK_DEADLOCK FALSE
