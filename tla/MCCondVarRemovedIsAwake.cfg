\* Sleepers and a waker, with an exclusive lock of the caller.
CONSTANTS
    Threads = {t1, t2, t3}
    Keys <- MCKeys
    NoKey = NoKey
    NoEntry = NoEntry
    SharedMode = FALSE
SPECIFICATION Spec
INVARIANTS
    RemovedIsAwake
CHECK_DEADLOCK FALSE
