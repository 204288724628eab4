\* Two users and the waiter, three words.  Sizes in words, in the order the real
\* ones have (RefSize < MasterSize, which is no multiple of Align).  A wait that
\* sleeps is never woken (WaitOutcome): there the system stops.
CONSTANTS
    Threads = {t1, t2}
    Refs = {r1, r2, r3}
    Number = 3
    MaxDrift = 3
    CPUs <- MCCPUs
    Processors <- MCProcessors
    Stride = 24
    RefSize = 1
    MasterSize = 3
    Align = 4
SPECIFICATION ObjectSpec
INVARIANTS
    Accounting
    CollectingSound
    WaitOutcome
    NoLeak
    OwnLine
PROPERTIES
    NoLateAcquireCacheAware
CHECK_DEADLOCK FALSE
