\* A waker and two sleepers, or two wakers and a sleeper.  Liveness, so no symmetry.
CONSTANTS
    Threads = {t1, t2, t3}
    Keys <- MCKeys
    NoKey = NoKey
    NoEntry = NoEntry
    SharedMode = TRUE
SPECIFICATION FairSpec
INVARIANTS
    NoDanglingEntry
    RendezvousPaired
    WakeTakesOldest
PROPERTIES
    RemovedNotWoken
    CallsReturn
\* Everybody may sleep without a timeout, with nobody left to wake them.
CHECK_DEADLOCK FALSE
