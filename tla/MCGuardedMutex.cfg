\* A holder or stealer, a woken waiter and a sleeper.  Liveness, so no symmetry.
CONSTANTS
    Threads = {t1, t2, t3}
    NoThread = NoThread
SPECIFICATION FairSpec
INVARIANTS
    Exclusion
    WokenBit
    WaiterCount
    NoLostWakeup
PROPERTIES
    CallsReturn
