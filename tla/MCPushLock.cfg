\* A holder, a waiter behind a waiter, a stealer, and the wake-up of one waiter
\* while another arrives.  Liveness, so no symmetry.
CONSTANTS
    Threads = {t1, t2, t3}
    Calls = {"X", "S", "Any"}
    NoBlock = NoBlock
SPECIFICATION FairSpec
INVARIANTS
    WordCountsHolders
    OneWaker
    NoDanglingBlock
    SanityChecks
    NoLostWakeup
PROPERTIES
    ImplementsRWLock
    CallsReturn
