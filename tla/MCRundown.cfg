\* A waiter and two releasers, or one of two references, or a waiter, a late
\* acquirer and the last releaser.  Liveness, so no symmetry.
CONSTANTS
    Threads = {t1, t2, t3}
    Refs = {r1, r2}
    NoBlock = NoBlock
SPECIFICATION FairSpec
INVARIANTS
    DrainedMeansUnused
    NoDanglingWaitBlock
    SanityChecks
PROPERTIES
    NoLateAcquire
    ImplementsRundownProtection
    WaitReturns
