\* A thread that pops, one that frees and one that moves the second list; the table
\* grows twice.  With two push locks handles 1 and 3 share one, and handle 2 shares
\* the lock of the table, as 4 does with four locks.
CONSTANTS
    Callers = {t1, t2, t3}
    PerTable = 1
    MaxHandles = 3
    Granted = Granted
    NoThread = NoThread
    LockCount = 2
SYMMETRY Symmetry
CONSTRAINT BeforeRace
SPECIFICATION FreeListSpec
INVARIANTS
    OneUserUnlessRaced
    InRangeUnlessRaced
