\* A holder and two waiters, on two entries with one list between them.
CONSTANTS
    Threads = {t1, t2, t3}
    Entries = {e1, e2}
    Objects = {o1}
    Null = Null
SPECIFICATION FairSpec
INVARIANTS
    EntryExclusive
    NoDanglingBlock
    NoLostWakeup
PROPERTIES
    CallsReturn
