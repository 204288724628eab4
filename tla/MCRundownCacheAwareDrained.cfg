CONSTANTS
    Threads = {t1, t2}
    Refs = {r1, r2}
    Number = 2
    MaxDrift = 3
    CPUs <- MCCPUs
SPECIFICATION Spec
INVARIANTS
    CacheAwareDrained
