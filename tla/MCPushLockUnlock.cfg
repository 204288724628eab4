\* One sharer or owner that releases and two waiters that arrive meanwhile.
CONSTANTS
    Threads = {t1, t2, t3}
    Calls = {"X", "S", "Any"}
    NoBlock = NoBlock
SPECIFICATION FairSpec
PROPERTIES
    ReleaseUnlocks
