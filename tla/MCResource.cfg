\* An owner and two waiters, or a waiter and a thief of its wake-up; a table that is
\* full with one entry, so that it is expanded, and expanded again.
CONSTANTS
    Threads = {t1, t2, t3}
    Pointers = {p1}
    NoOwner = NoOwner
    HandedOver = HandedOver
    FirstSize = 2
    MoreEntries = 1
    MaxCount = 2
SPECIFICATION FairSpec
INVARIANTS
    WaitersCounted
    ActiveCountsOwners
    EntriesNameOwners
    FirstEntryFree
PROPERTIES
    CallsReturn
