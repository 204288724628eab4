\* One thread pops while another takes and frees the same handle.
CONSTANTS
    Callers = {t1, t2}
    PerTable = 3
    MaxHandles = 3
    Granted = Granted
    NoThread = NoThread
    LockCount = 4
SYMMETRY Symmetry
SPECIFICATION FreeListSpec
INVARIANTS
    NewHandleInRange
