\* Critical sections are not opened inside each other.
SPECIFICATION Spec
CONSTANTS
    Thread = {t1, t2}
    Isr = {i1, i2}
    NULL = NULL
    UintMod = 4
    MaxNest = 1
INVARIANTS
    TypeOK
    CriticalExclusive
    LockBalanced
    LockInv
