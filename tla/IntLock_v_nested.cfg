\* A call of the API inside os_enter_critical.
SPECIFICATION Spec
CONSTANTS
    Thread = {t1, t2}
    Isr = {i1, i2}
    NULL = NULL
    UintMod = 4
    MaxNest = 2
INVARIANTS
    CriticalExclusive
