\* Three threads wait, peek and change priorities; owners and waiters are deleted.
SPECIFICATION MutexSpec
CONSTANTS
    idle = idle
    t1 = t1
    t2 = t2
    t3 = t3
    mutex = mutex
    Thread = {idle, t1, t2, t3}
    StaticThread = {}
    Idle = idle
    WaitQ = {mutex}
    NULL = NULL
    NumPrios = 2
    UintMod = 2
    Timeouts = {}
    MaxDepth = 1
    Calls = {"create", "delete", "mutex_create", "mutex_lock", "mutex_unlock", "mutex_peek", "set_priority"}
    IsrCalls = {}
SYMMETRY Symmetry
INVARIANTS
    MutexExclusive
PROPERTIES
    PassedToHighest
    MutexLocks
