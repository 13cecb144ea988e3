\* Every call of the mutex; owners and waiters are suspended and resumed.
SPECIFICATION MutexSpec
CONSTANTS
    idle = idle
    t1 = t1
    t2 = t2
    t3 = t3
    mutex = mutex
    Thread = {idle, t1, t2}
    StaticThread = {}
    Idle = idle
    WaitQ = {mutex}
    NULL = NULL
    NumPrios = 2
    UintMod = 4
    Timeouts = {1}
    MaxDepth = 2
    Calls = {"create", "suspend", "resume", "mutex_create", "mutex_delete", "mutex_lock", "mutex_lock_nb", "mutex_unlock", "mutex_peek"}
    IsrCalls = {}
SYMMETRY Symmetry
INVARIANTS
    MutexTypeOK
    DepthCounts
    NoSleepOnFree
