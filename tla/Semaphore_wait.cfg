\* Threads wait, peek and take tokens; interrupts post, reset and delete, and resume waiters.
SPECIFICATION SemSpec
CONSTANTS
    idle = idle
    t1 = t1
    t2 = t2
    sem = sem
    Thread = {idle, t1, t2}
    StaticThread = {}
    Idle = idle
    WaitQ = {sem}
    NULL = NULL
    NumPrios = 2
    UintMod = 3
    Timeouts = {1}
    Initials = {0, 2}
    Calls = {"create", "sem_create", "sem_wait", "sem_peek", "sem_wait_nb"}
    IsrCalls = {"sem_post", "sem_reset", "sem_delete", "resume"}
SYMMETRY Symmetry
INVARIANTS
    SemTypeOK
    NoSleepOnTokens
    WaiterInfo
PROPERTIES
    WaitOutcome
    SemaphoreCounts
