\* Threads, objects, queues and application memory come and go in a small pool.
SPECIFICATION MemSpec
CONSTANTS
    NULL = NULL
    g_mlst = kernel
    s1 = s1
    StaticThread = {s1}
    PoolSize = 20
    MemAlign = 2
    MemSmallest = 2
    MblkSize = 2
    ThdSize = 3
    ObjSize = 1
    PtrSize = 1
    UintMod = 32
    Requests = {1, 3}
INVARIANTS
    MemTypeOK
    ListsSound
    BlocksTile
    ListsHoldUses
    AllocFindsFit
PROPERTIES
    OnlyDeletionFragments
