\* A reader in front of another one gives up.
SPECIFICATION QueueSpec
CONSTANTS
    idle = idle
    t1 = t1
    t2 = t2
    reads = reads
    writes = writes
    a = a
    b = b
    Thread = {idle, t1, t2}
    StaticThread = {}
    Idle = idle
    q_wait_read = reads
    q_wait_write = writes
    WaitQ = {reads, writes}
    NULL = NULL
    NumPrios = 2
    UintMod = 4
    Timeouts = {1}
    Byte = {a}
    BufferSizes = {3}
    MaxSize = 3
    Sizes = {1, 2}
    Calls = {"create", "queue_create", "queue_receive"}
    IsrCalls = {"queue_send_nb"}
SYMMETRY Symmetry
INVARIANTS
    NoSleepOnFit
