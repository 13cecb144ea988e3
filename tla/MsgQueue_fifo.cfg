\* Threads send, send ahead, receive and peek; interrupts send without waiting, reset and delete the queue and resume waiters.
SPECIFICATION QueueSpec
CONSTANTS
    idle = idle
    t1 = t1
    t2 = t2
    reads = reads
    writes = writes
    a = a
    b = b
    Thread = {idle, t1, t2}
    StaticThread = {}
    Idle = idle
    q_wait_read = reads
    q_wait_write = writes
    WaitQ = {reads, writes}
    NULL = NULL
    NumPrios = 2
    UintMod = 2
    Timeouts = {}
    Byte = {a, b}
    BufferSizes = {3}
    MaxSize = 3
    Sizes = {1, 2}
    Calls = {"create", "queue_create", "queue_send", "queue_send_ahead", "queue_receive", "queue_peek", "queue_receive_nb"}
    IsrCalls = {"queue_send_nb", "queue_send_ahead_nb", "queue_reset", "queue_delete", "resume"}
SYMMETRY Symmetry
INVARIANTS
    QueueTypeOK
    RequestsValid
PROPERTIES
    QueueIsFifo
    FitOnlyByDeparture
    TransferOutcome
