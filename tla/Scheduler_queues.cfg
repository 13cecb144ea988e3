\* Every call by threads, and resume and set_priority by interrupts; delays of any length.
SPECIFICATION Spec
CONSTANTS
    idle = idle
    t1 = t1
    t2 = t2
    s1 = s1
    Thread = {idle, t1, s1}
    StaticThread = {s1}
    Idle = idle
    WaitQ = {}
    NULL = NULL
    NumPrios = 2
    UintMod = 4
    Timeouts = {1, 3}
    Calls = {"create", "delete", "suspend", "resume", "set_priority", "yield", "delay"}
    IsrCalls = {"resume", "set_priority"}
INVARIANTS
    TypeOK
    QueueOwnership
    ThreadStateInv
    NoBreakpoint
    RunningReady
    DelayOrder
PROPERTIES
    TimeoutExact
