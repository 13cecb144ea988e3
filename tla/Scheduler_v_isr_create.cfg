\* An interrupt creates a thread while the current one is being unloaded.
SPECIFICATION Spec
CONSTANTS
    idle = idle
    t1 = t1
    t2 = t2
    s1 = s1
    Thread = {idle, t1, t2}
    StaticThread = {}
    Idle = idle
    WaitQ = {}
    NULL = NULL
    NumPrios = 3
    UintMod = 4
    Timeouts = {3}
    Calls = {"create", "delay"}
    IsrCalls = {"create"}
INVARIANTS
    RunsHighest
