\* An interrupt deletes a thread that has been chosen to run.
SPECIFICATION Spec
CONSTANTS
    idle = idle
    t1 = t1
    t2 = t2
    s1 = s1
    Thread = {idle, t1, s1}
    StaticThread = {s1}
    Idle = idle
    WaitQ = {}
    NULL = NULL
    NumPrios = 3
    UintMod = 4
    Timeouts = {3}
    Calls = {"create", "delay"}
    IsrCalls = {"delete"}
INVARIANTS
    NoBreakpoint
