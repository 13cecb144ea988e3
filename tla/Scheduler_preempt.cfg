\* The calls that reschedule; threads sleep and share the CPU.
SPECIFICATION FairSpec
CONSTANTS
    idle = idle
    t1 = t1
    t2 = t2
    s1 = s1
    Thread = {idle, t1, s1}
    StaticThread = {s1}
    Idle = idle
    WaitQ = {}
    NULL = NULL
    NumPrios = 3
    UintMod = 2
    Timeouts = {1}
    Calls = {"create", "delete", "suspend", "yield", "delay"}
    IsrCalls = {}
INVARIANTS
    RunsHighest
PROPERTIES
    DelayEnds
    SharesCpu
