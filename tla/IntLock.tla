------------------------------- MODULE IntLock -------------------------------
(***************************************************************************)
(* The interrupt lock that makes every function of the API one step:       *)
(* sch_lock_int and sch_unlock_int of thread.c, behind UTIL_LOCK_EVERYTHING *)
(* (util.c) and os_enter_critical (global.c), and the preemption point of  *)
(* sch_unload_current.  Unlike the other modules this one has a step per   *)
(* access to lock_depth and per change of the interrupt mask.              *)
(***************************************************************************)
EXTENDS Naturals

CONSTANTS
    Thread,    \* threads
    Isr,       \* interrupt service routines, which may nest
    NULL,
    UintMod,   \* 2^w for the w bits of os_uint_t
    MaxNest    \* how many critical sections a context opens inside each other

Ctx == Thread \cup Isr

ASSUME IntLockAssumption ==
    /\ Thread # {}
    /\ Thread \cap Isr = {}
    /\ NULL \notin Ctx
    /\ UintMod \in Nat /\ UintMod >= 2
    /\ MaxNest \in Nat

VARIABLES
    lock_depth,    \* g_sch.lock_depth
    int_enabled,   \* does the CPU take interrupts
    top,           \* the context on the CPU
    below,         \* the context an interrupt service routine has interrupted
    pc,            \* where each context stands
    local,         \* int_depth of sch_lock_int, lock_depth of sch_unload_current
    nest           \* the critical sections a context has opened and not closed

vars == <<lock_depth, int_enabled, top, below, pc, local, nest>>

\* "body": no lock operation is in progress.  "read": sch_lock_int has computed
\* int_depth.  "mask": it has disabled interrupts.  "count": sch_unlock_int has
\* decremented lock_depth.  "window": the preemption point of
\* sch_unload_current.  "close": it has disabled interrupts again.
PC == {"body", "read", "mask", "count", "window", "close"}

TypeOK ==
    /\ lock_depth \in 0 .. (UintMod - 1)
    /\ int_enabled \in BOOLEAN
    /\ top \in Ctx
    /\ below \in [Isr -> Ctx \cup {NULL}]
    /\ pc \in [Ctx -> PC]
    /\ local \in [Ctx -> 0 .. (UintMod - 1)]
    /\ nest \in [Ctx -> 0 .. MaxNest]

Init ==
    /\ lock_depth = 0
    /\ int_enabled = TRUE
    /\ top \in Thread
    /\ below = [i \in Isr |-> NULL]
    /\ pc = [c \in Ctx |-> "body"]
    /\ local = [c \in Ctx |-> 0]
    /\ nest = [c \in Ctx |-> 0]

-----------------------------------------------------------------------------
(* sch_lock_int *)

goto(p) == pc' = [pc EXCEPT ![top] = p]

lock_read ==
    /\ pc[top] = "body"
    /\ nest[top] < MaxNest
    /\ local' = [local EXCEPT ![top] = (lock_depth + 1) % UintMod]
    /\ goto("read")
    /\ UNCHANGED <<lock_depth, int_enabled, top, below, nest>>

\* Mutant: the first lock does not disable interrupts.
TestOnly ==
    /\ pc[top] = "read"
    /\ nest' = IF local[top] = 1 THEN nest ELSE [nest EXCEPT ![top] = @ + 1]
    /\ goto(IF local[top] = 1 THEN "mask" ELSE "body")
    /\ UNCHANGED <<lock_depth, int_enabled, top, below, local>>

\* The first lock disables interrupts; a nested one has nothing left to do.
lock_test ==
    /\ pc[top] = "read"
    /\ int_enabled' = (int_enabled /\ local[top] # 1)
    /\ nest' = IF local[top] = 1 THEN nest ELSE [nest EXCEPT ![top] = @ + 1]
    /\ goto(IF local[top] = 1 THEN "mask" ELSE "body")
    /\ UNCHANGED <<lock_depth, top, below, local>>

\* Only the first lock stores the depth.
lock_store ==
    /\ pc[top] = "mask"
    /\ lock_depth' = local[top]
    /\ nest' = [nest EXCEPT ![top] = @ + 1]
    /\ goto("body")
    /\ UNCHANGED <<int_enabled, top, below, local>>

(* sch_unlock_int *)

\* Mutant: an unlock without a lock.
CountUnpaired ==
    /\ pc[top] = "body"
    /\ lock_depth' = (lock_depth + (UintMod - 1)) % UintMod
    /\ goto("count")
    /\ UNCHANGED <<int_enabled, top, below, local, nest>>

unlock_count ==
    /\ pc[top] = "body"
    /\ nest[top] > 0
    /\ lock_depth' = (lock_depth + (UintMod - 1)) % UintMod
    /\ goto("count")
    /\ UNCHANGED <<int_enabled, top, below, local, nest>>

unlock_enable ==
    /\ pc[top] = "count"
    /\ int_enabled' = IF lock_depth = 0 THEN TRUE ELSE int_enabled
    /\ nest' = [nest EXCEPT ![top] = @ - 1]
    /\ goto("body")
    /\ UNCHANGED <<lock_depth, top, below, local>>

-----------------------------------------------------------------------------
(* The preemption point of sch_unload_current: a caller inside a critical   *)
(* section opens it, may be unloaded if it is a thread, and closes it.      *)

\* Mutant: the depth is not cleared when interrupts are enabled.
OpenLocked ==
    /\ pc[top] = "body"
    /\ nest[top] > 0
    /\ local' = [local EXCEPT ![top] = lock_depth]
    /\ int_enabled' = TRUE
    /\ goto("window")
    /\ UNCHANGED <<lock_depth, top, below, nest>>

unload_open ==
    /\ pc[top] = "body"
    /\ nest[top] > 0
    /\ local' = [local EXCEPT ![top] = lock_depth]
    /\ lock_depth' = 0
    /\ int_enabled' = TRUE
    /\ goto("window")
    /\ UNCHANGED <<top, below, nest>>

unload_close ==
    /\ pc[top] = "window"
    /\ int_enabled' = FALSE
    /\ goto("close")
    /\ UNCHANGED <<lock_depth, top, below, local, nest>>

\* Mutant: the depth is not restored.
RestoreNot ==
    /\ pc[top] = "close"
    /\ goto("body")
    /\ UNCHANGED <<lock_depth, int_enabled, top, below, local, nest>>

unload_restore ==
    /\ pc[top] = "close"
    /\ lock_depth' = local[top]
    /\ goto("body")
    /\ UNCHANGED <<int_enabled, top, below, local, nest>>

-----------------------------------------------------------------------------
(* The CPU *)

Active(i) == below[i] # NULL

\* An interrupt service routine preempts whatever runs.
interrupt(i) ==
    /\ int_enabled
    /\ ~Active(i)
    /\ below' = [below EXCEPT ![i] = top]
    /\ top' = i
    /\ UNCHANGED <<lock_depth, int_enabled, pc, local, nest>>

interrupt_return ==
    /\ top \in Isr
    /\ Active(top)
    /\ pc[top] = "body"
    /\ nest[top] = 0
    /\ top' = below[top]
    /\ below' = [below EXCEPT ![top] = NULL]
    /\ UNCHANGED <<lock_depth, int_enabled, pc, local, nest>>

\* The context switcher has the lowest interrupt priority.
context_switch(t) ==
    /\ int_enabled
    /\ top \in Thread
    /\ top' = t
    /\ UNCHANGED <<lock_depth, int_enabled, below, pc, local, nest>>

-----------------------------------------------------------------------------
LockNext == lock_read \/ lock_test \/ lock_store
UnlockNext == unlock_count \/ unlock_enable
UnloadNext == unload_open \/ unload_close \/ unload_restore
CpuNext ==
    \/ \E i \in Isr : interrupt(i)
    \/ interrupt_return
    \/ \E t \in Thread : context_switch(t)

Next == LockNext \/ UnlockNext \/ UnloadNext \/ CpuNext

Spec == Init /\ [][Next]_vars

-----------------------------------------------------------------------------
\* c has opened a critical section and is not at its preemption point.
InCritical(c) == nest[c] > 0 /\ pc[c] \notin {"window", "close"}

\* What os_enter_critical promises (global.c): nothing preempts a context in its
\* critical section, neither an interrupt nor another thread.
CriticalExclusive == \A c \in Ctx : InCritical(c) => c = top /\ ~int_enabled

\* The lock is balanced: a context that is in no critical section, and is not
\* entering or leaving one, runs with interrupts enabled and the depth at zero,
\* so that the next lock is a first one.
LockBalanced ==
    pc[top] = "body" /\ nest[top] = 0 => int_enabled /\ lock_depth = 0

-----------------------------------------------------------------------------
(* Inductive invariants *)

\* Who is opening a critical section may open it, who is closing one has one.
NestInv ==
    \A c \in Ctx :
        /\ pc[c] \in {"read", "mask"} => nest[c] < MaxNest
        /\ pc[c] = "count" => nest[c] > 0

(* The remaining ones hold when critical sections do not nest. *)

\* Where a context can be preempted: outside a critical section, or at the
\* preemption point of one.
Preemptible(c) ==
    \/ pc[c] \in {"body", "read"} /\ nest[c] = 0
    \/ pc[c] = "window" /\ nest[c] = 1

\* How the depth goes with the code point of the context that has disabled
\* interrupts.
Masked(c) ==
    \/ pc[c] = "mask" /\ nest[c] = 0 /\ lock_depth = 0
    \/ pc[c] = "body" /\ nest[c] = 1 /\ lock_depth = 1
    \/ pc[c] \in {"count", "close"} /\ nest[c] = 1 /\ lock_depth = 0

\* Whoever is not on the CPU is preemptible, the one on the CPU is as well or
\* has disabled interrupts, and a depth read before a preemption is not stale
\* afterwards.
LockInv ==
    /\ \A c \in Ctx : c # top => Preemptible(c)
    /\ IF int_enabled THEN Preemptible(top) /\ lock_depth = 0 ELSE Masked(top)
    /\ \A c \in Ctx : pc[c] \in {"read", "mask", "window", "close"} => local[c] = 1
=============================================================================
