------------------------------ MODULE Scheduler ------------------------------
(***************************************************************************)
(* The mRTOS thread scheduler: source/thread.c with os_init, os_start and  *)
(* os_handle_heartbeat of source/global.c.                                 *)
(*                                                                         *)
(* A thread is the address of its control block.  A circular list with a   *)
(* head pointer is the sequence of its items read from the head, so moving *)
(* the head pointer on is a rotation and lstitem_prepend to the head is an *)
(* Append.  A queue of item_sch items is named by its priority (the ready  *)
(* queues) or by a member of WaitQ (the wait queue of a semaphore, mutex   *)
(* or message queue).                                                      *)
(*                                                                         *)
(* Every function of the API runs between UTIL_LOCK_EVERYTHING and         *)
(* UTIL_UNLOCK_EVERYTHING, so it is one action.  A function that readies   *)
(* threads in a loop takes one action per iteration; `handler' says which  *)
(* loop is running, and nothing else is enabled until it ends, because     *)
(* interrupts are disabled.                                                *)
(*                                                                         *)
(* An UTIL_ASSERT on the arguments of a function is a guard: the caller's  *)
(* obligation.  The assertions the scheduler makes about itself stop the   *)
(* system when they fail: `handler' becomes "breakpoint" for good, which   *)
(* is OSPORT_BREAKPOINT, for(;;), with interrupts disabled.                *)
(***************************************************************************)
EXTENDS Naturals, SequencesExt

CONSTANTS
    Thread,        \* addresses of thread control blocks
    StaticThread,  \* the ones in static memory (thd_create_static)
    Idle,          \* thd_idle
    WaitQ,         \* wait queues of the resources threads block on
    NULL,
    NumPrios,      \* OSPORT_NUM_PRIOS
    UintMod,       \* 2^w for the w bits of os_uint_t
    Timeouts,      \* the timeouts callers pass
    Calls,         \* the API functions application threads call
    IsrCalls       \* the API functions interrupt service routines call

Prio == 0 .. (NumPrios - 1)
IdlePrio == NumPrios - 1
SchQ == Prio \cup WaitQ
DelayQ == {"q_delay1", "q_delay2"}

ASSUME SchedulerAssumption ==
    /\ Idle \in Thread
    /\ StaticThread \subseteq Thread \ {Idle}
    /\ NumPrios \in Nat /\ NumPrios >= 2
    /\ UintMod \in Nat /\ UintMod >= 2
    /\ Timeouts \subseteq 1 .. (UintMod - 1)

ASSUME NamesAssumption ==
    /\ WaitQ \cap Prio = {}
    /\ NULL \notin Thread /\ NULL \notin SchQ /\ NULL \notin DelayQ

VARIABLES
    state,             \* thd_cblk_t.state; "FREE": no control block here
    item_sch_tag,      \* item_sch.tag, the priority
    item_sch_q,        \* item_sch.p_q
    item_delay_tag,    \* item_delay.tag, the wake-up time
    item_delay_q,      \* item_delay.p_q
    p_schinfo,         \* is p_schinfo non-NULL
    q_items,           \* items of q_ready[] and of the wait queues
    q_delay,           \* items of q_delay1 and q_delay2
    p_delayq_normal,
    p_delayq_overflow,
    timestamp,
    p_current,
    p_next,
    pending,           \* a context switch has been requested
    cpu,               \* where the code loaded on the CPU stands
    ctx,               \* the same for the threads saved by the switcher
    handler            \* the kernel loop that runs with interrupts disabled

schVars == <<p_current, p_next, pending, cpu, ctx, handler>>
timeVars == <<timestamp, p_delayq_normal, p_delayq_overflow>>
itemVars == <<item_sch_tag, item_sch_q, q_items>>
delayVars == <<item_delay_tag, item_delay_q, q_delay>>
vars == <<state, p_schinfo, itemVars, delayVars, timeVars, schVars>>

(***************************************************************************)
(* Where a thread's code stands.  "run": application code.  "unload": in   *)
(* sch_unload_current, interrupts enabled, switch not requested yet.       *)
(* "resume": behind the request; the next instruction runs when the thread *)
(* is loaded again.  "exit" and "gone" are the same two points for a       *)
(* thread that has deleted itself.                                         *)
(***************************************************************************)
CodePoint == {"run", "unload", "resume", "exit", "gone"}
HandlerName == {"none", "heartbeat", "wake", "breakpoint"}
ThdState == {"READY", "BLOCKED", "SUSPENDED", "DELETED", "FREE"}
Live(t) == state[t] \in {"READY", "BLOCKED", "SUSPENDED"}

TypeOK ==
    /\ state \in [Thread -> ThdState]
    /\ item_sch_tag \in [Thread -> Prio]
    /\ item_sch_q \in [Thread -> SchQ \cup {NULL}]
    /\ item_delay_tag \in [Thread -> 0 .. (UintMod - 1)]
    /\ item_delay_q \in [Thread -> DelayQ \cup {NULL}]
    /\ p_schinfo \in [Thread -> BOOLEAN]
    /\ q_items \in [SchQ -> Seq(Thread)]
    /\ q_delay \in [DelayQ -> Seq(Thread)]
    /\ p_delayq_normal \in DelayQ
    /\ p_delayq_overflow \in DelayQ
    /\ timestamp \in 0 .. (UintMod - 1)
    /\ p_current \in Thread \cup {NULL}
    /\ p_next \in Thread \cup {NULL}
    /\ pending \in BOOLEAN
    /\ cpu \in CodePoint
    /\ ctx \in [Thread -> CodePoint]
    /\ handler \in HandlerName

-----------------------------------------------------------------------------
(* Scheduler queues *)

\* Insert t as the last item: lstitem_prepend to the head of the circle.
sch_qitem_enq_fifo(s, t) == Append(s, t)

\* Mutant: the queue is first in, first out.
EnqAnywhere(s, t, tag) == Append(s, t)

\* Insert t by its tag, behind the items with an equal tag.
sch_qitem_enq_prio(s, t, tag) ==
    IF s = <<>> \/ tag[t] >= tag[Last(s)]
    THEN Append(s, t)
    ELSE InsertAt(s, SelectInSeq(s, LAMBDA x : tag[t] < tag[x]), t)

\* The item queues once t's scheduling item has left its queue, if it is in one.
sch_qitem_remove(t) ==
    IF item_sch_q[t] = NULL
    THEN q_items
    ELSE [q_items EXCEPT ![item_sch_q[t]] = RemoveFirst(@, t)]

\* The same for the delay item.
delay_item_remove(t) ==
    IF item_delay_q[t] = NULL
    THEN q_delay
    ELSE [q_delay EXCEPT ![item_delay_q[t]] = RemoveFirst(@, t)]

\* The highest priority with a ready thread: the loop over q_ready.
TopPrio(q) ==
    CHOOSE p \in Prio : q[p] # <<>> /\ \A r \in Prio : q[r] # <<>> => p <= r

\* Mutant: the head pointer of a ready queue stays where it is.
RotateNot(s) == s

Rotate(s) == Append(Tail(s), Head(s))

-----------------------------------------------------------------------------
(* Scheduling decisions.  q stands for the item queues as the calling      *)
(* function has left them, tag for the priorities.                         *)

sch_set_next_thread(q) ==
    /\ p_next' = Head(q[TopPrio(q)])
    /\ q_items' = [q EXCEPT ![TopPrio(q)] = Rotate(@)]

\* Mutant: the next thread is chosen and the switch to it forgotten.
RescheduleForgets(q, tag) ==
    IF TopPrio(q) < tag[p_current]
    THEN sch_set_next_thread(q) /\ UNCHANGED pending
    ELSE q_items' = q /\ UNCHANGED <<p_next, pending>>

sch_reschedule_req(q, tag) ==
    IF TopPrio(q) < tag[p_current]
    THEN /\ sch_set_next_thread(q)
         /\ pending' = (pending \/ p_current # p_next')
    ELSE /\ q_items' = q
         /\ UNCHANGED <<p_next, pending>>

\* Mutant: the caller goes on as if it had been unloaded.
UnloadGoesOn(c, q, pc) == sch_set_next_thread(q) /\ UNCHANGED <<pending, cpu>>

\* A thread stops between OSPORT_ENABLE_INT and OSPORT_CONTEXTSW_REQ, at code
\* point pc; an interrupt service routine makes the request and returns.
sch_unload_current(c, q, pc) ==
    /\ sch_set_next_thread(q)
    /\ \/ /\ p_current = p_next'
          /\ UNCHANGED <<pending, cpu>>
       \/ /\ p_current # p_next'
          /\ c = "isr"
          /\ pending' = TRUE
          /\ UNCHANGED cpu
       \/ /\ p_current # p_next'
          /\ c # "isr"
          /\ cpu' = pc
          /\ UNCHANGED pending

\* What the functions that call sch_unload_current assert when it returns.
ResumeAsserts ==
    /\ state[p_current] = "READY"
    /\ item_sch_q[p_current] # NULL
    /\ item_delay_q[p_current] = NULL
    /\ ~p_schinfo[p_current]

\* They assert it at once if the current thread stays loaded, or if the caller
\* is an interrupt service routine, which is not unloaded.
assert_resumed(c) ==
    handler' = IF (c = "isr" \/ p_current = p_next') /\ ~ResumeAsserts'
               THEN "breakpoint"
               ELSE handler

\* Mutant: the wake-up time is computed in a wider integer.
DelayInWide(t, timeout) ==
    LET tag == [item_delay_tag EXCEPT ![t] = timestamp + timeout]
        q == p_delayq_normal
    IN  /\ item_delay_tag' = tag
        /\ item_delay_q' = [item_delay_q EXCEPT ![t] = q]
        /\ q_delay' = [q_delay EXCEPT ![q] = sch_qitem_enq_prio(@, t, tag)]

\* Queue t's delay item; the wake-up time may wrap around.
sch_insert_delay(t, timeout) ==
    LET wakeup == (timestamp + timeout) % UintMod
        tag == [item_delay_tag EXCEPT ![t] = wakeup]
        q == IF wakeup < timestamp THEN p_delayq_overflow ELSE p_delayq_normal
    IN  /\ item_delay_tag' = tag
        /\ item_delay_q' = [item_delay_q EXCEPT ![t] = q]
        /\ q_delay' = [q_delay EXCEPT ![q] = sch_qitem_enq_prio(@, t, tag)]

-----------------------------------------------------------------------------
(* Threads *)

\* The item queues after thd_ready(t): t is the last of its ready queue.
ReadyItems(t) ==
    [sch_qitem_remove(t) EXCEPT ![item_sch_tag[t]] = sch_qitem_enq_fifo(@, t)]

\* Mutant: the delay item is marked as removed and not unlinked.
ReadyLeavesItem(t) ==
    /\ state' = [state EXCEPT ![t] = "READY"]
    /\ item_sch_q' = [item_sch_q EXCEPT ![t] = item_sch_tag[t]]
    /\ item_delay_q' = [item_delay_q EXCEPT ![t] = NULL]
    /\ p_schinfo' = [p_schinfo EXCEPT ![t] = FALSE]
    /\ UNCHANGED <<q_delay, item_sch_tag, item_delay_tag>>

\* What else thd_ready(t) changes.
thd_ready(t) ==
    /\ state' = [state EXCEPT ![t] = "READY"]
    /\ item_sch_q' = [item_sch_q EXCEPT ![t] = item_sch_tag[t]]
    /\ item_delay_q' = [item_delay_q EXCEPT ![t] = NULL]
    /\ q_delay' = delay_item_remove(t)
    /\ p_schinfo' = [p_schinfo EXCEPT ![t] = FALSE]
    /\ UNCHANGED <<item_sch_tag, item_delay_tag>>

\* Mutant: the timeout of the thread goes on.
WithdrawLeavesDelay(t, s) ==
    /\ state' = [state EXCEPT ![t] = s]
    /\ item_sch_q' = [item_sch_q EXCEPT ![t] = NULL]
    /\ p_schinfo' = [p_schinfo EXCEPT ![t] = FALSE]
    /\ UNCHANGED <<item_sch_tag, delayVars>>

\* Take t out of its queues and leave it in state s: the common part of
\* suspending and deleting.
Withdraw(t, s) ==
    /\ state' = [state EXCEPT ![t] = s]
    /\ item_sch_q' = [item_sch_q EXCEPT ![t] = NULL]
    /\ item_delay_q' = [item_delay_q EXCEPT ![t] = NULL]
    /\ q_delay' = delay_item_remove(t)
    /\ p_schinfo' = [p_schinfo EXCEPT ![t] = FALSE]
    /\ UNCHANGED <<item_sch_tag, item_delay_tag>>

\* Block the current thread on p_to (NULL: on nothing), for at most timeout
\* ticks (0: for ever); info says whether it leaves scheduling information.
thd_block_current(p_to, info, timeout) ==
    LET t == p_current
        q == sch_qitem_remove(t)
    IN  /\ state[t] = "READY"
        /\ item_sch_q[t] # NULL
        /\ item_delay_q[t] = NULL
        /\ state' = [state EXCEPT ![t] = "BLOCKED"]
        /\ item_sch_q' = [item_sch_q EXCEPT ![t] = p_to]
        /\ p_schinfo' = [p_schinfo EXCEPT ![t] = info]
        /\ IF timeout # 0 THEN sch_insert_delay(t, timeout) ELSE UNCHANGED delayVars
        /\ sch_unload_current("thread",
               IF p_to = NULL THEN q
               ELSE [q EXCEPT ![p_to] = sch_qitem_enq_prio(@, t, item_sch_tag)],
               "unload")
        /\ UNCHANGED <<item_sch_tag, timeVars, p_current, ctx, handler>>

\* A fresh control block, its fake context on the stack.
thd_init(t, prio) ==
    /\ state' = [state EXCEPT ![t] = "READY"]
    /\ item_sch_tag' = [item_sch_tag EXCEPT ![t] = prio]
    /\ item_delay_tag' = [item_delay_tag EXCEPT ![t] = 0]
    /\ item_delay_q' = [item_delay_q EXCEPT ![t] = NULL]
    /\ p_schinfo' = [p_schinfo EXCEPT ![t] = FALSE]
    /\ ctx' = [ctx EXCEPT ![t] = "run"]

\* thd_init, thd_ready of the control block, which is in no queue, then a
\* reschedule request once the kernel has been started.
thd_create(t, prio) ==
    LET q == [q_items EXCEPT ![prio] = sch_qitem_enq_fifo(@, t)]
    IN  /\ thd_init(t, prio)
        /\ item_sch_q' = [item_sch_q EXCEPT ![t] = prio]
        /\ IF p_current # NULL
           THEN sch_reschedule_req(q, item_sch_tag')
           ELSE q_items' = q /\ UNCHANGED <<p_next, pending>>
        /\ UNCHANGED <<q_delay, timeVars, p_current, cpu, handler>>

\* Leave the scheduler's queues for good; s is the state left behind.
thd_delete(c, t, s) ==
    /\ Withdraw(t, s)
    /\ \/ /\ t = p_current
          /\ sch_unload_current(c, sch_qitem_remove(t), "exit")
       \/ /\ t # p_current
          /\ q_items' = sch_qitem_remove(t)
          /\ UNCHANGED <<p_next, pending, cpu>>
    /\ UNCHANGED <<timeVars, p_current, ctx, handler>>

-----------------------------------------------------------------------------
(* Who calls: main() before os_start, the thread on the CPU, or an         *)
(* interrupt service routine, which runs whenever interrupts are enabled.  *)

Context == {"main", "thread", "isr"}

MayCall(c, api) ==
    /\ handler = "none"
    /\ \/ c = "main" /\ p_current = NULL /\ api \in Calls
       \/ /\ c = "thread" /\ p_current \notin {NULL, Idle}
          /\ cpu = "run" /\ ~pending /\ api \in Calls
       \/ c = "isr" /\ p_current # NULL /\ api \in IsrCalls

Started == p_current # NULL

\* mpool_alloc gives the control block an address that is free.  Running out of
\* memory changes nothing here.
os_thread_create(c, t, prio) ==
    /\ MayCall(c, "create")
    /\ t \notin StaticThread
    /\ state[t] = "FREE"
    /\ prio < IdlePrio
    /\ thd_create(t, prio)

thd_create_static(c, t, prio) ==
    /\ MayCall(c, "create")
    /\ t \in StaticThread
    /\ ~Live(t)
    /\ thd_create(t, prio)

\* Also thd_return_hook, where c = "thread" and t = p_current.
os_thread_delete(c, t) ==
    /\ MayCall(c, "delete") /\ Started
    /\ t \notin StaticThread
    /\ Live(t)
    /\ thd_delete(c, t, "FREE")

\* Also thd_return_hook_static.
thd_delete_static(c, t) ==
    /\ MayCall(c, "delete") /\ Started
    /\ t \in StaticThread
    /\ Live(t)
    /\ thd_delete(c, t, "DELETED")

os_thread_yield(c) ==
    /\ MayCall(c, "yield") /\ Started
    /\ sch_unload_current(c, q_items, "unload")
    /\ UNCHANGED <<state, item_sch_tag, item_sch_q, delayVars, p_schinfo,
                   timeVars, p_current, ctx>>
    /\ assert_resumed(c)

os_thread_delay(timeout) ==
    /\ MayCall("thread", "delay")
    /\ timeout # 0
    /\ thd_block_current(NULL, FALSE, timeout)

os_thread_suspend(c, t) ==
    /\ MayCall(c, "suspend") /\ Started
    /\ Live(t)
    /\ state[t] # "SUSPENDED"
    /\ Withdraw(t, "SUSPENDED")
    /\ UNCHANGED <<timeVars, p_current, ctx>>
    /\ \/ /\ t = p_current
          /\ sch_unload_current(c, sch_qitem_remove(t), "unload")
          /\ assert_resumed(c)
       \/ /\ t # p_current
          /\ q_items' = sch_qitem_remove(t)
          /\ UNCHANGED <<p_next, pending, cpu, handler>>

os_thread_resume(c, t) ==
    /\ MayCall(c, "resume") /\ Started
    /\ Live(t)
    /\ thd_ready(t)
    /\ q_items' = ReadyItems(t)
    /\ UNCHANGED <<timeVars, schVars>>

os_thread_set_priority(c, t, prio) ==
    /\ MayCall(c, "set_priority") /\ Started
    /\ item_sch_tag' = [item_sch_tag EXCEPT ![t] = prio]
    /\ \/ /\ state[t] \in {"DELETED", "SUSPENDED"}
          /\ item_sch_q[t] = NULL
          /\ UNCHANGED <<item_sch_q, q_items>>
       \/ /\ state[t] = "READY"
          /\ IF item_sch_q[t] # NULL
             THEN /\ item_sch_q' = [item_sch_q EXCEPT ![t] = prio]
                  /\ q_items' = [sch_qitem_remove(t) EXCEPT
                                     ![prio] = sch_qitem_enq_fifo(@, t)]
             ELSE UNCHANGED <<item_sch_q, q_items>>
       \/ /\ state[t] = "BLOCKED"
          /\ IF item_sch_q[t] # NULL
             THEN q_items' = [sch_qitem_remove(t) EXCEPT ![item_sch_q[t]] =
                                 sch_qitem_enq_prio(@, t, item_sch_tag')]
             ELSE UNCHANGED q_items
          /\ UNCHANGED item_sch_q
    /\ UNCHANGED <<state, p_schinfo, delayVars, timeVars, schVars>>

-----------------------------------------------------------------------------
(* The heartbeat interrupt *)

\* Mutant: the delay queues keep their roles when the time stamp wraps.
TickNoSwap ==
    /\ handler = "none"
    /\ Started
    /\ timestamp' = (timestamp + 1) % UintMod
    /\ handler' = "heartbeat"
    /\ UNCHANGED <<state, p_schinfo, itemVars, delayVars, p_delayq_normal,
                   p_delayq_overflow, p_current, p_next, pending, cpu, ctx>>

\* The time stamp goes on; when it wraps the delay queues change roles, and
\* the normal queue must have been emptied.
heartbeat_tick ==
    /\ handler = "none"
    /\ Started
    /\ timestamp' = (timestamp + 1) % UintMod
    /\ IF timestamp' = 0
       THEN /\ p_delayq_normal' = p_delayq_overflow
            /\ p_delayq_overflow' = p_delayq_normal
       ELSE UNCHANGED <<p_delayq_normal, p_delayq_overflow>>
    /\ handler' = IF timestamp' = 0 /\ q_delay[p_delayq_normal] # <<>>
                  THEN "breakpoint"
                  ELSE "heartbeat"
    /\ UNCHANGED <<state, p_schinfo, itemVars, delayVars, p_current, p_next,
                   pending, cpu, ctx>>

\* Mutant: a thread is due one tick late.
DueLate == LET q == q_delay[p_delayq_normal]
           IN  q # <<>> /\ timestamp > item_delay_tag[Head(q)]

Due == LET q == q_delay[p_delayq_normal]
       IN  q # <<>> /\ timestamp >= item_delay_tag[Head(q)]

\* One iteration of the eviction loop.
heartbeat_evict ==
    /\ handler = "heartbeat"
    /\ Due
    /\ LET t == Head(q_delay[p_delayq_normal])
       IN  thd_ready(t) /\ q_items' = ReadyItems(t)
    /\ UNCHANGED <<timeVars, schVars>>

heartbeat_done ==
    /\ handler = "heartbeat"
    /\ ~Due
    /\ sch_set_next_thread(q_items)
    /\ pending' = (pending \/ p_current # p_next')
    /\ handler' = "none"
    /\ UNCHANGED <<state, item_sch_tag, item_sch_q, delayVars, p_schinfo,
                   timeVars, p_current, cpu, ctx>>

-----------------------------------------------------------------------------
(* Loading and unloading threads *)

os_start ==
    /\ p_current = NULL
    /\ sch_set_next_thread(q_items)
    /\ p_current' = p_next'
    /\ cpu' = ctx[p_next']
    /\ UNCHANGED <<state, item_sch_tag, item_sch_q, delayVars, p_schinfo,
                   timeVars, pending, ctx, handler>>

\* The request that sch_unload_current makes with interrupts enabled.
contextsw_req ==
    /\ handler = "none"
    /\ cpu \in {"unload", "exit"}
    /\ ~pending
    /\ pending' = TRUE
    /\ cpu' = IF cpu = "unload" THEN "resume" ELSE "gone"
    /\ UNCHANGED <<state, p_schinfo, itemVars, delayVars, timeVars, p_current,
                   p_next, ctx, handler>>

\* The portable context switcher, the interrupt of lowest priority: it saves
\* the CPU in the current control block and loads the next one.
context_switch ==
    /\ handler = "none"
    /\ pending
    /\ pending' = FALSE
    /\ ctx' = [ctx EXCEPT ![p_current] = cpu]
    /\ cpu' = ctx'[p_next]
    /\ p_current' = p_next
    /\ UNCHANGED <<state, p_schinfo, itemVars, delayVars, timeVars, p_next, handler>>

\* A loaded thread leaves sch_unload_current and the API function around it;
\* a deleted one "should not come back here".
unload_return ==
    /\ handler = "none"
    /\ cpu \in {"resume", "gone"}
    /\ ~pending
    /\ cpu' = "run"
    /\ handler' = IF cpu = "resume" /\ ResumeAsserts THEN "none" ELSE "breakpoint"
    /\ UNCHANGED <<state, p_schinfo, itemVars, delayVars, timeVars, p_current,
                   p_next, pending, ctx>>

-----------------------------------------------------------------------------
\* The scheduler's control block.
sch_init ==
    /\ q_delay = [q \in DelayQ |-> <<>>]
    /\ p_delayq_normal = "q_delay1"
    /\ p_delayq_overflow = "q_delay2"
    /\ timestamp = 0
    /\ p_current = NULL
    /\ p_next = NULL

\* os_init: only the idle thread exists, ready at the lowest priority.
Init ==
    /\ sch_init
    /\ state = [t \in Thread |-> IF t = Idle THEN "READY" ELSE "FREE"]
    /\ item_sch_tag = [t \in Thread |-> IF t = Idle THEN IdlePrio ELSE 0]
    /\ item_sch_q = [t \in Thread |-> IF t = Idle THEN IdlePrio ELSE NULL]
    /\ item_delay_tag = [t \in Thread |-> 0]
    /\ item_delay_q = [t \in Thread |-> NULL]
    /\ p_schinfo = [t \in Thread |-> FALSE]
    /\ q_items = [q \in SchQ |-> IF q = IdlePrio THEN <<Idle>> ELSE <<>>]
    /\ pending = FALSE
    /\ cpu = "run"
    /\ ctx = [t \in Thread |-> "run"]
    /\ handler = "none"

\* The calls of the application.  No caller has a handle of the idle thread.
CallNext ==
    \/ \E c \in Context, t \in Thread \ {Idle} :
          \/ \E prio \in Prio :
                \/ os_thread_create(c, t, prio)
                \/ thd_create_static(c, t, prio)
                \/ os_thread_set_priority(c, t, prio)
          \/ os_thread_delete(c, t)
          \/ thd_delete_static(c, t)
          \/ os_thread_suspend(c, t)
          \/ os_thread_resume(c, t)
    \/ \E c \in Context : os_thread_yield(c)
    \/ \E timeout \in Timeouts : os_thread_delay(timeout)

HeartbeatNext == heartbeat_tick \/ heartbeat_evict \/ heartbeat_done
SwitchNext == os_start \/ contextsw_req \/ context_switch \/ unload_return

Next == CallNext \/ HeartbeatNext \/ SwitchNext

Spec == Init /\ [][Next]_vars

-----------------------------------------------------------------------------
(* Safety *)

\* A thread is in the queue of K that owner names, once, and in no other.
Owned(q, owner, K) ==
    /\ \A k \in K : IsInjective(q[k])
    /\ \A k \in K, t \in Thread : t \in Range(q[k]) <=> owner[t] = k

\* What the queues hold and what the items record agree: sch_qitem_enq_fifo,
\* sch_qitem_enq_prio and sch_qitem_remove of thread.c keep both sides.
QueueOwnership ==
    Owned(q_items, item_sch_q, SchQ) /\ Owned(q_delay, item_delay_q, DelayQ)

\* A thread is queued where its state says: a ready thread in the ready queue of
\* its priority and with no timeout running, a blocked one where something will
\* ready it (a resource or a timeout), any other nowhere; only a blocked thread
\* has scheduling information (thd_ready, thd_block_current, os_thread_suspend,
\* os_thread_delete, os_thread_set_priority).
ThreadStateInv ==
    \A t \in Thread :
        /\ state[t] = "READY" =>
              item_sch_q[t] = item_sch_tag[t] /\ item_delay_q[t] = NULL
        /\ state[t] = "BLOCKED" =>
              /\ item_sch_q[t] \in WaitQ \cup {NULL}
              /\ item_sch_q[t] # NULL \/ item_delay_q[t] # NULL
        /\ state[t] \in {"SUSPENDED", "DELETED", "FREE"} =>
              item_sch_q[t] = NULL /\ item_delay_q[t] = NULL
        /\ state[t] # "BLOCKED" => ~p_schinfo[t]

\* The idle thread is ready at the lowest priority, so that there always is a
\* thread to run ("Idle thread missing", sch_set_next_thread).
IdleInv == state[Idle] = "READY" /\ item_sch_tag[Idle] = IdlePrio

\* A thread is chosen as soon as the kernel runs, and no switch happens before.
StartInv ==
    IF Started
    THEN p_next \in Thread
    ELSE p_next = NULL /\ ~pending /\ cpu = "run" /\ handler = "none"

\* s is in the order of its items' tags.
Sorted(s, tag) == \A i, j \in 1 .. Len(s) : i < j => tag[s[i]] <= tag[s[j]]

\* The delay queues are in the order of their wake-up times, which is what lets
\* the eviction loop stop at the first item that is not due.  The normal queue
\* holds the wake-ups before the time stamp wraps and the overflow queue those
\* behind it (sch_insert_delay, sch_handle_heartbeat).
DelayOrder ==
    /\ p_delayq_normal # p_delayq_overflow
    /\ \A q \in DelayQ : Sorted(q_delay[q], item_delay_tag)
    /\ \A t \in Range(q_delay[p_delayq_normal]) :
          \/ item_delay_tag[t] > timestamp
          \/ handler # "none" /\ item_delay_tag[t] = timestamp
    /\ \A t \in Range(q_delay[p_delayq_overflow]) : item_delay_tag[t] < timestamp

\* The scheduler never fails an assertion about itself: the normal delay queue
\* has been emptied when the time stamp wraps, a thread that returns from
\* sch_unload_current is ready, a deleted thread does not come back.
NoBreakpoint == handler # "breakpoint"

\* The thread whose own code is on the CPU is ready, queued and not timed: the
\* assertions on entry of thd_block_current.
RunningReady ==
    Started /\ cpu = "run" /\ ~pending /\ handler = "none" => ResumeAsserts

\* "A higher priority thread will always preempt one with a lower priority"
\* (README.md): no ready thread has a higher priority than the one that is
\* loaded or about to be, and if it is not loaded a switch is on its way.
RunsHighest ==
    Started /\ handler = "none" =>
        /\ \A t \in Thread :
              state[t] = "READY" => item_sch_tag[p_next] <= item_sch_tag[t]
        /\ p_current # p_next => pending \/ cpu \in {"unload", "exit"}

-----------------------------------------------------------------------------
(* Time *)

\* Ticks until the wake-up of a thread that is in a delay queue.
TicksLeft(t) ==
    IF item_delay_q[t] = p_delayq_normal
    THEN item_delay_tag[t] - timestamp
    ELSE UintMod + item_delay_tag[t] - timestamp

\* A delay of n ticks ends at the n-th heartbeat, neither before nor after it,
\* also when the time stamp wraps in between: it starts with n ticks left, a
\* heartbeat takes one, evicts a thread only when none is left, and does not
\* end while a thread with none left is still asleep.
TimeoutExact ==
    [][/\ \A t \in Thread :
             item_delay_q[t] # NULL =>
                /\ heartbeat_tick => TicksLeft(t)' = TicksLeft(t) - 1
                /\ heartbeat_evict /\ item_delay_q'[t] = NULL => TicksLeft(t) = 0
                /\ heartbeat_done => TicksLeft(t) > 0
       /\ \A n \in Timeouts : os_thread_delay(n) => TicksLeft(p_current)' = n]_vars

-----------------------------------------------------------------------------
(* Liveness.  The heartbeat timer runs, an interrupt service routine ends,  *)
(* and the code behind an enabled interrupt goes on.                        *)

Fairness ==
    /\ WF_vars(heartbeat_tick) /\ WF_vars(heartbeat_evict) /\ WF_vars(heartbeat_done)
    /\ SF_vars(context_switch) /\ SF_vars(contextsw_req) /\ SF_vars(unload_return)
    /\ WF_vars(os_start)

FairSpec == Spec /\ Fairness

\* A sleeping thread wakes up, whatever the application does
\* (sch_insert_delay, sch_handle_heartbeat).
DelayEnds ==
    \A t \in Thread : item_delay_q[t] # NULL ~> item_delay_q[t] = NULL

Runs(t) == p_current = t /\ cpu = "run" /\ ~pending

HasTopPriority(t) ==
    /\ state[t] = "READY"
    /\ \A u \in Thread : state[u] = "READY" => item_sch_tag[t] <= item_sch_tag[u]

\* No thread makes a call, and a context switch completes within the period of
\* the heartbeat.
ComputesOnly ==
    \/ heartbeat_tick /\ ~pending
    \/ heartbeat_evict
    \/ heartbeat_done
    \/ SwitchNext

\* "If multiple highest-priority threads with the same priority exist, the CPU
\* time will be shared between them" (README.md): whatever was called before,
\* once the threads only compute, each one that keeps the highest priority runs
\* again and again (the rotation in sch_set_next_thread).
SharesCpu ==
    <>[][ComputesOnly]_vars =>
        \A t \in Thread : <>[]HasTopPriority(t) => []<>Runs(t)
=============================================================================
