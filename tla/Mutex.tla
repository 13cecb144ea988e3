-------------------------------- MODULE Mutex --------------------------------
(***************************************************************************)
(* Recursive mutexes, source/mutex.c, on top of the scheduler.  A mutex is *)
(* the address of its control block and names its wait queue.              *)
(*                                                                         *)
(* os_mutex_unlock and mutex_delete_static ready threads in a loop with    *)
(* interrupts disabled: one action per iteration.                          *)
(***************************************************************************)
EXTENDS Scheduler

CONSTANTS MaxDepth   \* how often a mutex is locked by its owner

\* The local variables of the two loops.
Wake == [loop : {"unlock", "delete"}, mutex : WaitQ]

ASSUME MutexAssumption ==
    /\ NULL \notin Wake
    /\ MaxDepth \in 1 .. (UintMod - 1)
    /\ IsrCalls \cap {"mutex_lock", "mutex_lock_nb", "mutex_unlock", "mutex_peek"} = {}

VARIABLES
    mutex_live,  \* does a control block exist at this address
    lock_depth,  \* mutex_cblk_t.lock_depth
    p_owner,     \* mutex_cblk_t.p_owner
    wait_peek,   \* is the MUTEX_PEEK flag of a thread's mutex_schinfo_t set
    wake,        \* the loop that is running and its p_mutex
    held         \* held[m][t]: the locks of m t was granted and has not undone

mutexVars == <<mutex_live, lock_depth, p_owner, wait_peek, wake, held>>
allVars == <<vars, mutexVars>>

MutexTypeOK ==
    /\ TypeOK
    /\ mutex_live \in [WaitQ -> BOOLEAN]
    /\ lock_depth \in [WaitQ -> 0 .. (UintMod - 1)]
    /\ p_owner \in [WaitQ -> Thread \cup {NULL}]
    /\ wait_peek \in [Thread -> BOOLEAN]
    /\ wake \in Wake \cup {NULL}
    /\ held \in [WaitQ -> [Thread -> 0 .. MaxDepth]]
    /\ handler = "wake" <=> wake # NULL

MutexInit ==
    /\ Init
    /\ mutex_live = [m \in WaitQ |-> FALSE]
    /\ lock_depth = [m \in WaitQ |-> 0]
    /\ p_owner = [m \in WaitQ |-> NULL]
    /\ wait_peek = [t \in Thread |-> FALSE]
    /\ wake = NULL
    /\ held = [m \in WaitQ |-> [t \in Thread |-> 0]]

-----------------------------------------------------------------------------
\* mutex_init of a control block mpool_alloc has found, or of a static one.
os_mutex_create(c, m) ==
    /\ MayCall(c, "mutex_create")
    /\ ~mutex_live[m]
    /\ mutex_live' = [mutex_live EXCEPT ![m] = TRUE]
    /\ lock_depth' = [lock_depth EXCEPT ![m] = 0]
    /\ p_owner' = [p_owner EXCEPT ![m] = NULL]
    /\ q_items' = [q_items EXCEPT ![m] = <<>>]
    /\ UNCHANGED <<state, item_sch_tag, item_sch_q, delayVars, p_schinfo,
                   timeVars, schVars, wait_peek, wake, held>>

\* Mutant: the owner is not recognised.
OpenIfFree(m) == lock_depth[m] = 0

\* The condition under which a lock is granted at once.
Open(m) == lock_depth[m] = 0 \/ p_owner[m] = p_current

\* The current thread becomes the owner, or locks once more.
take(m) ==
    /\ p_owner' = [p_owner EXCEPT ![m] = p_current]
    /\ lock_depth' = [lock_depth EXCEPT ![m] = (@ + 1) % UintMod]
    /\ held' = [held EXCEPT ![m][p_current] = @ + 1]
    /\ UNCHANGED <<vars, mutex_live, wait_peek, wake>>

\* Block with fresh scheduling information on the thread's stack.
mutex_block(m, peek, timeout) ==
    /\ ~Open(m)
    /\ wait_peek' = [wait_peek EXCEPT ![p_current] = peek]
    /\ thd_block_current(m, TRUE, timeout)
    /\ UNCHANGED <<mutex_live, lock_depth, p_owner, wake, held>>

os_mutex_lock(m, timeout) ==
    /\ MayCall("thread", "mutex_lock")
    /\ mutex_live[m]
    /\ \/ Open(m) /\ lock_depth[m] < MaxDepth /\ take(m)
       \/ mutex_block(m, FALSE, timeout)

\* A mutex that is not open makes it fail, and changes nothing.
os_mutex_lock_nb(m) ==
    /\ MayCall("thread", "mutex_lock_nb")
    /\ mutex_live[m]
    /\ Open(m)
    /\ lock_depth[m] < MaxDepth
    /\ take(m)

\* An open mutex is only reported, and nothing changes.
os_mutex_peek(m, timeout) ==
    /\ MayCall("thread", "mutex_peek")
    /\ mutex_live[m]
    /\ mutex_block(m, TRUE, timeout)

-----------------------------------------------------------------------------
enter_loop(loop, m) ==
    /\ handler' = "wake"
    /\ wake' = [loop |-> loop, mutex |-> m]
    /\ UNCHANGED <<state, p_schinfo, itemVars, delayVars, timeVars, p_current,
                   p_next, pending, cpu, ctx, mutex_live, lock_depth, p_owner,
                   wait_peek>>

\* Mutant: whoever calls unlocks.
UnlockByAnyone(m) ==
    /\ MayCall("thread", "mutex_unlock")
    /\ mutex_live[m]
    /\ held' = [held EXCEPT ![m][p_current] = IF @ > 0 THEN @ - 1 ELSE 0]
    /\ \/ /\ lock_depth[m] > 1
          /\ lock_depth' = [lock_depth EXCEPT ![m] = @ - 1]
          /\ UNCHANGED <<vars, mutex_live, p_owner, wait_peek, wake>>
       \/ /\ lock_depth[m] = 1
          /\ enter_loop("unlock", m)

\* The owner undoes a lock; the last one starts the loop that passes the mutex
\* on.  A call by another thread changes nothing.
os_mutex_unlock(m) ==
    /\ MayCall("thread", "mutex_unlock")
    /\ mutex_live[m]
    /\ p_owner[m] = p_current
    /\ held' = [held EXCEPT ![m][p_current] = IF @ > 0 THEN @ - 1 ELSE 0]
    /\ \/ /\ lock_depth[m] > 1
          /\ lock_depth' = [lock_depth EXCEPT ![m] = @ - 1]
          /\ UNCHANGED <<vars, mutex_live, p_owner, wait_peek, wake>>
       \/ /\ lock_depth[m] = 1
          /\ enter_loop("unlock", m)

Waiters == q_items[wake.mutex]

leave_loop == handler' = "none" /\ wake' = NULL

\* Mutant: a waiter that peeks becomes the owner as well.
PassToAnyone ==
    LET t == Head(Waiters)
    IN  /\ p_owner' = [p_owner EXCEPT ![wake.mutex] = t]
        /\ held' = [held EXCEPT ![wake.mutex][t] = IF wait_peek[t] THEN @ ELSE @ + 1]
        /\ leave_loop

\* Mutant: everyone who waits is told that it owns the mutex.
PassToEveryone ==
    LET t == Head(Waiters)
    IN  /\ p_owner' = [p_owner EXCEPT ![wake.mutex] = t]
        /\ held' = [held EXCEPT ![wake.mutex][t] = @ + 1]
        /\ UNCHANGED <<handler, wake>>

\* The first waiter becomes the owner and ends the loop, unless it peeks.
pass_on ==
    LET t == Head(Waiters)
    IN  \/ /\ wait_peek[t]
           /\ UNCHANGED <<p_owner, held, handler, wake>>
        \/ /\ ~wait_peek[t]
           /\ p_owner' = [p_owner EXCEPT ![wake.mutex] = t]
           /\ held' = [held EXCEPT ![wake.mutex][t] = @ + 1]
           /\ leave_loop

\* One iteration with a waiter: it is readied, with success.
mutex_unlock_iterate ==
    /\ handler = "wake" /\ wake.loop = "unlock"
    /\ Waiters # <<>>
    /\ thd_ready(Head(Waiters))
    /\ sch_reschedule_req(ReadyItems(Head(Waiters)), item_sch_tag)
    /\ pass_on
    /\ UNCHANGED <<timeVars, p_current, cpu, ctx, mutex_live, lock_depth, wait_peek>>

\* The last iteration, if nobody is left to own the mutex.
mutex_unlock_free ==
    /\ handler = "wake" /\ wake.loop = "unlock"
    /\ Waiters = <<>>
    /\ lock_depth' = [lock_depth EXCEPT ![wake.mutex] = 0]
    /\ p_owner' = [p_owner EXCEPT ![wake.mutex] = NULL]
    /\ leave_loop
    /\ UNCHANGED <<state, p_schinfo, itemVars, delayVars, timeVars, p_current,
                   p_next, pending, cpu, ctx, mutex_live, wait_peek, held>>

\* Whoever holds the mutex holds nothing any more.
os_mutex_delete(c, m) ==
    /\ MayCall(c, "mutex_delete") /\ Started
    /\ mutex_live[m]
    /\ held' = [held EXCEPT ![m] = [t \in Thread |-> 0]]
    /\ enter_loop("delete", m)

\* One iteration of mutex_delete_static: the wait fails.
mutex_delete_iterate ==
    /\ handler = "wake" /\ wake.loop = "delete"
    /\ Waiters # <<>>
    /\ thd_ready(Head(Waiters))
    /\ q_items' = ReadyItems(Head(Waiters))
    /\ UNCHANGED <<timeVars, schVars, mutexVars>>

\* A reschedule request, and the control block is freed.
mutex_delete_done ==
    /\ handler = "wake" /\ wake.loop = "delete"
    /\ Waiters = <<>>
    /\ sch_reschedule_req(q_items, item_sch_tag)
    /\ mutex_live' = [mutex_live EXCEPT ![wake.mutex] = FALSE]
    /\ leave_loop
    /\ UNCHANGED <<state, item_sch_tag, item_sch_q, delayVars, p_schinfo, timeVars,
                   p_current, cpu, ctx, lock_depth, p_owner, wait_peek, held>>

-----------------------------------------------------------------------------
\* The scheduler knows of no mutexes: a thread that is deleted takes its locks
\* with it, and the mutex stays as it is.
SchedulerNext ==
    /\ Next
    /\ held' = [m \in WaitQ |-> [t \in Thread |-> IF Live(t)' THEN held[m][t] ELSE 0]]
    /\ UNCHANGED <<mutex_live, lock_depth, p_owner, wait_peek, wake>>

MutexCallNext ==
    \E m \in WaitQ :
        \/ \E c \in Context : os_mutex_create(c, m) \/ os_mutex_delete(c, m)
        \/ \E n \in Timeouts \cup {0} : os_mutex_lock(m, n) \/ os_mutex_peek(m, n)
        \/ os_mutex_lock_nb(m)
        \/ os_mutex_unlock(m)

MutexLoopNext ==
    \/ mutex_unlock_iterate
    \/ mutex_unlock_free
    \/ mutex_delete_iterate
    \/ mutex_delete_done

MutexNext == SchedulerNext \/ MutexCallNext \/ MutexLoopNext

MutexSpec == MutexInit /\ [][MutexNext]_allVars

-----------------------------------------------------------------------------
(* Safety *)

\* Mutual exclusion, as the threads see it: no two of them were granted a lock
\* by os_mutex_lock, os_mutex_lock_nb or the hand-over in os_mutex_unlock and
\* have not undone it, also while the mutex passes from one to the next.
MutexExclusive ==
    \A m \in WaitQ, t, u \in Thread : held[m][t] > 0 /\ held[m][u] > 0 => t = u

\* While no thread is deleted, the control block counts what the threads were
\* granted: a mutex that nobody holds is free, and the owner has as many locks to
\* undo as the depth says.
DepthCounts ==
    \A m \in WaitQ :
        mutex_live[m] /\ handler # "wake" =>
            IF p_owner[m] = NULL
            THEN lock_depth[m] = 0 /\ \A t \in Thread : held[m][t] = 0
            ELSE lock_depth[m] = held[m][p_owner[m]] /\ lock_depth[m] > 0

\* Nobody sleeps on a mutex that is free or gone, and nobody on one it owns: no
\* wake-up is lost and a thread does not wait for itself (os_mutex_unlock,
\* mutex_delete_static, os_mutex_lock).
NoSleepOnFree ==
    \A m \in WaitQ :
        q_items[m] # <<>> /\ handler # "wake" =>
            /\ mutex_live[m]
            /\ lock_depth[m] > 0
            /\ p_owner[m] \notin Range(q_items[m])

\* A mutex that is passed on goes to a thread that wants it and has the highest
\* priority of those that do, whatever threads peek and whatever priorities were
\* changed while they waited (os_mutex_unlock, os_thread_set_priority).
PassedToHighest ==
    [][\A m \in WaitQ :
          LET wanting == {t \in Range(q_items[m]) : ~wait_peek[t]}
          IN  p_owner[m] # NULL /\ p_owner'[m] \notin {NULL, p_owner[m]} =>
                 /\ p_owner'[m] \in wanting
                 /\ \A t \in wanting : item_sch_tag[p_owner'[m]] <= item_sch_tag[t]
      ]_allVars

-----------------------------------------------------------------------------
(* The abstract mutexes *)

LoopOf(loop, m) == handler = "wake" /\ wake.loop = loop /\ wake.mutex = m

\* The positions of a queue at which a thread waits to own the mutex.
Wanting(q, peek) == {i \in DOMAIN q : ~peek[q[i]]}

\* The threads that the unlock of a mutex with this queue readies: everyone up to
\* the first who becomes the owner.
Served(q, peek) ==
    {q[i] : i \in {j \in DOMAIN q : \A k \in Wanting(q, peek) : j <= k}}

\* The mutexes as they are once the running loop has ended.
Existing == {m \in WaitQ : mutex_live[m] /\ ~LoopOf("delete", m)}
Freeing(m) == LoopOf("unlock", m) /\ Wanting(q_items[m], wait_peek) = {}
Owner == [m \in WaitQ |->
             IF ~LoopOf("unlock", m) THEN p_owner[m]
             ELSE IF Freeing(m) THEN NULL
             ELSE q_items[m][Min(Wanting(q_items[m], wait_peek))]]
Depth == [m \in WaitQ |-> IF Freeing(m) THEN 0 ELSE lock_depth[m]]
Waiting == [m \in WaitQ |->
               CASE LoopOf("delete", m) -> {}
                 [] LoopOf("unlock", m) ->
                       Range(q_items[m]) \ Served(q_items[m], wait_peek)
                 [] OTHER -> Range(q_items[m])]

L == INSTANCE Locking WITH
        Mutex <- WaitQ,
        Nobody <- NULL,
        live <- Existing,
        owner <- Owner,
        depth <- Depth,
        waiting <- Waiting,
        peeks <- wait_peek,
        prio <- item_sch_tag

\* An unlock and a deletion are atomic, although they wake their waiters one by
\* one: the mutex passes from its owner straight to a thread that waits to own it
\* and has the highest priority of those, or it is free and nobody waits; whoever
\* peeks goes on and owns nothing (os_mutex_unlock, mutex_delete_static).
MutexLocks == L!LockingSpec
=============================================================================
