----------------------------- MODULE MutexProofs -----------------------------
(***************************************************************************)
(* Proofs about Mutex, for any number of threads, mutexes and priorities,  *)
(* any width of os_uint_t and any choice of calls, the deletion of owners  *)
(* and waiters included.  They build on the invariant of the scheduler.    *)
(***************************************************************************)
EXTENDS Mutex, SchedulerProofs

-----------------------------------------------------------------------------
(* The inductive invariant *)

Looping(m) == wake # NULL /\ wake.mutex = m

MutexTypes ==
    /\ mutex_live \in [WaitQ -> BOOLEAN]
    /\ lock_depth \in [WaitQ -> 0 .. MaxDepth]
    /\ p_owner \in [WaitQ -> Thread \cup {NULL}]
    /\ wait_peek \in [Thread -> BOOLEAN]
    /\ wake \in Wake \cup {NULL}
    /\ held \in [WaitQ -> [Thread -> 0 .. MaxDepth]]

\* A loop runs on a mutex that exists; the last lock of its old owner still
\* counts while the mutex is passed on.
LoopInv ==
    /\ handler = "wake" <=> wake # NULL
    /\ wake # NULL => /\ mutex_live[wake.mutex]
                      /\ wake.loop = "unlock" => lock_depth[wake.mutex] = 1

\* A thread that was granted locks of m is the owner, and they are counted.
\* Nobody holds a mutex that is being passed on or deleted.
HoldsRightly(t, m) ==
    /\ mutex_live[m]
    /\ p_owner[m] = t
    /\ held[m][t] <= lock_depth[m]
    /\ ~Looping(m)

HeldInv == \A m \in WaitQ, t \in Thread : held[m][t] > 0 => HoldsRightly(t, m)

\* What holds of a thread that is in the wait queue m.
WaitsRightly(t, m) == mutex_live[m] /\ lock_depth[m] > 0 /\ p_owner[m] # t

WaiterInv == \A t \in Thread : item_sch_q[t] \in WaitQ => WaitsRightly(t, item_sch_q[t])

MutexInv == Inv /\ AsleepOffCpu /\ MutexTypes /\ LoopInv /\ HeldInv /\ WaiterInv

LEMMA Depths == MaxDepth \in Nat /\ MaxDepth >= 1 /\ MaxDepth < UintMod /\ UintMod \in Nat
BY MutexAssumption, SchedulerAssumption

LEMMA MutexInvImplies == MutexInv => MutexTypeOK /\ MutexExclusive /\ NoSleepOnFree
<1>. SUFFICES ASSUME MutexInv PROVE MutexTypeOK /\ MutexExclusive /\ NoSleepOnFree
  OBVIOUS
<1>1. MutexTypeOK
  <2>1. 0 .. MaxDepth \subseteq 0 .. (UintMod - 1)
    BY Depths
  <2>. QED
    BY <2>1, InvImplies DEF MutexInv, MutexTypes, LoopInv, MutexTypeOK
<1>2. MutexExclusive
  BY DEF MutexInv, HeldInv, HoldsRightly, MutexExclusive
<1>3. ASSUME NEW m \in WaitQ, q_items[m] # <<>>
      PROVE  mutex_live[m] /\ lock_depth[m] > 0 /\ p_owner[m] \notin Range(q_items[m])
  <2>1. m \in SchQ /\ q_items[m] \in Seq(Thread)
    BY WaitQNames DEF MutexInv, Inv, ItemInv, Queues
  <2>2. \A t \in Range(q_items[m]) : t \in Thread /\ item_sch_q[t] = m
    <3>1. \A t \in Range(q_items[m]) : t \in Thread
      BY <2>1 DEF Range
    <3>. QED
      BY <2>1, <3>1 DEF MutexInv, Inv, ItemInv, Queues, Owned
  <2>3. Head(q_items[m]) \in Range(q_items[m])
    BY <1>3, <2>1 DEF Range
  <2>. QED
    BY <2>2, <2>3 DEF MutexInv, WaiterInv, WaitsRightly
<1>. QED
  BY <1>1, <1>2, <1>3 DEF NoSleepOnFree

LEMMA MutexInvInit == MutexInit => MutexInv
<1>. SUFFICES ASSUME MutexInit PROVE MutexInv
  OBVIOUS
<1>1. Inv
  BY InvInit DEF MutexInit
<1>2. MutexTypes
  BY Depths DEF MutexInit, MutexTypes
<1>3. LoopInv /\ HeldInv
  BY DEF MutexInit, Init, LoopInv, HeldInv
<1>4. WaiterInv
  BY WaitQNames, Constants DEF MutexInit, Init, WaiterInv
<1>5. AsleepOffCpu
  BY WaitQNames, Constants DEF MutexInit, Init, AsleepOffCpu
<1>. QED
  BY <1>1, <1>2, <1>3, <1>4, <1>5 DEF MutexInv

-----------------------------------------------------------------------------
(* The scheduler's steps *)

LEMMA SchedulerStep == MutexInv /\ SchedulerNext => MutexInv'
<1>. SUFFICES ASSUME MutexInv, SchedulerNext PROVE MutexInv'
  OBVIOUS
<1>1. Next /\ UNCHANGED <<mutex_live, lock_depth, p_owner, wait_peek, wake>>
  BY DEF SchedulerNext
<1>2. Inv' /\ AsleepOffCpu'
  BY <1>1, InvStep, NextAsleep DEF MutexInv
<1>3. KeepsWaiters /\ handler # "wake" /\ handler' # "wake"
  BY <1>1, NextKeeps DEF MutexInv
<1>4. /\ held' \in [WaitQ -> [Thread -> 0 .. MaxDepth]]
      /\ \A m \in WaitQ, t \in Thread : held'[m][t] \in {0, held[m][t]}
  BY Depths DEF MutexInv, MutexTypes, SchedulerNext
<1>5. MutexTypes' /\ LoopInv'
  BY <1>1, <1>3, <1>4 DEF MutexInv, MutexTypes, LoopInv
<1>6. HeldInv'
  BY <1>1, <1>4 DEF MutexInv, HeldInv, HoldsRightly, Looping
<1>7. WaiterInv'
  BY <1>1, <1>3 DEF MutexInv, WaiterInv, WaitsRightly, KeepsWaiters
<1>. QED
  BY <1>2, <1>5, <1>6, <1>7 DEF MutexInv

-----------------------------------------------------------------------------
(* The mutex's own steps *)

LEMMA MutexCreateStep ==
    ASSUME MutexInv, NEW c, NEW m \in WaitQ, os_mutex_create(c, m) PROVE MutexInv'
<1>1. /\ ~mutex_live[m] /\ handler = "none"
      /\ mutex_live' = [mutex_live EXCEPT ![m] = TRUE]
      /\ lock_depth' = [lock_depth EXCEPT ![m] = 0]
      /\ p_owner' = [p_owner EXCEPT ![m] = NULL]
      /\ q_items' = [q_items EXCEPT ![m] = <<>>]
      /\ UNCHANGED <<state, item_sch_tag, item_sch_q, delayVars, p_schinfo,
                     timeVars, schVars, wait_peek, wake, held>>
  BY DEF os_mutex_create, MayCall
<1>2. \A t \in Thread : item_sch_q[t] # m /\ ~(held[m][t] > 0)
  BY <1>1 DEF MutexInv, WaiterInv, WaitsRightly, HeldInv, HoldsRightly
<1>3. q_items[m] = <<>>
  <2>1. q_items[m] \in Seq(Thread) /\ m \in SchQ
    BY WaitQNames DEF MutexInv, Inv, ItemInv, Queues
  <2>2. \A t \in Thread : t \notin Range(q_items[m])
    BY <1>2, <2>1 DEF MutexInv, Inv, ItemInv, Queues, Owned
  <2>3. q_items[m] # <<>> => Head(q_items[m]) \in Thread /\ Head(q_items[m]) \in Range(q_items[m])
    BY <2>1 DEF Range
  <2>. QED
    BY <2>2, <2>3
<1>4. q_items' = q_items
  BY <1>1, <1>3 DEF MutexInv, Inv, ItemInv, Queues
<1>5. Inv' /\ AsleepOffCpu'
  BY <1>1, <1>4, InvStutter DEF MutexInv, AsleepOffCpu, vars, itemVars, schVars
<1>6. MutexTypes' /\ LoopInv'
  BY <1>1, Depths DEF MutexInv, MutexTypes, LoopInv, schVars
<1>7. HeldInv'
  BY <1>1, <1>2 DEF MutexInv, HeldInv, HoldsRightly, Looping, MutexTypes
<1>8. WaiterInv'
  BY <1>1, <1>2 DEF MutexInv, WaiterInv, WaitsRightly, MutexTypes
<1>. QED
  BY <1>5, <1>6, <1>7, <1>8 DEF MutexInv

\* A lock is granted: either nobody held m, or the owner locks once more.
LEMMA TakeStep ==
    ASSUME MutexInv, NEW m \in WaitQ, handler = "none", mutex_live[m],
           p_current \in Thread, cpu = "run", Open(m), lock_depth[m] < MaxDepth, take(m)
    PROVE  MutexInv'
<1>. DEFINE t == p_current
<1>1. /\ p_owner' = [p_owner EXCEPT ![m] = t]
      /\ lock_depth' = [lock_depth EXCEPT ![m] = (@ + 1) % UintMod]
      /\ held' = [held EXCEPT ![m][t] = @ + 1]
      /\ UNCHANGED <<vars, mutex_live, wait_peek, wake>>
  BY DEF take
<1>2. /\ lock_depth[m] \in 0 .. MaxDepth /\ lock_depth[m] + 1 \in 0 .. MaxDepth
      /\ lock_depth[m] + 1 \in 0 .. (UintMod - 1)
  BY Depths DEF MutexInv, MutexTypes
<1>3. (lock_depth[m] + 1) % UintMod = lock_depth[m] + 1
  BY <1>2, Depths
<1>4. lock_depth' = [lock_depth EXCEPT ![m] = lock_depth[m] + 1]
  BY <1>1, <1>3
<1>5. /\ held \in [WaitQ -> [Thread -> 0 .. MaxDepth]]
      /\ held'[m][t] = held[m][t] + 1
      /\ held[m][t] <= lock_depth[m]
      /\ \A n \in WaitQ, u \in Thread : n # m \/ u # t => held'[n][u] = held[n][u]
      /\ \A u \in Thread : u # t => held[m][u] = 0
  <2>1. held \in [WaitQ -> [Thread -> 0 .. MaxDepth]]
    BY DEF MutexInv, MutexTypes
  <2>2. \A n \in WaitQ, u \in Thread : held[n][u] \in 0 .. MaxDepth
    BY <2>1
  <2>3. \A u \in Thread : held[m][u] > 0 => p_owner[m] = u /\ held[m][u] <= lock_depth[m]
    BY DEF MutexInv, HeldInv, HoldsRightly
  <2>4. \A u \in Thread : u # t => held[m][u] = 0
    BY <1>2, <2>2, <2>3, Depths DEF Open
  <2>5. held[m][t] <= lock_depth[m]
    BY <1>2, <2>2, <2>3, Depths
  <2>. QED
    BY <1>1, <2>1, <2>4, <2>5
<1>6. held' \in [WaitQ -> [Thread -> 0 .. MaxDepth]]
  <2>1. held[m][t] + 1 \in 0 .. MaxDepth
    BY <1>2, <1>5, Depths
  <2>. QED
    BY <1>1, <1>5, <2>1
<1>7. wake = NULL
  BY DEF MutexInv, LoopInv
<1>8. Inv' /\ AsleepOffCpu' /\ handler' = handler /\ item_sch_q' = item_sch_q
  BY <1>1, InvStutter DEF MutexInv, AsleepOffCpu, vars, schVars, itemVars
<1>9. MutexTypes' /\ LoopInv'
  BY <1>1, <1>2, <1>4, <1>6, <1>7, <1>8 DEF MutexInv, MutexTypes, LoopInv
<1>10. HeldInv'
  <2>1. /\ lock_depth'[m] = lock_depth[m] + 1 /\ p_owner'[m] = t
        /\ mutex_live' = mutex_live /\ wake' = NULL
        /\ \A n \in WaitQ \ {m} : lock_depth'[n] = lock_depth[n] /\ p_owner'[n] = p_owner[n]
    BY <1>1, <1>4, <1>7 DEF MutexInv, MutexTypes
  <2>. SUFFICES ASSUME NEW n \in WaitQ, NEW u \in Thread, held'[n][u] > 0
                PROVE  HoldsRightly(u, n)'
    BY DEF HeldInv
  <2>2. CASE n = m
    <3>1. u = t
      BY <1>5, <2>2
    <3>2. held'[m][t] <= lock_depth'[m]
      BY <1>2, <1>5, <2>1, Depths
    <3>. QED
      BY <2>1, <2>2, <3>1, <3>2 DEF HoldsRightly, Looping
  <2>3. CASE n # m
    <3>1. HoldsRightly(u, n) /\ held'[n][u] = held[n][u]
      BY <1>5, <2>3 DEF MutexInv, HeldInv
    <3>. QED
      BY <2>1, <2>3, <3>1 DEF HoldsRightly, Looping
  <2>. QED
    BY <2>2, <2>3
<1>11. WaiterInv'
  <2>1. item_sch_q[t] \notin WaitQ
    BY DEF MutexInv, AsleepOffCpu
  <2>. QED
    BY <1>1, <1>2, <1>4, <1>8, <2>1 DEF MutexInv, MutexTypes, WaiterInv, WaitsRightly
<1>. QED
  BY <1>8, <1>9, <1>10, <1>11 DEF MutexInv

LEMMA MutexBlockStep ==
    ASSUME MutexInv, NEW m \in WaitQ, NEW peek \in BOOLEAN, NEW n \in Nat,
           p_current \in Thread \ {Idle}, handler = "none", mutex_live[m],
           mutex_block(m, peek, n)
    PROVE  MutexInv'
<1>1. /\ lock_depth[m] # 0 /\ p_owner[m] # p_current
      /\ wait_peek' = [wait_peek EXCEPT ![p_current] = peek]
      /\ thd_block_current(m, TRUE, n)
      /\ UNCHANGED <<mutex_live, lock_depth, p_owner, wake, held>>
  BY DEF mutex_block, Open
<1>2. m # NULL
  BY WaitQNames
<1>3. Inv' /\ AsleepOffCpu'
  BY <1>1, <1>2, BlockStep, AsleepBlock DEF MutexInv
<1>4. item_sch_q' = [item_sch_q EXCEPT ![p_current] = m] /\ handler' = handler
  BY <1>1 DEF thd_block_current
<1>5. MutexTypes' /\ LoopInv'
  BY <1>1, <1>4 DEF MutexInv, MutexTypes, LoopInv
<1>6. HeldInv'
  BY <1>1 DEF MutexInv, HeldInv, HoldsRightly, Looping
<1>7. lock_depth[m] > 0
  BY <1>1, Depths DEF MutexInv, MutexTypes
<1>8. WaiterInv'
  BY <1>1, <1>4, <1>7 DEF MutexInv, Inv, ThreadInv, WaiterInv, WaitsRightly
<1>. QED
  BY <1>3, <1>5, <1>6, <1>8 DEF MutexInv

\* A loop begins on m, which nobody holds any more.
LEMMA EnterStep ==
    ASSUME MutexInv, NEW m \in WaitQ, NEW loop \in {"unlock", "delete"},
           handler = "none", Started, mutex_live[m],
           loop = "unlock" => lock_depth[m] = 1, enter_loop(loop, m),
           held' \in [WaitQ -> [Thread -> 0 .. MaxDepth]],
           \A t \in Thread : held'[m][t] = 0,
           \A n \in WaitQ \ {m}, t \in Thread : held'[n][t] = held[n][t]
    PROVE  MutexInv'
<1>1. /\ handler' = "wake"
      /\ wake' = [loop |-> loop, mutex |-> m]
      /\ UNCHANGED <<state, p_schinfo, itemVars, delayVars, timeVars, p_current,
                     p_next, pending, cpu, ctx, mutex_live, lock_depth, p_owner,
                     wait_peek>>
  BY DEF enter_loop
<1>2. ItemInv' /\ DelayInv' /\ ThreadInv'
  BY <1>1 DEF MutexInv, Inv, ItemInv, DelayInv, ThreadInv, ThreadStateInv, IdleInv,
     itemVars, delayVars
<1>3. KernelInv'
  BY <1>1 DEF MutexInv, Inv, KernelInv, StartInv, Started, HandlerName, timeVars
<1>4. wake' \in Wake /\ wake' # NULL /\ wake'.mutex = m /\ wake'.loop = loop
  BY <1>1, MutexAssumption DEF Wake
<1>5. MutexTypes' /\ LoopInv'
  BY <1>1, <1>4 DEF MutexInv, MutexTypes, LoopInv
<1>6. wake = NULL
  BY DEF MutexInv, LoopInv
<1>7. HeldInv'
  BY <1>1, <1>4, <1>6 DEF MutexInv, HeldInv, HoldsRightly, Looping
<1>8. WaiterInv' /\ AsleepOffCpu'
  BY <1>1 DEF MutexInv, WaiterInv, WaitsRightly, AsleepOffCpu, itemVars
<1>. QED
  BY <1>2, <1>3, <1>5, <1>7, <1>8 DEF MutexInv, Inv

LEMMA UnlockStep ==
    ASSUME MutexInv, NEW m \in WaitQ, os_mutex_unlock(m) PROVE MutexInv'
<1>. DEFINE t == p_current
            left == IF held[m][t] > 0 THEN held[m][t] - 1 ELSE 0
<1>1. /\ mutex_live[m] /\ p_owner[m] = t /\ handler = "none" /\ Started
      /\ held' = [held EXCEPT ![m][t] = left]
      /\ t \in Thread
  <2>1. MayCall("thread", "mutex_unlock")
    BY DEF os_mutex_unlock
  <2>2. t \in Thread
    BY <2>1, CallingThread DEF MutexInv
  <2>. QED
    BY <2>1, <2>2, Constants DEF os_mutex_unlock, MayCall, Started
<1>2. /\ held \in [WaitQ -> [Thread -> 0 .. MaxDepth]]
      /\ lock_depth[m] \in 0 .. MaxDepth
      /\ held[m][t] \in 0 .. MaxDepth
  BY <1>1 DEF MutexInv, MutexTypes
<1>3. left \in 0 .. MaxDepth /\ (left > 0 => left <= lock_depth[m] - 1)
  BY <1>1, <1>2, Depths DEF MutexInv, HeldInv, HoldsRightly
<1>4. \A u \in Thread : u # t => held[m][u] = 0
  <2>1. \A u \in Thread : held[m][u] \in 0 .. MaxDepth
    BY <1>2
  <2>. QED
    BY <1>1, <2>1, Depths DEF MutexInv, HeldInv, HoldsRightly
<1>. HIDE DEF left
<1>5. /\ held' \in [WaitQ -> [Thread -> 0 .. MaxDepth]]
      /\ held'[m][t] = left
      /\ \A n \in WaitQ, u \in Thread : n # m \/ u # t => held'[n][u] = held[n][u]
  BY <1>1, <1>2, <1>3
<1>6. CASE /\ lock_depth[m] > 1
           /\ lock_depth' = [lock_depth EXCEPT ![m] = @ - 1]
           /\ UNCHANGED <<vars, mutex_live, p_owner, wait_peek, wake>>
  <2>1. Inv' /\ AsleepOffCpu' /\ handler' = handler /\ item_sch_q' = item_sch_q
    BY <1>6, InvStutter DEF MutexInv, AsleepOffCpu, vars, schVars, itemVars
  <2>2. wake = NULL
    BY <1>1 DEF MutexInv, LoopInv
  <2>3. lock_depth[m] - 1 \in 0 .. MaxDepth /\ lock_depth[m] - 1 > 0
    BY <1>2, <1>6, Depths
  <2>4. MutexTypes' /\ LoopInv'
    BY <1>5, <1>6, <2>1, <2>2, <2>3 DEF MutexInv, MutexTypes, LoopInv
  <2>5. HeldInv'
    BY <1>1, <1>3, <1>4, <1>5, <1>6, <2>2
    DEF MutexInv, MutexTypes, HeldInv, HoldsRightly, Looping
  <2>6. WaiterInv'
    BY <1>6, <2>1, <2>3 DEF MutexInv, MutexTypes, WaiterInv, WaitsRightly
  <2>. QED
    BY <2>1, <2>4, <2>5, <2>6 DEF MutexInv
<1>7. CASE lock_depth[m] = 1 /\ enter_loop("unlock", m)
  <2>1. left = 0
    BY <1>3, <1>7, Depths
  <2>2. \A u \in Thread : held'[m][u] = 0
    BY <1>4, <1>5, <2>1
  <2>. QED
    BY <1>1, <1>5, <1>7, <2>2, EnterStep
<1>. QED
  BY <1>6, <1>7 DEF os_mutex_unlock

LEMMA MutexDeleteStep ==
    ASSUME MutexInv, NEW c, NEW m \in WaitQ, os_mutex_delete(c, m) PROVE MutexInv'
<1>1. /\ handler = "none" /\ Started /\ mutex_live[m]
      /\ held' = [held EXCEPT ![m] = [t \in Thread |-> 0]]
      /\ enter_loop("delete", m)
  BY DEF os_mutex_delete, MayCall
<1>2. held' \in [WaitQ -> [Thread -> 0 .. MaxDepth]]
  BY <1>1, Depths DEF MutexInv, MutexTypes
<1>3. /\ \A t \in Thread : held'[m][t] = 0
      /\ \A n \in WaitQ \ {m}, t \in Thread : held'[n][t] = held[n][t]
  BY <1>1 DEF MutexInv, MutexTypes
<1>. QED
  BY <1>1, <1>2, <1>3, EnterStep

\* What holds while a loop runs.
LEMMA LoopFacts ==
    ASSUME MutexInv, handler = "wake"
    PROVE  /\ wake \in Wake /\ wake # NULL /\ wake.mutex \in WaitQ
           /\ \A t \in Thread : held[wake.mutex][t] = 0
           /\ Started /\ p_current \in Thread /\ p_next \in Thread /\ pending \in BOOLEAN
           /\ Waiters # <<>> => Head(Waiters) \in Thread
<1>1. wake \in Wake /\ wake # NULL /\ wake.mutex \in WaitQ
  BY DEF MutexInv, MutexTypes, LoopInv, Wake
<1>2. \A t \in Thread : held[wake.mutex][t] = 0
  <2>1. \A t \in Thread : held[wake.mutex][t] \in 0 .. MaxDepth
    BY <1>1 DEF MutexInv, MutexTypes
  <2>. QED
    BY <1>1, <2>1, Depths DEF MutexInv, HeldInv, HoldsRightly, Looping
<1>3. Started /\ p_current \in Thread /\ p_next \in Thread /\ pending \in BOOLEAN
  BY DEF MutexInv, Inv, KernelInv, StartInv, Started
<1>4. Waiters # <<>> => Head(Waiters) \in Thread
  BY <1>1, WaitQNames DEF MutexInv, Inv, ItemInv, Queues, Waiters
<1>. QED
  BY <1>1, <1>2, <1>3, <1>4

LEMMA UnlockIterateStep == MutexInv /\ mutex_unlock_iterate => MutexInv'
<1>. SUFFICES ASSUME MutexInv, mutex_unlock_iterate PROVE MutexInv'
  OBVIOUS
<1>. DEFINE t == Head(Waiters)
            m == wake.mutex
<1>1. /\ handler = "wake" /\ wake.loop = "unlock" /\ Waiters # <<>>
      /\ thd_ready(t)
      /\ sch_reschedule_req(ReadyItems(t), item_sch_tag)
      /\ pass_on
      /\ UNCHANGED <<timeVars, p_current, cpu, ctx, mutex_live, lock_depth, wait_peek>>
  BY DEF mutex_unlock_iterate
<1>2. /\ wake \in Wake /\ wake # NULL /\ m \in WaitQ
      /\ \A u \in Thread : held[m][u] = 0
      /\ Started /\ p_current \in Thread /\ p_next \in Thread /\ pending \in BOOLEAN
      /\ t \in Thread
  BY <1>1, LoopFacts
<1>3. mutex_live[m] /\ lock_depth[m] = 1
  BY <1>1, <1>2 DEF MutexInv, LoopInv
<1>4. /\ Queues(ReadyItems(t), item_sch_q', SchQ) /\ item_sch_q'[Idle] = IdlePrio
      /\ DelayInv' /\ ThreadInv'
  BY <1>1, <1>2, ReadyQueues DEF MutexInv, Inv
<1>5. Queues(q_items', item_sch_q', SchQ) /\ p_next' \in Thread /\ pending' \in BOOLEAN
  BY <1>1, <1>2, <1>4, RescheduleReq
<1>6. ItemInv'
  BY <1>5 DEF ItemInv
<1>7. handler' \in {"wake", "none"}
  BY <1>1 DEF pass_on, leave_loop
<1>8. KernelInv'
  BY <1>1, <1>2, <1>5, <1>7, Constants
  DEF MutexInv, Inv, KernelInv, StartInv, Started, HandlerName, timeVars
<1>9. KeepsWaiters /\ AsleepOffCpu'
  <2>1. KeepsWaiters
    BY <1>1, <1>2, ReadyKeeps DEF MutexInv
  <2>. QED
    BY <1>1, <2>1, AsleepStays DEF MutexInv
<1>10. item_sch_q'[t] \notin WaitQ
  BY <1>1, <1>2, WaitQNames DEF thd_ready, MutexInv, Inv, ThreadInv
<1>. HIDE DEF t, m
<1>11. CASE UNCHANGED <<p_owner, held, handler, wake>>
  <2>1. MutexTypes' /\ LoopInv'
    BY <1>1, <1>11 DEF MutexInv, MutexTypes, LoopInv
  <2>2. HeldInv'
    BY <1>1, <1>11 DEF MutexInv, HeldInv, HoldsRightly, Looping
  <2>3. WaiterInv'
    BY <1>1, <1>9, <1>11 DEF MutexInv, WaiterInv, WaitsRightly, KeepsWaiters
  <2>. QED
    BY <1>4, <1>6, <1>8, <1>9, <2>1, <2>2, <2>3 DEF MutexInv, Inv
<1>12. CASE /\ p_owner' = [p_owner EXCEPT ![m] = t]
            /\ held' = [held EXCEPT ![m][t] = @ + 1]
            /\ leave_loop
  <2>1. handler' = "none" /\ wake' = NULL
    BY <1>12 DEF leave_loop
  <2>2. held \in [WaitQ -> [Thread -> 0 .. MaxDepth]]
    BY DEF MutexInv, MutexTypes
  <2>3. held[m][t] = 0 /\ held[m][t] + 1 \in 0 .. MaxDepth
    BY <1>2, Depths
  <2>4. /\ held' \in [WaitQ -> [Thread -> 0 .. MaxDepth]]
        /\ held'[m][t] = 1
        /\ \A n \in WaitQ, u \in Thread : n # m \/ u # t => held'[n][u] = held[n][u]
    BY <1>2, <1>12, <2>2, <2>3
  <2>5. MutexTypes' /\ LoopInv'
    BY <1>1, <1>2, <1>12, <2>1, <2>4 DEF MutexInv, MutexTypes, LoopInv
  <2>6. HeldInv'
    <3>. SUFFICES ASSUME NEW n \in WaitQ, NEW u \in Thread, held'[n][u] > 0
                  PROVE  HoldsRightly(u, n)'
      BY DEF HeldInv
    <3>1. CASE n = m
      <4>1. u = t
        BY <1>2, <2>4, <3>1
      <4>. QED
        BY <1>1, <1>2, <1>3, <1>12, <2>1, <2>4, <3>1, <4>1
        DEF HoldsRightly, Looping, MutexInv, MutexTypes
    <3>2. CASE n # m
      BY <1>1, <1>2, <1>12, <2>1, <2>4, <3>2
      DEF HoldsRightly, Looping, MutexInv, MutexTypes, HeldInv
    <3>. QED
      BY <3>1, <3>2
  <2>7. WaiterInv'
    BY <1>1, <1>2, <1>9, <1>10, <1>12
    DEF MutexInv, MutexTypes, WaiterInv, WaitsRightly, KeepsWaiters
  <2>. QED
    BY <1>4, <1>6, <1>8, <1>9, <2>5, <2>6, <2>7 DEF MutexInv, Inv
<1>. QED
  BY <1>1, <1>11, <1>12 DEF pass_on, t, m

LEMMA UnlockFreeStep == MutexInv /\ mutex_unlock_free => MutexInv'
<1>. SUFFICES ASSUME MutexInv, mutex_unlock_free PROVE MutexInv'
  OBVIOUS
<1>. DEFINE m == wake.mutex
<1>1. /\ handler = "wake" /\ Waiters = <<>>
      /\ lock_depth' = [lock_depth EXCEPT ![m] = 0]
      /\ p_owner' = [p_owner EXCEPT ![m] = NULL]
      /\ handler' = "none" /\ wake' = NULL
      /\ UNCHANGED <<state, p_schinfo, itemVars, delayVars, timeVars, p_current,
                     p_next, pending, cpu, ctx, mutex_live, wait_peek, held>>
  BY DEF mutex_unlock_free, leave_loop
<1>2. wake # NULL /\ m \in WaitQ /\ Started /\ \A t \in Thread : held[m][t] = 0
  BY <1>1, LoopFacts
<1>3. ItemInv' /\ DelayInv' /\ ThreadInv'
  BY <1>1 DEF MutexInv, Inv, ItemInv, DelayInv, ThreadInv, ThreadStateInv, IdleInv,
     itemVars, delayVars
<1>4. KernelInv'
  BY <1>1, <1>2 DEF MutexInv, Inv, KernelInv, StartInv, Started, HandlerName, timeVars
<1>5. MutexTypes' /\ LoopInv'
  BY <1>1, <1>2, Depths DEF MutexInv, MutexTypes, LoopInv
<1>6. HeldInv'
  BY <1>1, <1>2 DEF MutexInv, MutexTypes, HeldInv, HoldsRightly, Looping
<1>7. \A t \in Thread : item_sch_q[t] # m
  <2>1. \A t \in Thread : t \notin Range(q_items[m])
    BY <1>1 DEF Waiters, Range
  <2>. QED
    BY <1>2, <2>1, WaitQNames DEF MutexInv, Inv, ItemInv, Queues, Owned
<1>8. WaiterInv' /\ AsleepOffCpu'
  BY <1>1, <1>2, <1>7
  DEF MutexInv, MutexTypes, WaiterInv, WaitsRightly, AsleepOffCpu, itemVars
<1>. QED
  BY <1>3, <1>4, <1>5, <1>6, <1>8 DEF MutexInv, Inv

LEMMA DeleteIterateStep == MutexInv /\ mutex_delete_iterate => MutexInv'
<1>. SUFFICES ASSUME MutexInv, mutex_delete_iterate PROVE MutexInv'
  OBVIOUS
<1>1. /\ handler = "wake" /\ thd_ready(Head(Waiters)) /\ Head(Waiters) \in Thread
      /\ q_items' = ReadyItems(Head(Waiters))
      /\ UNCHANGED <<timeVars, schVars, mutexVars>>
  BY LoopFacts DEF mutex_delete_iterate
<1>2. ItemInv' /\ DelayInv' /\ ThreadInv'
  BY <1>1, ReadyStep DEF MutexInv, Inv
<1>3. KernelInv'
  BY <1>1 DEF MutexInv, Inv, KernelInv, StartInv, Started, timeVars, schVars
<1>4. MutexTypes' /\ LoopInv' /\ HeldInv'
  BY <1>1 DEF MutexInv, MutexTypes, LoopInv, HeldInv, HoldsRightly, Looping, mutexVars,
     schVars
<1>5. KeepsWaiters /\ AsleepOffCpu'
  <2>1. KeepsWaiters
    BY <1>1, ReadyKeeps DEF MutexInv
  <2>. QED
    BY <1>1, <2>1, AsleepStays DEF MutexInv, schVars
<1>6. WaiterInv'
  BY <1>1, <1>5 DEF MutexInv, WaiterInv, WaitsRightly, KeepsWaiters, mutexVars
<1>. QED
  BY <1>2, <1>3, <1>4, <1>5, <1>6 DEF MutexInv, Inv

LEMMA DeleteDoneStep == MutexInv /\ mutex_delete_done => MutexInv'
<1>. SUFFICES ASSUME MutexInv, mutex_delete_done PROVE MutexInv'
  OBVIOUS
<1>. DEFINE m == wake.mutex
<1>1. /\ handler = "wake" /\ Waiters = <<>>
      /\ sch_reschedule_req(q_items, item_sch_tag)
      /\ mutex_live' = [mutex_live EXCEPT ![m] = FALSE]
      /\ handler' = "none" /\ wake' = NULL
      /\ UNCHANGED <<state, item_sch_tag, item_sch_q, delayVars, p_schinfo, timeVars,
                     p_current, cpu, ctx, lock_depth, p_owner, wait_peek, held>>
  BY DEF mutex_delete_done, leave_loop
<1>2. /\ wake # NULL /\ m \in WaitQ /\ Started /\ \A t \in Thread : held[m][t] = 0
      /\ p_current \in Thread /\ p_next \in Thread /\ pending \in BOOLEAN
  BY <1>1, LoopFacts
<1>3. Queues(q_items, item_sch_q, SchQ) /\ item_sch_q[Idle] = IdlePrio
  BY IdleQueued DEF MutexInv, Inv, ItemInv
<1>4. Queues(q_items', item_sch_q, SchQ) /\ p_next' \in Thread /\ pending' \in BOOLEAN
  BY <1>1, <1>2, <1>3, RescheduleReq
<1>5. ItemInv' /\ DelayInv' /\ ThreadInv'
  BY <1>1, <1>4 DEF MutexInv, Inv, ItemInv, DelayInv, ThreadInv, ThreadStateInv, IdleInv,
     delayVars
<1>6. KernelInv'
  BY <1>1, <1>2, <1>4, Constants
  DEF MutexInv, Inv, KernelInv, StartInv, Started, HandlerName, timeVars
<1>7. MutexTypes' /\ LoopInv'
  BY <1>1, <1>2 DEF MutexInv, MutexTypes, LoopInv
<1>8. HeldInv'
  BY <1>1, <1>2 DEF MutexInv, MutexTypes, HeldInv, HoldsRightly, Looping
<1>9. \A t \in Thread : item_sch_q[t] # m
  <2>1. \A t \in Thread : t \notin Range(q_items[m])
    BY <1>1 DEF Waiters, Range
  <2>. QED
    BY <1>2, <1>3, <2>1, WaitQNames DEF Queues, Owned
<1>10. WaiterInv' /\ AsleepOffCpu'
  BY <1>1, <1>2, <1>9 DEF MutexInv, MutexTypes, WaiterInv, WaitsRightly, AsleepOffCpu
<1>. QED
  BY <1>5, <1>6, <1>7, <1>8, <1>10 DEF MutexInv, Inv

LEMMA MutexCallStep == MutexInv /\ MutexCallNext => MutexInv'
<1>. SUFFICES ASSUME MutexInv, NEW m \in WaitQ,
                     \/ \E c \in Context : os_mutex_create(c, m) \/ os_mutex_delete(c, m)
                     \/ \E n \in Timeouts \cup {0} :
                           os_mutex_lock(m, n) \/ os_mutex_peek(m, n)
                     \/ os_mutex_lock_nb(m)
                     \/ os_mutex_unlock(m)
              PROVE  MutexInv'
  BY DEF MutexCallNext
<1>1. ASSUME NEW api, MayCall("thread", api), mutex_live[m],
             \/ Open(m) /\ lock_depth[m] < MaxDepth /\ take(m)
             \/ \E peek \in BOOLEAN, n \in Timeouts \cup {0} : mutex_block(m, peek, n)
      PROVE  MutexInv'
  <2>1. p_current \in Thread \ {Idle}
    BY <1>1, CallingThread DEF MutexInv
  <2>2. handler = "none" /\ cpu = "run"
    BY <1>1 DEF MayCall
  <2>3. Timeouts \cup {0} \subseteq Nat
    BY SchedulerAssumption
  <2>. QED
    BY <1>1, <2>1, <2>2, <2>3, TakeStep, MutexBlockStep
<1>2. ASSUME NEW n \in Timeouts \cup {0}, os_mutex_lock(m, n) \/ os_mutex_peek(m, n)
      PROVE  MutexInv'
  BY <1>1, <1>2 DEF os_mutex_lock, os_mutex_peek
<1>3. CASE os_mutex_lock_nb(m)
  BY <1>1, <1>3 DEF os_mutex_lock_nb
<1>. QED
  BY <1>2, <1>3, MutexCreateStep, MutexDeleteStep, UnlockStep

LEMMA MutexInvStep == MutexInv /\ [MutexNext]_allVars => MutexInv'
<1>. SUFFICES ASSUME MutexInv, [MutexNext]_allVars PROVE MutexInv'
  OBVIOUS
<1>1. CASE SchedulerNext
  BY <1>1, SchedulerStep
<1>2. CASE MutexCallNext
  BY <1>2, MutexCallStep
<1>3. CASE MutexLoopNext
  BY <1>3, UnlockIterateStep, UnlockFreeStep, DeleteIterateStep, DeleteDoneStep
  DEF MutexLoopNext
<1>4. CASE UNCHANGED allVars
  <2>1. Inv'
    BY <1>4, InvStutter DEF MutexInv, allVars
  <2>2. /\ UNCHANGED <<mutex_live, lock_depth, p_owner, wait_peek, wake, held>>
        /\ UNCHANGED <<handler, item_sch_q, p_current, cpu, ctx>>
    BY <1>4 DEF allVars, mutexVars, vars, schVars, itemVars
  <2>3. AsleepOffCpu' /\ MutexTypes' /\ LoopInv'
    BY <2>2 DEF MutexInv, AsleepOffCpu, MutexTypes, LoopInv
  <2>4. HeldInv' /\ WaiterInv'
    BY <2>2 DEF MutexInv, HeldInv, HoldsRightly, Looping, WaiterInv, WaitsRightly
  <2>. QED
    BY <2>1, <2>3, <2>4 DEF MutexInv
<1>. QED
  BY <1>1, <1>2, <1>3, <1>4 DEF MutexNext

-----------------------------------------------------------------------------
(* The theorems *)

\* Depths stay within the bound on recursion, and the variables of a loop are
\* there exactly while it runs.
THEOREM MutexTypeCorrect == MutexSpec => []MutexTypeOK
BY MutexInvInit, MutexInvStep, MutexInvImplies, PTL DEF MutexSpec

\* Mutual exclusion, for any threads and any calls: no two threads hold locks of
\* a mutex that they were granted and have not undone.
THEOREM MutualExclusion == MutexSpec => []MutexExclusive
BY MutexInvInit, MutexInvStep, MutexInvImplies, PTL DEF MutexSpec

\* No wake-up is lost and nobody waits for itself: who sleeps on a mutex sleeps
\* on one that exists, is locked, and is owned by somebody else.
THEOREM NoLostWakeup == MutexSpec => []NoSleepOnFree
BY MutexInvInit, MutexInvStep, MutexInvImplies, PTL DEF MutexSpec

-----------------------------------------------------------------------------
(* Passing a mutex on *)

\* A mutex that is not locked has no owner, and one that is has an owner.
FreeInv == \A m \in WaitQ : lock_depth[m] = 0 <=> p_owner[m] = NULL

PassInv == WaitersByPriority /\ FreeInv

LEMMA PassInit == MutexInit => PassInv
<1>. SUFFICES ASSUME MutexInit PROVE PassInv
  OBVIOUS
<1>1. ASSUME NEW m \in WaitQ PROVE Sorted(q_items[m], item_sch_tag)
  <2>1. q_items[m] = <<>>
    BY WaitQNames, Constants DEF MutexInit, Init
  <2>. QED
    BY <2>1 DEF Sorted
<1>2. FreeInv
  BY DEF MutexInit, FreeInv
<1>. QED
  BY <1>1, <1>2 DEF PassInv, WaitersByPriority

LEMMA PassKept ==
    ASSUME PassInv, UNCHANGED <<q_items, item_sch_tag>>, FreeInv' PROVE PassInv'
BY DEF PassInv, WaitersByPriority

\* A call grants a lock, takes one back, or makes its caller wait.
LEMMA PassCall == MutexInv /\ PassInv /\ MutexCallNext => PassInv'
<1>. SUFFICES ASSUME MutexInv, PassInv, NEW m \in WaitQ,
                     \/ \E c \in Context : os_mutex_create(c, m) \/ os_mutex_delete(c, m)
                     \/ \E n \in Timeouts \cup {0} :
                           os_mutex_lock(m, n) \/ os_mutex_peek(m, n)
                     \/ os_mutex_lock_nb(m)
                     \/ os_mutex_unlock(m)
              PROVE  PassInv'
  BY DEF MutexCallNext
<1>1. lock_depth[m] \in 0 .. MaxDepth
  BY DEF MutexInv, MutexTypes
<1>2. ASSUME NEW c \in Context, os_mutex_create(c, m) PROVE PassInv'
  <2>1. /\ q_items' = [q_items EXCEPT ![m] = <<>>]
        /\ item_sch_tag' = item_sch_tag
        /\ lock_depth' = [lock_depth EXCEPT ![m] = 0]
        /\ p_owner' = [p_owner EXCEPT ![m] = NULL]
    BY <1>2 DEF os_mutex_create
  <2>2. FreeInv'
    BY <2>1 DEF MutexInv, MutexTypes, PassInv, FreeInv
  <2>3. q_items'[m] = <<>> /\ \A n \in WaitQ \ {m} : q_items'[n] = q_items[n]
    BY <2>1, WaitQNames DEF MutexInv, Inv, ItemInv, Queues
  <2>4. ASSUME NEW n \in WaitQ PROVE Sorted(q_items'[n], item_sch_tag')
    BY <2>1, <2>3 DEF PassInv, WaitersByPriority, Sorted
  <2>. QED
    BY <2>2, <2>4 DEF PassInv, WaitersByPriority
<1>3. ASSUME NEW api, MayCall("thread", api),
             lock_depth[m] < MaxDepth /\ take(m)
      PROVE  PassInv'
  <2>1. /\ p_owner' = [p_owner EXCEPT ![m] = p_current]
        /\ lock_depth' = [lock_depth EXCEPT ![m] = (@ + 1) % UintMod]
        /\ UNCHANGED <<q_items, item_sch_tag>>
    BY <1>3 DEF take, vars, itemVars
  <2>2. (lock_depth[m] + 1) % UintMod = lock_depth[m] + 1 /\ lock_depth[m] + 1 # 0
    BY <1>1, <1>3, Depths
  <2>3. p_current # NULL
    BY <1>3, CallingThread, Constants DEF MutexInv
  <2>4. FreeInv'
    BY <2>1, <2>2, <2>3 DEF MutexInv, MutexTypes, PassInv, FreeInv
  <2>. QED
    BY <2>1, <2>4, PassKept
<1>4. ASSUME NEW api, MayCall("thread", api), NEW peek, NEW n, mutex_block(m, peek, n)
      PROVE  PassInv'
  <2>1. p_current \in Thread \ {Idle}
    BY <1>4, CallingThread DEF MutexInv
  <2>2. thd_block_current(m, TRUE, n) /\ UNCHANGED <<lock_depth, p_owner>>
    BY <1>4 DEF mutex_block
  <2>3. WaitersByPriority'
    BY <2>1, <2>2, BlockByPriority DEF MutexInv, PassInv
  <2>. QED
    BY <2>2, <2>3 DEF PassInv, FreeInv
<1>5. CASE os_mutex_unlock(m)
  <2>1. UNCHANGED <<q_items, item_sch_tag, p_owner>>
    BY <1>5 DEF os_mutex_unlock, enter_loop, vars, itemVars
  <2>2. \/ lock_depth' = lock_depth
        \/ lock_depth[m] > 1 /\ lock_depth' = [lock_depth EXCEPT ![m] = @ - 1]
    BY <1>5 DEF os_mutex_unlock, enter_loop
  <2>3. lock_depth[m] > 1 => lock_depth[m] - 1 # 0
    BY <1>1, Depths
  <2>4. FreeInv'
    BY <2>1, <2>2, <2>3 DEF MutexInv, MutexTypes, PassInv, FreeInv
  <2>. QED
    BY <2>1, <2>4, PassKept
<1>6. ASSUME NEW c \in Context, os_mutex_delete(c, m) PROVE PassInv'
  <2>1. UNCHANGED <<q_items, item_sch_tag, lock_depth, p_owner>>
    BY <1>6 DEF os_mutex_delete, enter_loop, itemVars
  <2>. QED
    BY <2>1, PassKept DEF PassInv, FreeInv
<1>7. ASSUME NEW n \in Timeouts \cup {0}, os_mutex_lock(m, n) \/ os_mutex_peek(m, n)
      PROVE  PassInv'
  BY <1>3, <1>4, <1>7 DEF os_mutex_lock, os_mutex_peek
<1>8. CASE os_mutex_lock_nb(m)
  BY <1>3, <1>8 DEF os_mutex_lock_nb
<1>. QED
  BY <1>2, <1>5, <1>6, <1>7, <1>8

LEMMA PassLoop == MutexInv /\ PassInv /\ MutexLoopNext => PassInv'
<1>. SUFFICES ASSUME MutexInv, PassInv, MutexLoopNext PROVE PassInv'
  OBVIOUS
<1>0. handler = "wake"
  BY DEF MutexLoopNext, mutex_unlock_iterate, mutex_unlock_free, mutex_delete_iterate,
     mutex_delete_done
<1>1. wake.mutex \in WaitQ /\ (Waiters # <<>> => Head(Waiters) \in Thread)
  BY <1>0, LoopFacts
<1>2. CASE mutex_unlock_iterate
  <2>1. /\ thd_ready(Head(Waiters)) /\ Head(Waiters) \in Thread
        /\ \/ sch_set_next_thread(ReadyItems(Head(Waiters)))
           \/ q_items' = ReadyItems(Head(Waiters))
    BY <1>1, <1>2 DEF mutex_unlock_iterate, sch_reschedule_req
  <2>2. WaitersByPriority'
    BY <2>1, ReadyByPriority DEF MutexInv, PassInv
  <2>3. /\ lock_depth' = lock_depth
        /\ \/ p_owner' = p_owner
           \/ p_owner' = [p_owner EXCEPT ![wake.mutex] = Head(Waiters)]
    BY <1>2 DEF mutex_unlock_iterate, pass_on
  <2>4. lock_depth[wake.mutex] = 1 /\ Head(Waiters) # NULL
    BY <1>1, <1>2, Constants DEF mutex_unlock_iterate, MutexInv, LoopInv
  <2>5. FreeInv'
    BY <1>1, <2>3, <2>4 DEF MutexInv, MutexTypes, PassInv, FreeInv
  <2>. QED
    BY <2>2, <2>5 DEF PassInv
<1>3. CASE mutex_unlock_free
  <2>1. /\ UNCHANGED <<q_items, item_sch_tag>>
        /\ lock_depth' = [lock_depth EXCEPT ![wake.mutex] = 0]
        /\ p_owner' = [p_owner EXCEPT ![wake.mutex] = NULL]
    BY <1>3 DEF mutex_unlock_free, itemVars
  <2>2. FreeInv'
    BY <1>1, <2>1 DEF MutexInv, MutexTypes, PassInv, FreeInv
  <2>. QED
    BY <2>1, <2>2, PassKept
<1>4. CASE mutex_delete_iterate
  <2>1. /\ thd_ready(Head(Waiters)) /\ Head(Waiters) \in Thread
        /\ q_items' = ReadyItems(Head(Waiters))
        /\ UNCHANGED <<lock_depth, p_owner>>
    BY <1>1, <1>4 DEF mutex_delete_iterate, mutexVars
  <2>2. WaitersByPriority'
    BY <2>1, ReadyByPriority DEF MutexInv, PassInv
  <2>. QED
    BY <2>1, <2>2 DEF PassInv, FreeInv
<1>5. CASE mutex_delete_done
  <2>1. /\ sch_set_next_thread(q_items) \/ q_items' = q_items
        /\ UNCHANGED <<item_sch_tag, lock_depth, p_owner>>
    BY <1>5 DEF mutex_delete_done, sch_reschedule_req
  <2>2. \A n \in WaitQ : q_items'[n] = q_items[n]
    BY <2>1, IdleQueued, ChoosesElsewhere DEF MutexInv, Inv, ItemInv
  <2>. QED
    BY <2>1, <2>2 DEF PassInv, WaitersByPriority, FreeInv
<1>. QED
  BY <1>2, <1>3, <1>4, <1>5 DEF MutexLoopNext

LEMMA PassStep == MutexInv /\ PassInv /\ [MutexNext]_allVars => PassInv'
<1>. SUFFICES ASSUME MutexInv, PassInv, [MutexNext]_allVars PROVE PassInv'
  OBVIOUS
<1>1. CASE SchedulerNext
  <2>1. Next /\ UNCHANGED <<lock_depth, p_owner>>
    BY <1>1 DEF SchedulerNext
  <2>2. WaitersByPriority'
    BY <2>1, NextByPriority DEF MutexInv, PassInv
  <2>. QED
    BY <2>1, <2>2 DEF PassInv, FreeInv
<1>2. CASE UNCHANGED allVars
  BY <1>2, PassKept DEF allVars, mutexVars, vars, itemVars, PassInv, FreeInv
<1>. QED
  BY <1>1, <1>2, PassCall, PassLoop DEF MutexNext

\* Only pass_on replaces an owner by another.
LEMMA OwnerChanges ==
    ASSUME MutexInv, PassInv, [MutexNext]_allVars, NEW m \in WaitQ,
           p_owner[m] # NULL, p_owner'[m] \notin {NULL, p_owner[m]}
    PROVE  /\ handler = "wake" /\ m = wake.mutex /\ Waiters # <<>>
           /\ ~wait_peek[Head(Waiters)] /\ p_owner'[m] = Head(Waiters)
<1>1. ASSUME MutexCallNext PROVE FALSE
  <2>1. ASSUME NEW n \in WaitQ,
               \/ \E c \in Context : os_mutex_create(c, n) \/ os_mutex_delete(c, n)
               \/ \E k, peek : mutex_block(n, peek, k)
               \/ os_mutex_unlock(n)
        PROVE  FALSE
    BY <2>1 DEF os_mutex_create, os_mutex_delete, mutex_block, os_mutex_unlock, enter_loop,
       MutexInv, MutexTypes
  <2>2. ASSUME NEW n \in WaitQ, Open(n), take(n) PROVE FALSE
    <3>1. p_owner' = [p_owner EXCEPT ![n] = p_current]
      BY <2>2 DEF take
    <3>2. p_owner[n] = NULL \/ p_owner[n] = p_current
      BY <2>2 DEF Open, PassInv, FreeInv
    <3>. QED
      BY <3>1, <3>2 DEF MutexInv, MutexTypes
  <2>. QED
    BY <1>1, <2>1, <2>2 DEF MutexCallNext, os_mutex_lock, os_mutex_lock_nb, os_mutex_peek
<1>2. ASSUME \/ SchedulerNext \/ mutex_delete_iterate \/ mutex_delete_done
             \/ UNCHANGED allVars
      PROVE  FALSE
  BY <1>2 DEF SchedulerNext, mutex_delete_iterate, mutex_delete_done, allVars, mutexVars
<1>3. ASSUME mutex_unlock_free PROVE FALSE
  BY <1>3, LoopFacts DEF mutex_unlock_free, MutexInv, MutexTypes
<1>4. mutex_unlock_iterate
  BY <1>1, <1>2, <1>3 DEF MutexNext, MutexLoopNext
<1>5. /\ ~wait_peek[Head(Waiters)]
      /\ p_owner' = [p_owner EXCEPT ![wake.mutex] = Head(Waiters)]
  BY <1>4 DEF mutex_unlock_iterate, pass_on
<1>6. m = wake.mutex /\ p_owner'[m] = Head(Waiters)
  BY <1>5 DEF MutexInv, MutexTypes
<1>. QED
  BY <1>4, <1>5, <1>6 DEF mutex_unlock_iterate

\* A mutex that is passed on goes to a thread that wants it, and to one with the
\* highest priority of those that do, whatever happened while they waited.
THEOREM PassesToHighest == MutexSpec => PassedToHighest
<1>. DEFINE WantIn(m) == {t \in Range(q_items[m]) : ~wait_peek[t]}
            Passes == \A m \in WaitQ :
               p_owner[m] # NULL /\ p_owner'[m] \notin {NULL, p_owner[m]} =>
                  /\ p_owner'[m] \in WantIn(m)
                  /\ \A t \in WantIn(m) : item_sch_tag[p_owner'[m]] <= item_sch_tag[t]
<1>1. ASSUME MutexInv, PassInv, [MutexNext]_allVars, NEW m \in WaitQ,
             p_owner[m] # NULL, p_owner'[m] \notin {NULL, p_owner[m]}
      PROVE  /\ p_owner'[m] \in WantIn(m)
             /\ \A t \in WantIn(m) : item_sch_tag[p_owner'[m]] <= item_sch_tag[t]
  <2>1. /\ q_items[m] # <<>> /\ ~wait_peek[Head(q_items[m])]
        /\ p_owner'[m] = Head(q_items[m])
    BY <1>1, OwnerChanges DEF Waiters
  <2>2. q_items[m] \in Seq(Thread) /\ Sorted(q_items[m], item_sch_tag)
    BY <1>1, WaitQNames DEF MutexInv, Inv, ItemInv, Queues, PassInv, WaitersByPriority
  <2>3. Head(q_items[m]) \in Range(q_items[m])
    BY <2>1, <2>2 DEF Range
  <2>4. item_sch_tag \in [Thread -> Nat]
    BY <1>1, Constants DEF MutexInv, Inv, ThreadInv
  <2>5. \A t \in Range(q_items[m]) :
           item_sch_tag[Head(q_items[m])] <= item_sch_tag[t]
    BY <2>2, <2>4, SortedHead
  <2>. QED
    BY <2>1, <2>3, <2>5
<1>2. MutexInv /\ PassInv /\ [MutexNext]_allVars => [Passes]_allVars
  BY <1>1
<1>3. MutexSpec => [](MutexInv /\ PassInv)
  BY MutexInvInit, MutexInvStep, PassInit, PassStep, PTL DEF MutexSpec
<1>4. MutexSpec => [][Passes]_allVars
  BY <1>2, <1>3, PTL DEF MutexSpec
<1>. QED
  BY <1>4 DEF PassedToHighest

-----------------------------------------------------------------------------
(* The depth of a lock, as long as no thread is deleted *)

HoldersLive == \A m \in WaitQ, t \in Thread : held[m][t] > 0 => Live(t)

\* What the control block of m says of its owner.
Counted(m) ==
    IF p_owner[m] = NULL
    THEN lock_depth[m] = 0
    ELSE lock_depth[m] = held[m][p_owner[m]] /\ lock_depth[m] > 0

\* Not while m is passed on or deleted.
OwnersCounted == \A m \in WaitQ : mutex_live[m] /\ ~Looping(m) => Counted(m)

CountInv == LoadedLive /\ HoldersLive /\ OwnersCounted

LEMMA CountImplies == MutexInv /\ CountInv => DepthCounts
<1>. SUFFICES ASSUME MutexInv, CountInv, NEW m \in WaitQ, mutex_live[m],
                     handler # "wake"
              PROVE  IF p_owner[m] = NULL
                     THEN lock_depth[m] = 0 /\ \A t \in Thread : held[m][t] = 0
                     ELSE lock_depth[m] = held[m][p_owner[m]] /\ lock_depth[m] > 0
  BY DEF DepthCounts
<1>1. Counted(m)
  BY DEF MutexInv, LoopInv, Looping, CountInv, OwnersCounted
<1>2. p_owner[m] = NULL => \A t \in Thread : held[m][t] = 0
  <2>1. \A t \in Thread : held[m][t] \in 0 .. MaxDepth
    BY DEF MutexInv, MutexTypes
  <2>. QED
    BY <2>1, Constants, Depths DEF MutexInv, HeldInv, HoldsRightly
<1>. QED
  BY <1>1, <1>2 DEF Counted

LEMMA CountInit == MutexInit => CountInv
BY DEF MutexInit, Init, sch_init, CountInv, LoadedLive, Started, HoldersLive,
   OwnersCounted, Counted

\* A step that changes neither who holds nor what is counted.
LEMMA CountKept ==
    ASSUME CountInv, LoadedLive',
           \A t \in Thread : Live(t) => Live(t)',
           UNCHANGED <<mutex_live, lock_depth, p_owner, wake, held>>
    PROVE  CountInv'
<1>1. HoldersLive'
  BY DEF CountInv, HoldersLive
<1>2. OwnersCounted'
  BY DEF CountInv, OwnersCounted, Counted, Looping
<1>. QED
  BY <1>1, <1>2 DEF CountInv

LEMMA CountScheduler ==
    ASSUME NothingDeleted, MutexInv, CountInv, SchedulerNext PROVE CountInv'
<1>1. Next /\ UNCHANGED <<mutex_live, lock_depth, p_owner, wait_peek, wake>>
  BY DEF SchedulerNext
<1>2. Inv'
  BY <1>1, InvStep DEF MutexInv
<1>3. \A t \in Thread : Live(t) => Live(t)'
  BY <1>1, LiveStays DEF MutexInv
<1>4. LoadedLive'
  BY <1>1, <1>2, NextLoaded DEF MutexInv, CountInv, Inv
<1>5. held' = held
  <2>1. held \in [WaitQ -> [Thread -> 0 .. MaxDepth]]
    BY DEF MutexInv, MutexTypes
  <2>2. ASSUME NEW m \in WaitQ, NEW t \in Thread
        PROVE  (IF Live(t)' THEN held[m][t] ELSE 0) = held[m][t]
    <3>1. held[m][t] \in 0 .. MaxDepth
      BY <2>1
    <3>2. held[m][t] = 0 \/ held[m][t] > 0
      BY <3>1, Depths
    <3>. QED
      BY <1>3, <3>2 DEF CountInv, HoldersLive
  <2>3. held' = [m \in WaitQ |-> [t \in Thread |-> held[m][t]]]
    BY <2>2 DEF SchedulerNext
  <2>. QED
    BY <2>1, <2>3
<1>. QED
  BY <1>1, <1>3, <1>4, <1>5, CountKept

LEMMA CountCreate ==
    ASSUME MutexInv, CountInv, NEW c, NEW m \in WaitQ, os_mutex_create(c, m)
    PROVE  CountInv'
<1>1. /\ mutex_live' = [mutex_live EXCEPT ![m] = TRUE]
      /\ lock_depth' = [lock_depth EXCEPT ![m] = 0]
      /\ p_owner' = [p_owner EXCEPT ![m] = NULL]
      /\ UNCHANGED <<state, p_current, p_next, wake, held>>
  BY DEF os_mutex_create, schVars
<1>2. LoadedLive' /\ HoldersLive'
  BY <1>1 DEF CountInv, LoadedLive, HoldersLive, Live, Started
<1>3. OwnersCounted'
  BY <1>1 DEF MutexInv, MutexTypes, CountInv, OwnersCounted, Counted, Looping
<1>. QED
  BY <1>2, <1>3 DEF CountInv

LEMMA CountTake ==
    ASSUME MutexInv, CountInv, NEW api, MayCall("thread", api), NEW m \in WaitQ,
           mutex_live[m], Open(m), lock_depth[m] < MaxDepth, take(m)
    PROVE  CountInv'
<1>. DEFINE t == p_current
<1>1. t \in Thread /\ Started /\ wake = NULL
  BY CallingThread, Constants DEF MutexInv, LoopInv, MayCall, Started
<1>2. /\ p_owner' = [p_owner EXCEPT ![m] = t]
      /\ lock_depth' = [lock_depth EXCEPT ![m] = (@ + 1) % UintMod]
      /\ held' = [held EXCEPT ![m][t] = @ + 1]
      /\ UNCHANGED <<state, p_current, p_next, mutex_live, wake>>
  BY DEF take, vars, schVars
<1>3. lock_depth[m] \in 0 .. MaxDepth /\ held[m][t] \in 0 .. MaxDepth
  BY <1>1 DEF MutexInv, MutexTypes
<1>4. (lock_depth[m] + 1) % UintMod = lock_depth[m] + 1
  BY <1>3, Depths
<1>5. lock_depth[m] = held[m][t]
  <2>1. Counted(m)
    BY <1>1 DEF CountInv, OwnersCounted, Looping
  <2>2. CASE p_owner[m] = NULL
    BY <1>1, <1>3, <2>1, <2>2, Constants, Depths
    DEF Counted, MutexInv, HeldInv, HoldsRightly
  <2>3. CASE p_owner[m] # NULL
    BY <2>1, <2>3 DEF Counted, Open
  <2>. QED
    BY <2>2, <2>3
<1>6. /\ lock_depth'[m] = held'[m][t] /\ lock_depth'[m] > 0 /\ p_owner'[m] = t
      /\ \A n \in WaitQ \ {m} : /\ lock_depth'[n] = lock_depth[n]
                                /\ p_owner'[n] = p_owner[n] /\ held'[n] = held[n]
      /\ \A u \in Thread \ {t} : held'[m][u] = held[m][u]
  BY <1>1, <1>2, <1>3, <1>4, <1>5, Depths DEF MutexInv, MutexTypes
<1>7. LoadedLive'
  BY <1>2 DEF CountInv, LoadedLive, Live, Started
<1>8. HoldersLive'
  BY <1>1, <1>2, <1>6 DEF CountInv, LoadedLive, HoldersLive, Live
<1>9. OwnersCounted'
  BY <1>1, <1>2, <1>6, Constants DEF CountInv, OwnersCounted, Counted, Looping
<1>. QED
  BY <1>7, <1>8, <1>9 DEF CountInv

LEMMA CountBlock ==
    ASSUME MutexInv, CountInv, NEW api, MayCall("thread", api), NEW m \in WaitQ,
           NEW peek, NEW n \in Nat, mutex_block(m, peek, n)
    PROVE  CountInv'
<1>. DEFINE t == p_current
<1>1. t \in Thread \ {Idle} /\ m # NULL /\ m \in SchQ
  BY CallingThread, WaitQNames DEF MutexInv
<1>2. thd_block_current(m, TRUE, n) /\ UNCHANGED <<mutex_live, lock_depth, p_owner, wake, held>>
  BY DEF mutex_block
<1>3. /\ state' = [state EXCEPT ![t] = "BLOCKED"] /\ p_current' = p_current
      /\ item_sch_q' = [item_sch_q EXCEPT ![t] = m]
      /\ sch_set_next_thread(BlockedItems(m))
  BY <1>1, <1>2 DEF thd_block_current, sch_unload_current, BlockedItems
<1>4. Queues(BlockedItems(m), item_sch_q', SchQ)
  BY <1>1, <1>3, BlockQueues DEF MutexInv, Inv
<1>5. ThreadInv'
  BY <1>1, <1>2, BlockStep DEF MutexInv, Inv
<1>6. Live(p_next)'
  BY <1>3, <1>4, <1>5, ChosenReady DEF Live
<1>7. \A u \in Thread : Live(u) => Live(u)'
  BY <1>3 DEF Live, MutexInv, Inv, ThreadInv
<1>8. LoadedLive'
  BY <1>1, <1>3, <1>6, <1>7 DEF CountInv, LoadedLive, Live, Started
<1>. QED
  BY <1>2, <1>7, <1>8, CountKept

\* A loop begins on m.
LEMMA CountEnter ==
    ASSUME MutexInv, CountInv, handler = "none", NEW m \in WaitQ, NEW loop,
           loop \in {"unlock", "delete"}, enter_loop(loop, m),
           \A t \in Thread : held'[m][t] = 0,
           \A n \in WaitQ \ {m} : held'[n] = held[n]
    PROVE  CountInv'
<1>1. /\ wake = NULL /\ wake' # NULL /\ wake'.mutex = m
      /\ UNCHANGED <<state, p_current, p_next, mutex_live, lock_depth, p_owner>>
  BY MutexAssumption DEF MutexInv, LoopInv, enter_loop, Wake
<1>2. LoadedLive'
  BY <1>1 DEF CountInv, LoadedLive, Live, Started
<1>3. HoldersLive'
  <2>. SUFFICES ASSUME NEW n \in WaitQ, NEW t \in Thread, held'[n][t] > 0
                PROVE  Live(t)'
    BY DEF HoldersLive
  <2>1. n # m
    <3>1. ~(0 > 0)
      OBVIOUS
    <3>. QED
      BY <3>1
  <2>2. Live(t)
    BY <2>1 DEF CountInv, HoldersLive
  <2>. QED
    BY <1>1, <2>2 DEF Live
<1>4. OwnersCounted'
  BY <1>1 DEF CountInv, OwnersCounted, Counted, Looping
<1>. QED
  BY <1>2, <1>3, <1>4 DEF CountInv

LEMMA CountUnlock ==
    ASSUME MutexInv, CountInv, NEW m \in WaitQ, os_mutex_unlock(m) PROVE CountInv'
<1>. DEFINE t == p_current
<1>1. /\ t \in Thread /\ Started /\ wake = NULL /\ handler = "none"
      /\ p_owner[m] = t /\ mutex_live[m]
  <2>1. MayCall("thread", "mutex_unlock")
    BY DEF os_mutex_unlock
  <2>. QED
    BY <2>1, CallingThread, Constants DEF os_mutex_unlock, MutexInv, LoopInv, MayCall, Started
<1>2. lock_depth[m] = held[m][t] /\ lock_depth[m] > 0 /\ lock_depth[m] \in 0 .. MaxDepth
  BY <1>1, Constants DEF CountInv, OwnersCounted, Looping, Counted, MutexInv, MutexTypes
<1>3. /\ held'[m][t] = lock_depth[m] - 1
      /\ \A u \in Thread \ {t} : held'[m][u] = held[m][u]
      /\ \A n \in WaitQ \ {m} : held'[n] = held[n]
  <2>1. held' = [held EXCEPT ![m][t] = IF @ > 0 THEN @ - 1 ELSE 0]
    BY DEF os_mutex_unlock
  <2>2. held \in [WaitQ -> [Thread -> 0 .. MaxDepth]]
    BY DEF MutexInv, MutexTypes
  <2>. QED
    BY <1>1, <1>2, <2>1, <2>2
<1>4. CASE /\ lock_depth[m] > 1
           /\ lock_depth' = [lock_depth EXCEPT ![m] = @ - 1]
           /\ UNCHANGED <<vars, mutex_live, p_owner, wait_peek, wake>>
  <2>1. UNCHANGED <<state, p_current, p_next>>
    BY <1>4 DEF vars, schVars
  <2>2. LoadedLive'
    BY <2>1 DEF CountInv, LoadedLive, Live, Started
  <2>3. HoldersLive'
    BY <1>1, <1>3, <2>1 DEF CountInv, LoadedLive, HoldersLive, Live
  <2>4. lock_depth[m] - 1 > 0
    BY <1>2, <1>4, Depths
  <2>5. OwnersCounted'
    BY <1>1, <1>3, <1>4, <2>4 DEF MutexInv, MutexTypes, CountInv, OwnersCounted, Counted,
       Looping
  <2>. QED
    BY <2>2, <2>3, <2>5 DEF CountInv
<1>5. CASE lock_depth[m] = 1 /\ enter_loop("unlock", m)
  <2>1. held'[m][t] = 0
    BY <1>3, <1>5
  <2>2. \A u \in Thread \ {t} : held[m][u] = 0
    <3>1. \A u \in Thread : held[m][u] \in 0 .. MaxDepth
      BY DEF MutexInv, MutexTypes
    <3>. QED
      BY <1>1, <3>1, Depths DEF MutexInv, HeldInv, HoldsRightly
  <2>. QED
    BY <1>1, <1>3, <1>5, <2>1, <2>2, CountEnter
<1>. QED
  BY <1>4, <1>5 DEF os_mutex_unlock

LEMMA CountDelete ==
    ASSUME MutexInv, CountInv, NEW c, NEW m \in WaitQ, os_mutex_delete(c, m)
    PROVE  CountInv'
<1>1. handler = "none" /\ enter_loop("delete", m)
  BY DEF os_mutex_delete, MayCall
<1>2. /\ \A t \in Thread : held'[m][t] = 0
      /\ \A n \in WaitQ \ {m} : held'[n] = held[n]
  BY DEF os_mutex_delete, MutexInv, MutexTypes
<1>. QED
  BY <1>1, <1>2, CountEnter

LEMMA CountCalls == MutexInv /\ CountInv /\ MutexCallNext => CountInv'
<1>. SUFFICES ASSUME MutexInv, CountInv, NEW m \in WaitQ,
                     \/ \E c \in Context : os_mutex_create(c, m) \/ os_mutex_delete(c, m)
                     \/ \E n \in Timeouts \cup {0} :
                           os_mutex_lock(m, n) \/ os_mutex_peek(m, n)
                     \/ os_mutex_lock_nb(m)
                     \/ os_mutex_unlock(m)
              PROVE  CountInv'
  BY DEF MutexCallNext
<1>1. Timeouts \cup {0} \subseteq Nat
  BY SchedulerAssumption
<1>2. ASSUME NEW n \in Timeouts \cup {0}, os_mutex_lock(m, n) \/ os_mutex_peek(m, n)
      PROVE  CountInv'
  BY <1>1, <1>2, CountTake, CountBlock DEF os_mutex_lock, os_mutex_peek
<1>3. CASE os_mutex_lock_nb(m)
  BY <1>3, CountTake DEF os_mutex_lock_nb
<1>. QED
  BY <1>2, <1>3, CountCreate, CountUnlock, CountDelete

\* An iteration of a loop readies a thread, and may choose it to run next.
LEMMA CountReady ==
    ASSUME MutexInv, CountInv, Started, NEW t \in Thread, thd_ready(t),
           p_current' = p_current,
           \/ sch_reschedule_req(ReadyItems(t), item_sch_tag)
           \/ p_next' = p_next
    PROVE  LoadedLive' /\ Live(t)' /\ \A u \in Thread : Live(u) => Live(u)'
<1>1. state' = [state EXCEPT ![t] = "READY"]
  BY DEF thd_ready
<1>2. Live(t)' /\ \A u \in Thread : Live(u) => Live(u)'
  BY <1>1 DEF Live, MutexInv, Inv, ThreadInv
<1>3. Queues(ReadyItems(t), item_sch_q', SchQ) /\ ThreadInv'
  BY ReadyQueues DEF MutexInv, Inv
<1>4. sch_set_next_thread(ReadyItems(t)) \/ p_next' = p_next
  BY DEF sch_reschedule_req
<1>5. p_current \in Thread /\ p_next \in Thread
  BY DEF MutexInv, Inv, KernelInv, StartInv, Started
<1>6. Live(p_current)
  BY DEF CountInv, LoadedLive
<1>7. Live(p_current)'
  BY <1>2, <1>5, <1>6 DEF Live
<1>8. Live(p_next)'
  <2>1. CASE sch_set_next_thread(ReadyItems(t))
    BY <1>3, <2>1, ChosenReady DEF Live
  <2>2. CASE p_next' = p_next
    BY <1>2, <1>5, <2>2 DEF Live, CountInv, LoadedLive
  <2>. QED
    BY <1>4, <2>1, <2>2
<1>. QED
  BY <1>2, <1>7, <1>8 DEF LoadedLive

LEMMA CountUnlockIterate == MutexInv /\ CountInv /\ mutex_unlock_iterate => CountInv'
<1>. SUFFICES ASSUME MutexInv, CountInv, mutex_unlock_iterate PROVE CountInv'
  OBVIOUS
<1>0. PICK t \in Thread, m \in WaitQ : t = Head(Waiters) /\ m = wake.mutex
  BY LoopFacts DEF mutex_unlock_iterate
<1>1. /\ handler = "wake" /\ wake.loop = "unlock"
      /\ thd_ready(t) /\ pass_on
      /\ sch_reschedule_req(ReadyItems(t), item_sch_tag)
      /\ UNCHANGED <<p_current, mutex_live, lock_depth>>
  BY <1>0 DEF mutex_unlock_iterate
<1>2. Started /\ wake # NULL /\ \A u \in Thread : held[m][u] = 0
  BY <1>0, <1>1, LoopFacts
<1>3. lock_depth[m] = 1
  BY <1>0, <1>1, <1>2 DEF MutexInv, LoopInv
<1>4. LoadedLive' /\ Live(t)' /\ \A u \in Thread : Live(u) => Live(u)'
  BY <1>1, <1>2, CountReady
<1>5. CASE UNCHANGED <<p_owner, held, handler, wake>>
  BY <1>1, <1>4, <1>5, CountKept
<1>6. CASE /\ p_owner' = [p_owner EXCEPT ![m] = t]
           /\ held' = [held EXCEPT ![m][t] = @ + 1]
           /\ leave_loop
  <2>1. /\ p_owner'[m] = t /\ held'[m][t] = 1
        /\ \A u \in Thread \ {t} : held'[m][u] = held[m][u]
        /\ \A n \in WaitQ \ {m} : p_owner'[n] = p_owner[n] /\ held'[n] = held[n]
    BY <1>2, <1>6 DEF MutexInv, MutexTypes
  <2>2. HoldersLive'
    BY <1>4, <2>1 DEF CountInv, HoldersLive
  <2>3. \A n \in WaitQ \ {m} : ~Looping(n)
    BY <1>0 DEF Looping
  <2>4. OwnersCounted'
    BY <1>1, <1>2, <1>3, <2>1, <2>3, Constants DEF CountInv, OwnersCounted, Counted
  <2>. QED
    BY <1>4, <2>2, <2>4 DEF CountInv
<1>. QED
  BY <1>0, <1>1, <1>5, <1>6 DEF pass_on

LEMMA CountLoops == MutexInv /\ CountInv /\ MutexLoopNext => CountInv'
<1>. SUFFICES ASSUME MutexInv, CountInv, MutexLoopNext PROVE CountInv'
  OBVIOUS
<1>0. handler = "wake"
  BY DEF MutexLoopNext, mutex_unlock_iterate, mutex_unlock_free, mutex_delete_iterate,
     mutex_delete_done
<1>1. /\ wake.mutex \in WaitQ /\ Started /\ (Waiters # <<>> => Head(Waiters) \in Thread)
      /\ \A n \in WaitQ \ {wake.mutex} : ~Looping(n)
  BY <1>0, LoopFacts DEF Looping
<1>2. CASE mutex_unlock_free
  <2>1. /\ lock_depth' = [lock_depth EXCEPT ![wake.mutex] = 0]
        /\ p_owner' = [p_owner EXCEPT ![wake.mutex] = NULL]
        /\ UNCHANGED <<state, p_current, p_next, mutex_live, held>>
    BY <1>2 DEF mutex_unlock_free
  <2>2. LoadedLive' /\ HoldersLive'
    BY <2>1 DEF CountInv, LoadedLive, HoldersLive, Live, Started
  <2>3. OwnersCounted'
    BY <1>1, <2>1 DEF MutexInv, MutexTypes, CountInv, OwnersCounted, Counted
  <2>. QED
    BY <2>2, <2>3 DEF CountInv
<1>3. CASE mutex_delete_iterate
  <2>1. /\ thd_ready(Head(Waiters)) /\ Waiters # <<>>
        /\ UNCHANGED <<p_current, p_next, mutex_live, lock_depth, p_owner, wake, held>>
    BY <1>3 DEF mutex_delete_iterate, schVars, mutexVars
  <2>2. LoadedLive' /\ \A u \in Thread : Live(u) => Live(u)'
    BY <1>1, <2>1, CountReady
  <2>. QED
    BY <2>1, <2>2, CountKept
<1>4. CASE mutex_delete_done
  <2>1. /\ sch_set_next_thread(q_items) \/ p_next' = p_next
        /\ mutex_live' = [mutex_live EXCEPT ![wake.mutex] = FALSE]
        /\ UNCHANGED <<state, item_sch_q, p_current, lock_depth, p_owner, held>>
    BY <1>4 DEF mutex_delete_done, sch_reschedule_req
  <2>2. ThreadInv' /\ Queues(q_items, item_sch_q', SchQ)
    BY <1>4, <2>1, DeleteDoneStep DEF MutexInv, Inv, ItemInv
  <2>3. Live(p_next)'
    <3>1. CASE sch_set_next_thread(q_items)
      BY <2>2, <3>1, ChosenReady DEF Live
    <3>2. CASE p_next' = p_next
      BY <1>1, <2>1, <3>2 DEF Live, CountInv, LoadedLive
    <3>. QED
      BY <2>1, <3>1, <3>2
  <2>4. LoadedLive'
    BY <1>1, <2>1, <2>3 DEF CountInv, LoadedLive, Live
  <2>5. HoldersLive'
    BY <2>1 DEF CountInv, HoldersLive, Live
  <2>6. OwnersCounted'
    BY <1>1, <2>1 DEF MutexInv, MutexTypes, CountInv, OwnersCounted, Counted
  <2>. QED
    BY <2>4, <2>5, <2>6 DEF CountInv
<1>. QED
  BY <1>2, <1>3, <1>4, CountUnlockIterate DEF MutexLoopNext

LEMMA CountStep ==
    ASSUME NothingDeleted, MutexInv, CountInv, [MutexNext]_allVars PROVE CountInv'
<1>1. CASE UNCHANGED allVars
  BY <1>1 DEF allVars, mutexVars, vars, schVars, CountInv, LoadedLive, Live, Started,
     HoldersLive, OwnersCounted, Counted, Looping
<1>. QED
  BY <1>1, CountScheduler, CountCalls, CountLoops DEF MutexNext

\* As long as no thread is deleted, the control block of a mutex counts what the
\* threads were granted: unlocking as often as one has locked frees the mutex.
THEOREM DepthsCount == ASSUME NothingDeleted PROVE MutexSpec => []DepthCounts
<1>1. MutexInv /\ CountInv /\ [MutexNext]_allVars => (MutexInv /\ CountInv)'
  BY MutexInvStep, CountStep
<1>2. MutexSpec => [](MutexInv /\ CountInv)
  BY <1>1, MutexInvInit, CountInit, PTL DEF MutexSpec
<1>. QED
  BY <1>2, CountImplies, PTL

-----------------------------------------------------------------------------
(* Who is served by an unlock *)

\* With a first thread that waits to own, everyone up to it is served.
LEMMA FirstWanting ==
    ASSUME NEW q \in Seq(Thread), NEW peek, Wanting(q, peek) # {}
    PROVE  LET k == Min(Wanting(q, peek))
           IN  /\ k \in 1 .. Len(q) /\ ~peek[q[k]]
               /\ \A j \in 1 .. Len(q) : j < k => peek[q[j]]
               /\ Served(q, peek) = {q[j] : j \in 1 .. k}
<1>. DEFINE W == Wanting(q, peek)
            k == Min(W)
<1>1. Len(q) \in Nat /\ DOMAIN q = 1 .. Len(q) /\ W \in SUBSET Nat
  BY DEF Wanting
<1>2. k \in W /\ \A j \in W : k <= j
  BY <1>1, MinProperty
<1>3. k \in 1 .. Len(q) /\ ~peek[q[k]]
  BY <1>1, <1>2 DEF Wanting
<1>4. ASSUME NEW j \in 1 .. Len(q), j < k PROVE peek[q[j]]
  <2>1. j \notin W
    BY <1>1, <1>2, <1>3, <1>4
  <2>. QED
    BY <1>1, <2>1 DEF Wanting
<1>5. {j \in DOMAIN q : \A i \in W : j <= i} = 1 .. k
  <2>1. \A i \in W : i \in Nat
    BY <1>1
  <2>. QED
    BY <1>1, <1>2, <1>3, <2>1
<1>6. Served(q, peek) = {q[j] : j \in 1 .. k}
  BY <1>5 DEF Served
<1>. QED
  BY <1>3, <1>4, <1>6

\* Without one, everyone is, and everyone peeks.
LEMMA NobodyWanting ==
    ASSUME NEW q \in Seq(Thread), NEW peek, Wanting(q, peek) = {}
    PROVE  Served(q, peek) = Range(q) /\ \A t \in Range(q) : peek[t]
BY DEF Served, Wanting, Range

\* The one who becomes the owner has the highest priority of those that want to.
LEMMA FirstIsHighest ==
    ASSUME NEW q, Queue(q, Thread), NEW peek, Wanting(q, peek) # {},
           NEW tag \in [Thread -> Nat], Sorted(q, tag)
    PROVE  LET next == q[Min(Wanting(q, peek))]
           IN  /\ next \in Range(q) /\ ~peek[next] /\ next \in Served(q, peek)
               /\ Served(q, peek) \subseteq Range(q)
               /\ \A u \in Served(q, peek) \ {next} : peek[u] /\ tag[u] <= tag[next]
               /\ \A u \in Range(q) \ Served(q, peek) : tag[next] <= tag[u]
<1>. DEFINE k == Min(Wanting(q, peek))
            next == q[k]
<1>1. q \in Seq(Thread) /\ Len(q) \in Nat /\ DOMAIN q = 1 .. Len(q)
  BY DEF Queue
<1>2. /\ k \in 1 .. Len(q) /\ ~peek[q[k]]
      /\ \A j \in 1 .. Len(q) : j < k => peek[q[j]]
      /\ Served(q, peek) = {q[j] : j \in 1 .. k}
  BY <1>1, FirstWanting
<1>. HIDE DEF k
<1>3. next \in Range(q) /\ ~peek[next] /\ next \in Served(q, peek)
  BY <1>1, <1>2 DEF Range
<1>4. Served(q, peek) \subseteq Range(q)
  BY <1>1, <1>2 DEF Range
<1>5. ASSUME NEW u \in Served(q, peek) \ {next} PROVE peek[u] /\ tag[u] <= tag[next]
  <2>1. PICK j \in 1 .. k : q[j] = u
    BY <1>2, <1>5
  <2>2. j \in 1 .. Len(q) /\ j < k
    BY <1>1, <1>2, <1>5, <2>1
  <2>. QED
    BY <1>2, <2>1, <2>2 DEF Sorted
<1>6. ASSUME NEW u \in Range(q) \ Served(q, peek) PROVE tag[next] <= tag[u]
  <2>1. PICK j \in 1 .. Len(q) : q[j] = u
    BY <1>1 DEF Range
  <2>2. j \notin 1 .. k
    BY <1>2, <1>6, <2>1
  <2>3. k < j
    BY <1>1, <1>2, <2>2
  <2>. QED
    BY <1>2, <2>1, <2>3 DEF Sorted
<1>. QED
  BY <1>3, <1>4, <1>5, <1>6 DEF k

\* One turn of the loop with a first waiter that peeks: the others who are served
\* stay the same, and so does the one who becomes the owner.
LEMMA WantingTail ==
    ASSUME NEW q, Queue(q, Thread), q # <<>>, NEW peek, peek[Head(q)]
    PROVE  /\ Wanting(q, peek) = {} <=> Wanting(Tail(q), peek) = {}
           /\ Wanting(q, peek) # {} =>
                 q[Min(Wanting(q, peek))] = Tail(q)[Min(Wanting(Tail(q), peek))]
           /\ Range(q) \ Served(q, peek) = Range(Tail(q)) \ Served(Tail(q), peek)
<1>. DEFINE p == Tail(q)
<1>1. /\ q \in Seq(Thread) /\ Len(q) \in Nat \ {0} /\ DOMAIN q = 1 .. Len(q)
      /\ Head(q) = q[1] /\ IsInjective(q)
  BY EmptySeq DEF Queue
<1>2. /\ p \in Seq(Thread) /\ Len(p) = Len(q) - 1 /\ DOMAIN p = 1 .. Len(p)
      /\ \A j \in 1 .. Len(p) : p[j] = q[j + 1]
  BY <1>1, HeadTailProperties
<1>. HIDE DEF p
<1>3. \A j \in 1 .. Len(p) : j + 1 \in 1 .. Len(q)
  BY <1>1, <1>2
<1>4. \A j \in 1 .. Len(q) : j # 1 => j - 1 \in 1 .. Len(p) /\ (j - 1) + 1 = j
  BY <1>1, <1>2
<1>5. \A j \in Wanting(p, peek) : j + 1 \in Wanting(q, peek)
  BY <1>1, <1>2, <1>3 DEF Wanting
<1>6. \A j \in Wanting(q, peek) : j # 1 /\ j - 1 \in Wanting(p, peek)
  BY <1>1, <1>2, <1>4 DEF Wanting
<1>7. CASE Wanting(q, peek) = {}
  <2>1. Wanting(p, peek) = {}
    BY <1>5, <1>7
  <2>. QED
    BY <1>1, <1>2, <1>7, <2>1, NobodyWanting DEF p
<1>8. CASE Wanting(q, peek) # {}
  <2>. DEFINE k == Min(Wanting(q, peek))
              l == Min(Wanting(p, peek))
  <2>1. Wanting(p, peek) # {}
    BY <1>6, <1>8
  <2>2. /\ Wanting(q, peek) \in SUBSET Nat /\ Wanting(p, peek) \in SUBSET Nat
    BY <1>1, <1>2 DEF Wanting
  <2>3. /\ k \in Wanting(q, peek) /\ \A j \in Wanting(q, peek) : k <= j
        /\ l \in Wanting(p, peek) /\ \A j \in Wanting(p, peek) : l <= j
    BY <1>8, <2>1, <2>2, MinProperty
  <2>4. /\ k \in 1 .. Len(q) /\ Served(q, peek) = {q[j] : j \in 1 .. k}
        /\ l \in 1 .. Len(p) /\ Served(p, peek) = {p[j] : j \in 1 .. l}
    BY <1>1, <1>2, <1>8, <2>1, FirstWanting
  <2>. HIDE DEF k, l
  <2>5. k <= l + 1 /\ l <= k - 1
    BY <1>5, <1>6, <2>3
  <2>6. k = l + 1
    BY <1>1, <1>2, <2>4, <2>5
  <2>7. q[k] = p[l]
    BY <1>2, <2>4, <2>6
  <2>8. Range(q) \ Served(q, peek) = {q[j] : j \in (k + 1) .. Len(q)}
    <3>1. \A i \in 1 .. k, j \in (k + 1) .. Len(q) :
             /\ i \in 1 .. Len(q) /\ j \in 1 .. Len(q) /\ i # j
      BY <1>1, <2>4
    <3>2. \A i \in 1 .. k, j \in (k + 1) .. Len(q) : q[i] # q[j]
      BY <1>1, <3>1 DEF IsInjective
    <3>3. \A j \in 1 .. Len(q) : j \in 1 .. k \/ j \in (k + 1) .. Len(q)
      BY <1>1, <2>4
    <3>. QED
      BY <1>1, <2>4, <3>1, <3>2, <3>3 DEF Range
  <2>9. Range(p) \ Served(p, peek) = {p[j] : j \in (l + 1) .. Len(p)}
    <3>1. \A i \in 1 .. l, j \in (l + 1) .. Len(p) :
             /\ i \in 1 .. Len(p) /\ j \in 1 .. Len(p) /\ i + 1 # j + 1
      BY <1>2, <2>4
    <3>2. \A i \in 1 .. l, j \in (l + 1) .. Len(p) : p[i] # p[j]
      BY <1>1, <1>2, <1>3, <3>1 DEF IsInjective
    <3>3. \A j \in 1 .. Len(p) : j \in 1 .. l \/ j \in (l + 1) .. Len(p)
      BY <1>2, <2>4
    <3>4. Range(p) = {p[j] : j \in 1 .. Len(p)}
      BY <1>2 DEF Range
    <3>. QED
      BY <2>4, <3>1, <3>2, <3>3, <3>4
  <2>10. {q[j] : j \in (k + 1) .. Len(q)} = {p[j] : j \in (l + 1) .. Len(p)}
    <3>1. \A j \in (l + 1) .. Len(p) : j + 1 \in (k + 1) .. Len(q) /\ q[j + 1] = p[j]
      BY <1>1, <1>2, <2>4, <2>6
    <3>2. \A j \in (k + 1) .. Len(q) : j - 1 \in (l + 1) .. Len(p) /\ p[j - 1] = q[j]
      BY <1>1, <1>2, <2>4, <2>6
    <3>. QED
      BY <3>1, <3>2
  <2>. QED
    BY <1>8, <2>1, <2>7, <2>8, <2>9, <2>10 DEF k, l, p
<1>. QED
  BY <1>7, <1>8

-----------------------------------------------------------------------------
(* What the abstract mutexes are *)

Locked == MutexInv /\ PassInv

\* While no loop runs, they are what the control blocks say.
LEMMA CalmView ==
    ASSUME MutexInv, handler # "wake"
    PROVE  /\ Existing = {m \in WaitQ : mutex_live[m]}
           /\ Owner = p_owner
           /\ Depth = lock_depth
           /\ Waiting = [m \in WaitQ |-> Range(q_items[m])]
<1>1. \A loop \in {"unlock", "delete"}, m \in WaitQ : ~LoopOf(loop, m)
  BY DEF LoopOf
<1>. QED
  BY <1>1 DEF Existing, Owner, Depth, Freeing, Waiting, MutexInv, MutexTypes

\* Who owns m once its last lock is undone, if not NULL.
NextOwner(m) == q_items[m][Min(Wanting(q_items[m], wait_peek))]

\* What is seen of a loop that passes m on.
LEMMA UnlockView ==
    ASSUME MutexInv, NEW m \in WaitQ, LoopOf("unlock", m)
    PROVE  /\ Existing = {r \in WaitQ : mutex_live[r]}
           /\ Owner = [p_owner EXCEPT ![m] =
                 IF Wanting(q_items[m], wait_peek) = {} THEN NULL ELSE NextOwner(m)]
           /\ Depth = [lock_depth EXCEPT ![m] =
                 IF Wanting(q_items[m], wait_peek) = {} THEN 0 ELSE 1]
           /\ Waiting = [r \in WaitQ |->
                 IF r = m THEN Range(q_items[r]) \ Served(q_items[r], wait_peek)
                 ELSE Range(q_items[r])]
<1>1. /\ \A r \in WaitQ : ~LoopOf("delete", r)
      /\ \A r \in WaitQ : LoopOf("unlock", r) <=> r = m
      /\ wake.loop = "unlock" /\ wake.mutex = m /\ handler = "wake"
  BY DEF LoopOf
<1>2. lock_depth[m] = 1
  BY <1>1 DEF MutexInv, LoopInv
<1>3. p_owner \in [WaitQ -> Thread \cup {NULL}] /\ lock_depth \in [WaitQ -> 0 .. MaxDepth]
  BY DEF MutexInv, MutexTypes
<1>4. Owner = [p_owner EXCEPT ![m] =
                 IF Wanting(q_items[m], wait_peek) = {} THEN NULL ELSE NextOwner(m)]
  BY <1>1, <1>3 DEF Owner, Freeing, NextOwner
<1>5. Depth = [lock_depth EXCEPT ![m] =
                 IF Wanting(q_items[m], wait_peek) = {} THEN 0 ELSE 1]
  BY <1>1, <1>2, <1>3 DEF Depth, Freeing
<1>. QED
  BY <1>1, <1>4, <1>5 DEF Existing, Waiting

\* A mutex that is being deleted is gone.
LEMMA DeleteView ==
    ASSUME MutexInv, NEW m \in WaitQ, LoopOf("delete", m)
    PROVE  /\ Existing = {r \in WaitQ : mutex_live[r] /\ r # m}
           /\ Owner = p_owner
           /\ Depth = lock_depth
           /\ Waiting = [r \in WaitQ |-> IF r = m THEN {} ELSE Range(q_items[r])]
<1>1. /\ \A r \in WaitQ : ~LoopOf("unlock", r)
      /\ \A r \in WaitQ : LoopOf("delete", r) <=> r = m
  BY DEF LoopOf
<1>. QED
  BY <1>1 DEF Existing, Owner, Depth, Freeing, Waiting, MutexInv, MutexTypes

\* The three together, to be used before and after a step.
ViewsRight ==
    /\ handler # "wake" =>
          /\ Existing = {m \in WaitQ : mutex_live[m]}
          /\ Owner = p_owner
          /\ Depth = lock_depth
          /\ Waiting = [m \in WaitQ |-> Range(q_items[m])]
    /\ \A m \in WaitQ : LoopOf("unlock", m) =>
          /\ Existing = {r \in WaitQ : mutex_live[r]}
          /\ Owner = [p_owner EXCEPT ![m] =
                IF Wanting(q_items[m], wait_peek) = {} THEN NULL ELSE NextOwner(m)]
          /\ Depth = [lock_depth EXCEPT ![m] =
                IF Wanting(q_items[m], wait_peek) = {} THEN 0 ELSE 1]
          /\ Waiting = [r \in WaitQ |->
                IF r = m THEN Range(q_items[r]) \ Served(q_items[r], wait_peek)
                ELSE Range(q_items[r])]
    /\ \A m \in WaitQ : LoopOf("delete", m) =>
          /\ Existing = {r \in WaitQ : mutex_live[r] /\ r # m}
          /\ Owner = p_owner
          /\ Depth = lock_depth
          /\ Waiting = [r \in WaitQ |-> IF r = m THEN {} ELSE Range(q_items[r])]

LEMMA Views == MutexInv => ViewsRight
BY CalmView, UnlockView, DeleteView DEF ViewsRight

LEMMA ViewsNext == MutexInv' => ViewsRight'
BY Views, PTL

LEMMA CalmNext ==
    ASSUME MutexInv', handler' # "wake"
    PROVE  /\ Existing' = {m \in WaitQ : mutex_live'[m]}
           /\ Owner' = p_owner'
           /\ Depth' = lock_depth'
           /\ Waiting' = [m \in WaitQ |-> Range(q_items'[m])]
BY ViewsNext DEF ViewsRight

LEMMA UnlockNext ==
    ASSUME MutexInv', NEW m \in WaitQ, LoopOf("unlock", m)'
    PROVE  /\ Existing' = {r \in WaitQ : mutex_live'[r]}
           /\ Owner' = [p_owner' EXCEPT ![m] =
                 IF Wanting(q_items'[m], wait_peek') = {} THEN NULL ELSE NextOwner(m)']
           /\ Depth' = [lock_depth' EXCEPT ![m] =
                 IF Wanting(q_items'[m], wait_peek') = {} THEN 0 ELSE 1]
           /\ Waiting' = [r \in WaitQ |->
                 IF r = m THEN Range(q_items'[r]) \ Served(q_items'[r], wait_peek')
                 ELSE Range(q_items'[r])]
BY ViewsNext DEF ViewsRight

LEMMA DeleteNext ==
    ASSUME MutexInv', NEW m \in WaitQ, LoopOf("delete", m)'
    PROVE  /\ Existing' = {r \in WaitQ : mutex_live'[r] /\ r # m}
           /\ Owner' = p_owner'
           /\ Depth' = lock_depth'
           /\ Waiting' = [r \in WaitQ |-> IF r = m THEN {} ELSE Range(q_items'[r])]
BY ViewsNext DEF ViewsRight

-----------------------------------------------------------------------------
(* The wait queues *)

\* A turn of a loop takes the first waiter out of its queue.
LEMMA ServedTail ==
    ASSUME MutexInv, handler = "wake", Waiters # <<>>, thd_ready(Head(Waiters)),
           \/ sch_set_next_thread(ReadyItems(Head(Waiters)))
           \/ q_items' = ReadyItems(Head(Waiters))
    PROVE  /\ wake \in Wake /\ wake.mutex \in WaitQ /\ Head(Waiters) \in Thread
           /\ q_items'[wake.mutex] = Tail(Waiters)
           /\ \A m \in WaitQ \ {wake.mutex} : q_items'[m] = q_items[m]
           /\ item_sch_tag' = item_sch_tag
<1>1. wake \in Wake /\ wake.mutex \in WaitQ
  BY DEF MutexInv, MutexTypes, LoopInv, Wake
<1>2. Queue(Waiters, Thread) /\ Range(Waiters) = {t \in Thread : item_sch_q[t] = wake.mutex}
  BY <1>1, WaitersOf DEF MutexInv, Waiters
<1>3. Head(Waiters) \in Thread /\ item_sch_q[Head(Waiters)] = wake.mutex
  BY <1>2, RotateQueue
<1>4. RemoveFirst(Waiters, Head(Waiters)) = Tail(Waiters)
  BY <1>2, RemoveHead
<1>5. \A m \in WaitQ :
         q_items'[m] = IF item_sch_q[Head(Waiters)] = m
                       THEN RemoveFirst(q_items[m], Head(Waiters)) ELSE q_items[m]
  BY <1>3, ReadyLeaves DEF MutexInv
<1>. QED
  BY <1>1, <1>3, <1>4, <1>5 DEF Waiters, thd_ready

\* Nobody waits for a mutex that does not exist yet.
LEMMA MutexCreateQueues ==
    ASSUME MutexInv, NEW c, NEW m \in WaitQ, os_mutex_create(c, m)
    PROVE  q_items' = q_items /\ item_sch_tag' = item_sch_tag
<1>1. /\ ~mutex_live[m] /\ q_items' = [q_items EXCEPT ![m] = <<>>]
      /\ item_sch_tag' = item_sch_tag
  BY DEF os_mutex_create
<1>2. \A t \in Thread : item_sch_q[t] # m
  BY <1>1 DEF MutexInv, WaiterInv, WaitsRightly
<1>3. q_items[m] = <<>>
  <2>1. Queue(q_items[m], Thread) /\ Range(q_items[m]) = {}
    BY <1>2, WaitersOf DEF MutexInv
  <2>. QED
    BY <2>1, EmptyRange DEF Queue
<1>. QED
  BY <1>1, <1>3 DEF MutexInv, Inv, ItemInv, Queues

-----------------------------------------------------------------------------
(* Every step is a step of the abstract mutexes, or none *)

LEMMA GivesUp == ASSUME MutexInv, MutexInv', SchedulerNext PROVE L!GiveUp
<1>1. Next /\ UNCHANGED <<mutex_live, lock_depth, p_owner, wait_peek, wake>>
  BY DEF SchedulerNext
<1>2. KeepsWaiters /\ handler # "wake" /\ handler' # "wake"
  BY <1>1, NextKeeps DEF MutexInv
<1>3. /\ Existing = {m \in WaitQ : mutex_live[m]} /\ Owner = p_owner /\ Depth = lock_depth
      /\ Waiting = [m \in WaitQ |-> Range(q_items[m])]
  BY <1>2, CalmView
<1>4. /\ Existing' = Existing /\ Owner' = Owner /\ Depth' = Depth
      /\ Waiting' = [m \in WaitQ |-> Range(q_items'[m])]
  BY <1>1, <1>2, <1>3, CalmNext
<1>5. ASSUME NEW m \in WaitQ
      PROVE  Range(q_items'[m]) \subseteq Thread /\ Range(q_items'[m]) \subseteq Range(q_items[m])
  <2>1. Range(q_items[m]) = {t \in Thread : item_sch_q[t] = m}
    BY WaitersOf DEF MutexInv
  <2>2. Range(q_items'[m]) = {t \in Thread : item_sch_q'[t] = m}
    BY WaitersNow DEF MutexInv
  <2>. QED
    BY <1>2, <2>1, <2>2 DEF KeepsWaiters
<1>6. item_sch_tag' \in [Thread -> Prio]
  BY DEF MutexInv, Inv, ThreadInv
<1>. QED
  BY <1>1, <1>3, <1>4, <1>5, <1>6 DEF L!GiveUp

LEMMA Creates ==
    ASSUME MutexInv, MutexInv', NEW c, NEW m \in WaitQ, os_mutex_create(c, m)
    PROVE  L!Create(m)
<1>1. /\ ~mutex_live[m] /\ handler = "none" /\ handler' = "none"
      /\ mutex_live' = [mutex_live EXCEPT ![m] = TRUE]
      /\ lock_depth' = [lock_depth EXCEPT ![m] = 0]
      /\ p_owner' = [p_owner EXCEPT ![m] = NULL]
      /\ wait_peek' = wait_peek
  BY DEF os_mutex_create, MayCall, schVars
<1>2. q_items' = q_items /\ item_sch_tag' = item_sch_tag
  BY MutexCreateQueues
<1>3. /\ Existing = {r \in WaitQ : mutex_live[r]} /\ Owner = p_owner /\ Depth = lock_depth
      /\ Waiting = [r \in WaitQ |-> Range(q_items[r])]
  BY <1>1, CalmView
<1>4. /\ Existing' = {r \in WaitQ : mutex_live'[r]} /\ Owner' = p_owner'
      /\ Depth' = lock_depth' /\ Waiting' = [r \in WaitQ |-> Range(q_items'[r])]
  BY <1>1, CalmNext
<1>5. m \notin Existing /\ Existing' = Existing \cup {m}
  BY <1>1, <1>3, <1>4 DEF MutexInv, MutexTypes
<1>. QED
  BY <1>1, <1>2, <1>3, <1>4, <1>5 DEF L!Create

LEMMA Locks ==
    ASSUME Locked, MutexInv', NEW m \in WaitQ, handler = "none", mutex_live[m],
           Open(m), lock_depth[m] < MaxDepth, take(m)
    PROVE  L!Lock(p_current, m)
<1>1. /\ p_owner' = [p_owner EXCEPT ![m] = p_current]
      /\ lock_depth' = [lock_depth EXCEPT ![m] = (@ + 1) % UintMod]
      /\ UNCHANGED <<q_items, item_sch_tag, mutex_live, wait_peek>>
      /\ handler # "wake" /\ handler' # "wake"
  BY DEF take, vars, itemVars, schVars
<1>2. lock_depth[m] \in 0 .. MaxDepth
  BY DEF Locked, MutexInv, MutexTypes
<1>3. (lock_depth[m] + 1) % UintMod = lock_depth[m] + 1
  BY <1>2, Depths
<1>4. p_owner[m] \in {NULL, p_current}
  BY DEF Open, Locked, PassInv, FreeInv
<1>5. /\ Existing = {r \in WaitQ : mutex_live[r]} /\ Owner = p_owner /\ Depth = lock_depth
      /\ Waiting = [r \in WaitQ |-> Range(q_items[r])]
  BY <1>1, CalmView DEF Locked
<1>6. /\ Existing' = {r \in WaitQ : mutex_live'[r]} /\ Owner' = p_owner'
      /\ Depth' = lock_depth' /\ Waiting' = [r \in WaitQ |-> Range(q_items'[r])]
  BY <1>1, CalmNext
<1>7. m \in Existing /\ Existing' = Existing /\ Waiting' = Waiting
  BY <1>1, <1>5, <1>6
<1>8. Depth' = [Depth EXCEPT ![m] = @ + 1]
  BY <1>1, <1>3, <1>5, <1>6
<1>. QED
  BY <1>1, <1>4, <1>5, <1>6, <1>7, <1>8 DEF L!Lock

LEMMA StartsToWait ==
    ASSUME Locked, MutexInv', NEW m \in WaitQ, NEW peek \in BOOLEAN, NEW n,
           p_current \in Thread \ {Idle}, handler = "none", mutex_live[m],
           mutex_block(m, peek, n)
    PROVE  L!Wait(p_current, m, peek)
<1>1. /\ ~Open(m)
      /\ wait_peek' = [wait_peek EXCEPT ![p_current] = peek]
      /\ thd_block_current(m, TRUE, n)
      /\ UNCHANGED <<mutex_live, lock_depth, p_owner>>
  BY DEF mutex_block
<1>2. /\ item_sch_q' = [item_sch_q EXCEPT ![p_current] = m]
      /\ handler # "wake" /\ handler' # "wake"
  BY <1>1 DEF thd_block_current
<1>3. item_sch_tag' = item_sch_tag /\ item_sch_q[p_current] \notin WaitQ
  BY <1>1, BlockInserts DEF Locked, MutexInv
<1>4. p_owner[m] \notin {NULL, p_current}
  BY <1>1 DEF Open, Locked, PassInv, FreeInv
<1>5. /\ Existing = {r \in WaitQ : mutex_live[r]} /\ Owner = p_owner /\ Depth = lock_depth
      /\ Waiting = [r \in WaitQ |-> Range(q_items[r])]
  BY <1>2, CalmView DEF Locked
<1>6. /\ Existing' = Existing /\ Owner' = Owner /\ Depth' = Depth
      /\ Waiting' = [r \in WaitQ |-> Range(q_items'[r])]
  BY <1>1, <1>2, <1>5, CalmNext
<1>7. ASSUME NEW r \in WaitQ
      PROVE  /\ p_current \notin Range(q_items[r])
             /\ Range(q_items'[r]) = IF r = m THEN Range(q_items[r]) \cup {p_current}
                                     ELSE Range(q_items[r])
  <2>1. Range(q_items[r]) = {t \in Thread : item_sch_q[t] = r}
    BY WaitersOf DEF Locked, MutexInv
  <2>2. Range(q_items'[r]) = {t \in Thread : item_sch_q'[t] = r}
    BY WaitersNow DEF MutexInv
  <2>3. item_sch_q \in [Thread -> SchQ \cup {NULL}]
    BY DEF Locked, MutexInv, Inv, ItemInv, Queues
  <2>. QED
    BY <1>2, <1>3, <2>1, <2>2, <2>3
<1>8. Waiting' = [Waiting EXCEPT ![m] = @ \cup {p_current}]
  BY <1>5, <1>6, <1>7
<1>. QED
  BY <1>1, <1>3, <1>4, <1>5, <1>6, <1>7, <1>8 DEF L!Wait

LEMMA Unlocks ==
    ASSUME MutexInv, MutexInv', NEW m \in WaitQ, handler = "none", mutex_live[m],
           p_owner[m] = p_current, lock_depth[m] > 1,
           lock_depth' = [lock_depth EXCEPT ![m] = @ - 1],
           UNCHANGED <<vars, mutex_live, p_owner, wait_peek, wake>>
    PROVE  L!Unlock(p_current, m)
<1>1. /\ UNCHANGED <<q_items, item_sch_tag>> /\ handler # "wake" /\ handler' # "wake"
  BY DEF vars, itemVars, schVars
<1>2. /\ Existing = {r \in WaitQ : mutex_live[r]} /\ Owner = p_owner /\ Depth = lock_depth
      /\ Waiting = [r \in WaitQ |-> Range(q_items[r])]
  BY <1>1, CalmView
<1>3. /\ Existing' = {r \in WaitQ : mutex_live'[r]} /\ Owner' = p_owner'
      /\ Depth' = lock_depth' /\ Waiting' = [r \in WaitQ |-> Range(q_items'[r])]
  BY <1>1, CalmNext
<1>. QED
  BY <1>1, <1>2, <1>3 DEF L!Unlock

\* The last lock of m is undone.  What the loop will do is done at once.
LEMMA HandsOver ==
    ASSUME Locked, MutexInv', NEW m \in WaitQ, handler = "none", mutex_live[m],
           p_owner[m] = p_current, lock_depth[m] = 1, enter_loop("unlock", m)
    PROVE  L!PassOn(p_current, m) \/ L!Release(p_current, m)
<1>. DEFINE q == q_items[m]
            W == Wanting(q, wait_peek)
            S == Served(q, wait_peek)
<1>1. /\ handler' = "wake" /\ wake' = [loop |-> "unlock", mutex |-> m]
      /\ UNCHANGED <<q_items, item_sch_tag, mutex_live, lock_depth, p_owner, wait_peek>>
  BY DEF enter_loop, itemVars
<1>2. LoopOf("unlock", m)'
  BY <1>1 DEF LoopOf
<1>3. /\ Existing = {r \in WaitQ : mutex_live[r]} /\ Owner = p_owner /\ Depth = lock_depth
      /\ Waiting = [r \in WaitQ |-> Range(q_items[r])]
  BY CalmView DEF Locked
<1>4. /\ Existing' = Existing
      /\ Owner' = [p_owner EXCEPT ![m] = IF W = {} THEN NULL ELSE NextOwner(m)']
      /\ Depth' = [lock_depth EXCEPT ![m] = IF W = {} THEN 0 ELSE 1]
      /\ Waiting' = [r \in WaitQ |->
            IF r = m THEN Range(q_items[r]) \ Served(q_items[r], wait_peek)
            ELSE Range(q_items[r])]
  BY <1>1, <1>2, <1>3, UnlockNext
<1>5. NextOwner(m)' = q[Min(W)]
  BY <1>1 DEF NextOwner
<1>6. /\ Queue(q, Thread) /\ q \in Seq(Thread) /\ Sorted(q, item_sch_tag)
      /\ item_sch_tag \in [Thread -> Nat]
  BY WaitersOf, Constants
  DEF Locked, PassInv, WaitersByPriority, MutexInv, Inv, ThreadInv, Queue
<1>7. lock_depth \in [WaitQ -> 0 .. MaxDepth] /\ p_owner \in [WaitQ -> Thread \cup {NULL}]
  BY DEF Locked, MutexInv, MutexTypes
<1>8. L!Peekers(m) = {t \in Range(q) : wait_peek[t]}
  BY <1>3 DEF L!Peekers
<1>9. /\ m \in Existing /\ UNCHANGED <<Existing, wait_peek, item_sch_tag>>
      /\ Owner[m] = p_current /\ Depth[m] = 1
      /\ Waiting[m] = Range(q) /\ Waiting' = [Waiting EXCEPT ![m] = @ \ S]
  BY <1>1, <1>3, <1>4
<1>10. CASE W = {}
  <2>1. S = Range(q) /\ \A t \in Range(q) : wait_peek[t]
    BY <1>6, <1>10, NobodyWanting
  <2>2. Waiting[m] = L!Peekers(m) /\ Waiting' = [Waiting EXCEPT ![m] = {}]
    BY <1>8, <1>9, <2>1
  <2>3. Owner' = [Owner EXCEPT ![m] = NULL] /\ Depth' = [Depth EXCEPT ![m] = 0]
    BY <1>3, <1>4, <1>10
  <2>. QED
    BY <1>9, <2>2, <2>3 DEF L!Release
<1>11. CASE W # {}
  <2>. DEFINE next == q[Min(W)]
              served == S \ {next}
  <2>1. /\ next \in Range(q) /\ ~wait_peek[next] /\ next \in S /\ S \subseteq Range(q)
        /\ \A u \in served : wait_peek[u] /\ item_sch_tag[u] <= item_sch_tag[next]
        /\ \A u \in Range(q) \ S : item_sch_tag[next] <= item_sch_tag[u]
    BY <1>6, <1>11, FirstIsHighest
  <2>2. next \in Waiting[m] \ L!Peekers(m)
    BY <1>8, <1>9, <2>1
  <2>3. served \in SUBSET L!Peekers(m) /\ served \cup {next} = S
    BY <1>8, <2>1
  <2>4. Owner' = [Owner EXCEPT ![m] = next]
    BY <1>3, <1>4, <1>5, <1>11
  <2>5. Depth' = Depth
    BY <1>3, <1>4, <1>7, <1>11
  <2>. HIDE DEF next, served, S
  <2>6. /\ \A u \in Waiting[m] \ (served \cup {next}) : item_sch_tag[next] <= item_sch_tag[u]
        /\ Waiting' = [Waiting EXCEPT ![m] = @ \ (served \cup {next})]
    BY <1>9, <2>1, <2>3
  <2>. QED
    BY <1>9, <2>1, <2>2, <2>3, <2>4, <2>5, <2>6 DEF L!PassOn
<1>. QED
  BY <1>10, <1>11

LEMMA Deletes ==
    ASSUME MutexInv, MutexInv', NEW m \in WaitQ, handler = "none", mutex_live[m],
           enter_loop("delete", m)
    PROVE  L!Delete(m)
<1>1. /\ handler' = "wake" /\ wake' = [loop |-> "delete", mutex |-> m]
      /\ UNCHANGED <<q_items, item_sch_tag, mutex_live, lock_depth, p_owner, wait_peek>>
  BY DEF enter_loop, itemVars
<1>2. LoopOf("delete", m)' /\ handler # "wake"
  BY <1>1 DEF LoopOf
<1>3. /\ Existing = {r \in WaitQ : mutex_live[r]} /\ Owner = p_owner /\ Depth = lock_depth
      /\ Waiting = [r \in WaitQ |-> Range(q_items[r])]
  BY <1>2, CalmView
<1>4. /\ Existing' = {r \in WaitQ : mutex_live'[r] /\ r # m}
      /\ Owner' = p_owner' /\ Depth' = lock_depth'
      /\ Waiting' = [r \in WaitQ |-> IF r = m THEN {} ELSE Range(q_items'[r])]
  BY <1>2, DeleteNext
<1>5. /\ m \in Existing /\ Existing' = Existing \ {m}
      /\ Waiting' = [Waiting EXCEPT ![m] = {}]
  BY <1>1, <1>3, <1>4
<1>. QED
  BY <1>1, <1>3, <1>4, <1>5 DEF L!Delete

\* A turn of the loop in os_mutex_unlock: the thread that is readied was to be
\* served anyway, and to become the owner if it does.
LEMMA PassesOn ==
    ASSUME MutexInv, MutexInv', NEW m \in WaitQ, m = wake.mutex, mutex_unlock_iterate
    PROVE  UNCHANGED L!lockingVars
<1>. DEFINE q == q_items[m]
            h == Head(q)
            W == Wanting(q, wait_peek)
<1>1. /\ handler = "wake" /\ wake.loop = "unlock" /\ q # <<>>
      /\ Waiters = q /\ pass_on
      /\ thd_ready(h)
      /\ sch_set_next_thread(ReadyItems(h)) \/ q_items' = ReadyItems(h)
      /\ UNCHANGED <<mutex_live, lock_depth, wait_peek>>
  BY DEF mutex_unlock_iterate, sch_reschedule_req, Waiters
<1>2. /\ h \in Thread /\ q_items'[m] = Tail(q) /\ item_sch_tag' = item_sch_tag
      /\ \A r \in WaitQ \ {m} : q_items'[r] = q_items[r]
  BY <1>1, ServedTail
<1>3. Queue(q, Thread) /\ q \in Seq(Thread)
  BY WaitersOf DEF MutexInv, Queue
<1>4. LoopOf("unlock", m) /\ lock_depth[m] = 1
  BY <1>1 DEF LoopOf, MutexInv, LoopInv
<1>5. /\ Existing = {r \in WaitQ : mutex_live[r]}
      /\ Owner = [p_owner EXCEPT ![m] = IF W = {} THEN NULL ELSE NextOwner(m)]
      /\ Depth = [lock_depth EXCEPT ![m] = IF W = {} THEN 0 ELSE 1]
      /\ Waiting = [r \in WaitQ |->
            IF r = m THEN Range(q_items[r]) \ Served(q_items[r], wait_peek)
            ELSE Range(q_items[r])]
  BY <1>4, UnlockView
<1>6. NextOwner(m) = q[Min(W)]
  BY DEF NextOwner
<1>7. CASE wait_peek[h] /\ UNCHANGED <<p_owner, held, handler, wake>>
  <2>1. LoopOf("unlock", m)'
    BY <1>1, <1>4, <1>7 DEF LoopOf
  <2>. DEFINE V == Wanting(Tail(q), wait_peek)
  <2>2. /\ Existing' = Existing
        /\ Owner' = [p_owner EXCEPT ![m] = IF V = {} THEN NULL ELSE NextOwner(m)']
        /\ Depth' = [lock_depth EXCEPT ![m] = IF V = {} THEN 0 ELSE 1]
        /\ Waiting' = [r \in WaitQ |->
              IF r = m THEN Range(q_items'[r]) \ Served(q_items'[r], wait_peek)
              ELSE Range(q_items'[r])]
    BY <1>1, <1>2, <1>5, <1>7, <2>1, UnlockNext
  <2>3. NextOwner(m)' = Tail(q)[Min(V)]
    BY <1>1, <1>2 DEF NextOwner
  <2>4. /\ W = {} <=> V = {}
        /\ W # {} => q[Min(W)] = Tail(q)[Min(V)]
        /\ Range(q) \ Served(q, wait_peek) = Range(Tail(q)) \ Served(Tail(q), wait_peek)
    BY <1>1, <1>3, <1>7, WantingTail
  <2>. HIDE DEF V, W
  <2>5. Owner' = Owner /\ Depth' = Depth
    BY <1>5, <1>6, <2>2, <2>3, <2>4
  <2>6. Waiting' = Waiting
    BY <1>2, <1>5, <2>2, <2>4
  <2>. QED
    BY <1>1, <1>2, <2>2, <2>5, <2>6 DEF L!lockingVars
<1>8. CASE /\ ~wait_peek[h]
           /\ p_owner' = [p_owner EXCEPT ![m] = h]
           /\ handler' = "none"
  <2>1. /\ Existing' = Existing /\ Owner' = p_owner' /\ Depth' = lock_depth'
        /\ Waiting' = [r \in WaitQ |-> Range(q_items'[r])]
    BY <1>1, <1>5, <1>8, CalmNext
  <2>2. h = q[1] /\ Len(q) \in Nat \ {0} /\ DOMAIN q = 1 .. Len(q)
    BY <1>1, <1>3, EmptySeq
  <2>3. 1 \in W
    BY <1>8, <2>2 DEF Wanting
  <2>4. /\ Min(W) \in 1 .. Len(q) /\ \A j \in 1 .. Len(q) : j < Min(W) => wait_peek[q[j]]
        /\ Served(q, wait_peek) = {q[j] : j \in 1 .. Min(W)}
    BY <1>3, <2>3, FirstWanting
  <2>5. Min(W) = 1
    BY <1>8, <2>2, <2>4
  <2>6. q[Min(W)] = h /\ Served(q, wait_peek) = {h}
    BY <2>2, <2>4, <2>5
  <2>7. Range(Tail(q)) = Range(q) \ {h}
    <3>1. h \in Range(q) /\ RemoveFirst(q, h) = Tail(q)
      BY <1>1, <1>3, RotateQueue, RemoveHead
    <3>. QED
      BY <1>3, <3>1, RemoveQueue
  <2>8. Owner' = Owner
    BY <1>5, <1>6, <1>8, <2>1, <2>3, <2>6
  <2>9. Depth' = Depth
    BY <1>1, <1>4, <1>5, <2>1, <2>3 DEF MutexInv, MutexTypes
  <2>. HIDE DEF h, q
  <2>10. Waiting' = Waiting
    <3>1. q_items[m] = q
      BY DEF q
    <3>. QED
      BY <1>2, <1>5, <2>1, <2>6, <2>7, <3>1
  <2>. QED
    BY <1>1, <1>2, <2>1, <2>8, <2>9, <2>10 DEF L!lockingVars
<1>. QED
  BY <1>1, <1>7, <1>8 DEF pass_on, leave_loop

\* The loop in os_mutex_unlock ends with nobody left.
LEMMA UnlockEnds ==
    ASSUME MutexInv, MutexInv', NEW m \in WaitQ, m = wake.mutex, mutex_unlock_free
    PROVE  UNCHANGED L!lockingVars
<1>1. /\ handler = "wake" /\ wake.loop = "unlock" /\ handler' = "none"
      /\ q_items[m] = <<>>
      /\ lock_depth' = [lock_depth EXCEPT ![m] = 0]
      /\ p_owner' = [p_owner EXCEPT ![m] = NULL]
      /\ UNCHANGED <<q_items, item_sch_tag, mutex_live, wait_peek>>
  BY DEF mutex_unlock_free, leave_loop, Waiters, itemVars
<1>2. LoopOf("unlock", m)
  BY <1>1 DEF LoopOf
<1>3. Wanting(q_items[m], wait_peek) = {} /\ Range(q_items[m]) = {}
  BY <1>1 DEF Wanting, Range
<1>4. /\ Existing = {r \in WaitQ : mutex_live[r]}
      /\ Owner = [p_owner EXCEPT ![m] = NULL] /\ Depth = [lock_depth EXCEPT ![m] = 0]
      /\ Waiting = [r \in WaitQ |->
            IF r = m THEN Range(q_items[r]) \ Served(q_items[r], wait_peek)
            ELSE Range(q_items[r])]
  BY <1>2, <1>3, UnlockView
<1>5. /\ Existing' = {r \in WaitQ : mutex_live'[r]}
      /\ Owner' = p_owner' /\ Depth' = lock_depth'
      /\ Waiting' = [r \in WaitQ |-> Range(q_items'[r])]
  BY <1>1, CalmNext
<1>6. Waiting' = Waiting
  BY <1>1, <1>3, <1>4, <1>5
<1>. QED
  BY <1>1, <1>4, <1>5, <1>6 DEF L!lockingVars

\* A turn of mutex_delete_static: the thread that fails does not wait any more.
LEMMA TurnsAway ==
    ASSUME MutexInv, MutexInv', NEW m \in WaitQ, m = wake.mutex, mutex_delete_iterate
    PROVE  UNCHANGED L!lockingVars
<1>1. /\ handler = "wake" /\ wake.loop = "delete" /\ Waiters # <<>>
      /\ thd_ready(Head(Waiters)) /\ q_items' = ReadyItems(Head(Waiters))
      /\ UNCHANGED <<handler, wake, mutex_live, lock_depth, p_owner, wait_peek>>
  BY DEF mutex_delete_iterate, schVars, mutexVars
<1>2. /\ item_sch_tag' = item_sch_tag
      /\ \A r \in WaitQ \ {m} : q_items'[r] = q_items[r]
  BY <1>1, ServedTail
<1>3. LoopOf("delete", m) /\ LoopOf("delete", m)'
  BY <1>1 DEF LoopOf
<1>4. /\ Existing = {r \in WaitQ : mutex_live[r] /\ r # m}
      /\ Owner = p_owner /\ Depth = lock_depth
      /\ Waiting = [r \in WaitQ |-> IF r = m THEN {} ELSE Range(q_items[r])]
  BY <1>3, DeleteView
<1>5. /\ Existing' = {r \in WaitQ : mutex_live'[r] /\ r # m}
      /\ Owner' = p_owner' /\ Depth' = lock_depth'
      /\ Waiting' = [r \in WaitQ |-> IF r = m THEN {} ELSE Range(q_items'[r])]
  BY <1>3, DeleteNext
<1>6. Waiting' = Waiting
  BY <1>2, <1>4, <1>5
<1>. QED
  BY <1>1, <1>2, <1>4, <1>5, <1>6 DEF L!lockingVars

LEMMA DeleteEnds ==
    ASSUME MutexInv, MutexInv', NEW m \in WaitQ, m = wake.mutex, mutex_delete_done
    PROVE  UNCHANGED L!lockingVars
<1>1. /\ handler = "wake" /\ wake.loop = "delete" /\ handler' = "none"
      /\ q_items[m] = <<>>
      /\ sch_set_next_thread(q_items) \/ q_items' = q_items
      /\ mutex_live' = [mutex_live EXCEPT ![m] = FALSE]
      /\ UNCHANGED <<item_sch_tag, lock_depth, p_owner, wait_peek>>
  BY DEF mutex_delete_done, leave_loop, sch_reschedule_req, Waiters
<1>2. \A r \in WaitQ : q_items'[r] = q_items[r]
  BY <1>1, IdleQueued, ChoosesElsewhere DEF MutexInv, Inv, ItemInv
<1>3. LoopOf("delete", m)
  BY <1>1 DEF LoopOf
<1>4. /\ Existing = {r \in WaitQ : mutex_live[r] /\ r # m}
      /\ Owner = p_owner /\ Depth = lock_depth
      /\ Waiting = [r \in WaitQ |-> IF r = m THEN {} ELSE Range(q_items[r])]
  BY <1>3, DeleteView
<1>5. /\ Existing' = {r \in WaitQ : mutex_live'[r]}
      /\ Owner' = p_owner' /\ Depth' = lock_depth'
      /\ Waiting' = [r \in WaitQ |-> Range(q_items'[r])]
  BY <1>1, CalmNext
<1>6. Existing' = Existing
  BY <1>1, <1>4, <1>5 DEF MutexInv, MutexTypes
<1>7. Range(q_items[m]) = {}
  BY <1>1 DEF Range
<1>8. Waiting' = Waiting
  BY <1>2, <1>4, <1>5, <1>7
<1>. QED
  BY <1>1, <1>4, <1>5, <1>6, <1>8 DEF L!lockingVars

LEMMA CallLocks == ASSUME Locked, MutexInv', MutexCallNext PROVE L!LockingNext
<1>. SUFFICES ASSUME NEW m \in WaitQ,
                     \/ \E c \in Context : os_mutex_create(c, m) \/ os_mutex_delete(c, m)
                     \/ \E n \in Timeouts \cup {0} :
                           os_mutex_lock(m, n) \/ os_mutex_peek(m, n)
                     \/ os_mutex_lock_nb(m)
                     \/ os_mutex_unlock(m)
              PROVE  L!LockingNext
  BY DEF MutexCallNext
<1>1. ASSUME NEW c \in Context, os_mutex_create(c, m) PROVE L!LockingNext
  BY <1>1, Creates DEF L!LockingNext, Locked
<1>2. ASSUME NEW c \in Context, os_mutex_delete(c, m) PROVE L!LockingNext
  <2>1. L!Delete(m)
    BY <1>2, Deletes DEF os_mutex_delete, MayCall, Locked
  <2>. QED
    BY <2>1 DEF L!LockingNext
<1>3. ASSUME NEW api, MayCall("thread", api), mutex_live[m],
             Open(m), lock_depth[m] < MaxDepth, take(m)
      PROVE  L!LockingNext
  <2>1. p_current \in Thread /\ handler = "none"
    BY <1>3, CallingThread DEF Locked, MutexInv, MayCall
  <2>2. L!Lock(p_current, m)
    BY <1>3, <2>1, Locks
  <2>. QED
    BY <2>1, <2>2 DEF L!LockingNext
<1>4. ASSUME NEW api, MayCall("thread", api), mutex_live[m],
             NEW peek \in BOOLEAN, NEW n, mutex_block(m, peek, n)
      PROVE  L!LockingNext
  <2>1. p_current \in Thread \ {Idle} /\ handler = "none"
    BY <1>4, CallingThread DEF Locked, MutexInv, MayCall
  <2>2. L!Wait(p_current, m, peek)
    BY <1>4, <2>1, StartsToWait
  <2>. QED
    BY <2>1, <2>2 DEF L!LockingNext
<1>5. CASE os_mutex_unlock(m)
  <2>1. /\ p_current \in Thread /\ handler = "none"
        /\ mutex_live[m] /\ p_owner[m] = p_current
    BY <1>5, CallingThread DEF os_mutex_unlock, Locked, MutexInv, MayCall
  <2>2. CASE /\ lock_depth[m] > 1
             /\ lock_depth' = [lock_depth EXCEPT ![m] = @ - 1]
             /\ UNCHANGED <<vars, mutex_live, p_owner, wait_peek, wake>>
    <3>1. L!Unlock(p_current, m)
      BY <2>1, <2>2, Unlocks DEF Locked
    <3>. QED
      BY <2>1, <3>1 DEF L!LockingNext
  <2>3. CASE lock_depth[m] = 1 /\ enter_loop("unlock", m)
    <3>1. L!PassOn(p_current, m) \/ L!Release(p_current, m)
      BY <2>1, <2>3, HandsOver
    <3>. QED
      BY <2>1, <3>1 DEF L!LockingNext
  <2>. QED
    BY <1>5, <2>2, <2>3 DEF os_mutex_unlock
<1>6. ASSUME NEW n \in Timeouts \cup {0}, os_mutex_lock(m, n) \/ os_mutex_peek(m, n)
      PROVE  L!LockingNext
  BY <1>3, <1>4, <1>6 DEF os_mutex_lock, os_mutex_peek
<1>7. CASE os_mutex_lock_nb(m)
  BY <1>3, <1>7 DEF os_mutex_lock_nb
<1>. QED
  BY <1>1, <1>2, <1>5, <1>6, <1>7

LEMMA StepLocks ==
    ASSUME Locked, MutexInv', [MutexNext]_allVars
    PROVE  [L!LockingNext]_(L!lockingVars)
<1>1. CASE SchedulerNext
  BY <1>1, GivesUp DEF L!LockingNext, Locked
<1>2. CASE MutexCallNext
  BY <1>2, CallLocks
<1>3. CASE MutexLoopNext
  <2>1. PICK m \in WaitQ : m = wake.mutex
    BY <1>3 DEF MutexLoopNext, mutex_unlock_iterate, mutex_unlock_free, mutex_delete_iterate,
       mutex_delete_done, Locked, MutexInv, MutexTypes, LoopInv, Wake
  <2>. QED
    BY <1>3, <2>1, PassesOn, UnlockEnds, TurnsAway, DeleteEnds DEF MutexLoopNext, Locked
<1>4. CASE UNCHANGED allVars
  BY <1>4 DEF allVars, mutexVars, vars, schVars, itemVars, L!lockingVars, Existing, Owner,
     Depth, Waiting, Freeing, LoopOf
<1>. QED
  BY <1>1, <1>2, <1>3, <1>4 DEF MutexNext

LEMMA InitLocks == MutexInit => L!LockingInit
<1>. SUFFICES ASSUME MutexInit PROVE L!LockingInit
  OBVIOUS
<1>1. MutexInv /\ handler # "wake"
  BY MutexInvInit DEF MutexInit, Init
<1>2. /\ Existing = {m \in WaitQ : mutex_live[m]} /\ Owner = p_owner /\ Depth = lock_depth
      /\ Waiting = [m \in WaitQ |-> Range(q_items[m])]
  BY <1>1, CalmView
<1>3. \A m \in WaitQ : Range(q_items[m]) = {}
  BY WaitQNames, Constants DEF MutexInit, Init, Range
<1>4. item_sch_tag \in [Thread -> Prio]
  BY <1>1 DEF MutexInv, Inv, ThreadInv
<1>. QED
  BY <1>2, <1>3, <1>4 DEF MutexInit, L!LockingInit

\* Mutexes lock: seen from outside, every call takes effect at once, and a mutex
\* goes from its owner straight to a thread of the highest priority that waits to
\* own it, although os_mutex_unlock and mutex_delete_static wake them one by one.
THEOREM ImplementsLocking == MutexSpec => MutexLocks
<1>1. MutexInit => Locked
  BY MutexInvInit, PassInit DEF Locked
<1>2. Locked /\ [MutexNext]_allVars => Locked'
  BY MutexInvStep, PassStep DEF Locked
<1>3. Locked /\ Locked' /\ [MutexNext]_allVars => [L!LockingNext]_(L!lockingVars)
  BY StepLocks DEF Locked
<1>. QED
  BY <1>1, <1>2, <1>3, InitLocks, PTL DEF MutexSpec, MutexLocks, L!LockingSpec
=============================================================================
