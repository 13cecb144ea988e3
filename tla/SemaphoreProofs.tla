--------------------------- MODULE SemaphoreProofs ---------------------------
(***************************************************************************)
(* Proofs about Semaphore, for any number of threads, semaphores and       *)
(* priorities, any width of os_uint_t and any choice of calls.  They build *)
(* on the invariant of the scheduler.                                      *)
(***************************************************************************)
EXTENDS Semaphore, SchedulerProofs, FiniteSetTheorems

-----------------------------------------------------------------------------
(* The inductive invariant *)

SemTypes ==
    /\ sem_live \in [WaitQ -> BOOLEAN]
    /\ counter \in [WaitQ -> 0 .. (UintMod - 1)]
    /\ wait_peek \in [Thread -> BOOLEAN]
    /\ result \in [Thread -> BOOLEAN]
    /\ wake \in Wake \cup {NULL}

\* A loop runs on a semaphore that exists.
LoopInv ==
    /\ handler = "wake" <=> wake # NULL
    /\ wake # NULL => sem_live[wake.sem]

Looping(s) == wake # NULL /\ wake.sem = s

\* What holds of a thread that is in the wait queue s.
WaitsRightly(t, s) ==
    /\ p_schinfo[t] /\ ~result[t]
    /\ sem_live[s]
    /\ counter[s] = 0 \/ Looping(s)

WaiterInv == \A t \in Thread : item_sch_q[t] \in WaitQ => WaitsRightly(t, item_sch_q[t])

SemInv == Inv /\ SemTypes /\ LoopInv /\ WaiterInv

LEMMA SemInvImplies == SemInv => SemTypeOK /\ NoSleepOnTokens /\ WaiterInfo
<1>. SUFFICES ASSUME SemInv PROVE SemTypeOK /\ NoSleepOnTokens /\ WaiterInfo
  OBVIOUS
<1>1. SemTypeOK
  BY InvImplies DEF SemInv, SemTypes, LoopInv, SemTypeOK
<1>2. ASSUME NEW s \in WaitQ, NEW t \in Range(q_items[s])
      PROVE  t \in Thread /\ item_sch_q[t] = s /\ WaitsRightly(t, s)
  <2>1. s \in SchQ /\ q_items[s] \in Seq(Thread)
    BY WaitQNames DEF SemInv, Inv, ItemInv, Queues
  <2>2. t \in Thread
    BY <2>1 DEF Range
  <2>3. item_sch_q[t] = s
    BY <2>1, <2>2 DEF SemInv, Inv, ItemInv, Queues, Owned
  <2>. QED
    BY <2>2, <2>3 DEF SemInv, WaiterInv
<1>3. ASSUME NEW s \in WaitQ, q_items[s] # <<>>, handler # "wake"
      PROVE  sem_live[s] /\ counter[s] = 0
  <2>1. q_items[s] \in Seq(Thread)
    BY WaitQNames DEF SemInv, Inv, ItemInv, Queues
  <2>2. Head(q_items[s]) \in Range(q_items[s])
    BY <1>3, <2>1 DEF Range
  <2>. QED
    BY <1>2, <1>3, <2>2 DEF SemInv, LoopInv, WaitsRightly, Looping
<1>4. ASSUME NEW s \in WaitQ, NEW t \in Range(q_items[s])
      PROVE  state[t] = "BLOCKED" /\ p_schinfo[t] /\ ~result[t]
  <2>1. t \in Thread /\ item_sch_q[t] = s /\ WaitsRightly(t, s)
    BY <1>2
  <2>2. state[t] = "BLOCKED"
    BY <2>1, WaitQNames DEF SemInv, Inv, ThreadInv, ThreadStateInv, ThdState
  <2>. QED
    BY <2>1, <2>2 DEF WaitsRightly
<1>. QED
  BY <1>1, <1>3, <1>4 DEF NoSleepOnTokens, WaiterInfo

LEMMA SemInvInit == SemInit => SemInv
<1>. SUFFICES ASSUME SemInit PROVE SemInv
  OBVIOUS
<1>1. Inv
  BY InvInit DEF SemInit
<1>2. SemTypes
  BY SchedulerAssumption DEF SemInit, SemTypes
<1>3. LoopInv
  BY DEF SemInit, Init, LoopInv
<1>4. WaiterInv
  BY WaitQNames, Constants DEF SemInit, Init, WaiterInv
<1>. QED
  BY <1>1, <1>2, <1>3, <1>4 DEF SemInv

-----------------------------------------------------------------------------
(* The scheduler's steps *)

LEMMA SchedulerStep == ASSUME SemInv, Next, UNCHANGED semVars PROVE SemInv'
<1>1. Inv'
  BY InvStep DEF SemInv
<1>2. KeepsWaiters /\ handler # "wake" /\ handler' # "wake"
  BY NextKeeps DEF SemInv
<1>3. SemTypes' /\ LoopInv'
  BY <1>2 DEF SemInv, SemTypes, LoopInv, semVars
<1>4. WaiterInv'
  BY <1>2 DEF SemInv, WaiterInv, WaitsRightly, Looping, KeepsWaiters, semVars
<1>. QED
  BY <1>1, <1>3, <1>4 DEF SemInv

-----------------------------------------------------------------------------
(* The semaphore's own steps *)

LEMMA SemCreateStep ==
    ASSUME SemInv, NEW c, NEW s \in WaitQ, NEW n \in Initials, os_semaphore_create(c, s, n)
    PROVE  SemInv'
<1>1. /\ ~sem_live[s] /\ handler = "none"
      /\ sem_live' = [sem_live EXCEPT ![s] = TRUE]
      /\ counter' = [counter EXCEPT ![s] = n]
      /\ q_items' = [q_items EXCEPT ![s] = <<>>]
      /\ UNCHANGED <<state, item_sch_tag, item_sch_q, delayVars, p_schinfo,
                     timeVars, schVars, wait_peek, result, wake>>
  BY DEF os_semaphore_create, MayCall
<1>2. \A t \in Thread : item_sch_q[t] # s
  BY <1>1 DEF SemInv, WaiterInv, WaitsRightly
<1>3. q_items[s] = <<>>
  <2>1. q_items[s] \in Seq(Thread) /\ s \in SchQ
    BY WaitQNames DEF SemInv, Inv, ItemInv, Queues
  <2>2. \A t \in Thread : t \notin Range(q_items[s])
    BY <1>2, <2>1 DEF SemInv, Inv, ItemInv, Queues, Owned
  <2>3. q_items[s] # <<>> => Head(q_items[s]) \in Thread /\ Head(q_items[s]) \in Range(q_items[s])
    BY <2>1 DEF Range
  <2>. QED
    BY <2>2, <2>3
<1>4. q_items' = q_items
  BY <1>1, <1>3 DEF SemInv, Inv, ItemInv, Queues
<1>5. Inv'
  BY <1>1, <1>4, InvStutter DEF SemInv, vars, itemVars
<1>6. SemTypes' /\ LoopInv'
  BY <1>1, SemaphoreAssumption DEF SemInv, SemTypes, LoopInv, schVars
<1>7. WaiterInv'
  BY <1>1, <1>2 DEF SemInv, WaiterInv, WaitsRightly, Looping, SemTypes
<1>. QED
  BY <1>5, <1>6, <1>7 DEF SemInv

LEMMA EnterStep ==
    ASSUME SemInv, NEW s \in WaitQ, NEW loop \in {"reset", "delete"},
           NEW n \in 0 .. (UintMod - 1), handler = "none", Started, enter_loop(loop, s, n)
    PROVE  SemInv'
<1>1. /\ sem_live[s]
      /\ handler' = "wake"
      /\ wake' = [loop |-> loop, sem |-> s, counter |-> n]
      /\ UNCHANGED <<state, p_schinfo, itemVars, delayVars, timeVars, p_current,
                     p_next, pending, cpu, ctx, sem_live, counter, wait_peek, result>>
  BY DEF enter_loop
<1>2. ItemInv' /\ DelayInv' /\ ThreadInv'
  BY <1>1 DEF SemInv, Inv, ItemInv, DelayInv, ThreadInv, ThreadStateInv, IdleInv,
     itemVars, delayVars
<1>3. KernelInv'
  BY <1>1 DEF SemInv, Inv, KernelInv, StartInv, Started, HandlerName, timeVars
<1>4. wake' \in Wake /\ wake' # NULL /\ wake'.sem = s
  BY <1>1, SemaphoreAssumption DEF Wake
<1>5. SemTypes' /\ LoopInv'
  BY <1>1, <1>4 DEF SemInv, SemTypes, LoopInv
<1>6. WaiterInv'
  BY <1>1 DEF SemInv, WaiterInv, WaitsRightly, Looping, LoopInv, itemVars
<1>. QED
  BY <1>2, <1>3, <1>5, <1>6 DEF SemInv, Inv

\* A thread leaves the wait queue of the running loop; a token may go with it.
LEMMA ServeStep ==
    ASSUME SemInv, handler = "wake", Waiters # <<>>,
           thd_ready(Head(Waiters)), q_items' = ReadyItems(Head(Waiters)),
           UNCHANGED <<timeVars, schVars, sem_live, counter, wait_peek>>,
           wake' \in Wake, wake'.sem = wake.sem,
           \/ result' = result
           \/ result' = [result EXCEPT ![Head(Waiters)] = TRUE]
    PROVE  SemInv'
<1>. DEFINE t == Head(Waiters)
<1>1. wake # NULL /\ wake \in Wake /\ wake.sem \in WaitQ
  BY DEF SemInv, SemTypes, LoopInv, Wake
<1>2. t \in Thread
  BY <1>1, WaitQNames DEF SemInv, Inv, ItemInv, Queues, Waiters
<1>3. ItemInv' /\ DelayInv' /\ ThreadInv'
  BY <1>2, ReadyStep DEF SemInv, Inv
<1>4. KernelInv'
  BY DEF SemInv, Inv, KernelInv, StartInv, Started, timeVars, schVars
<1>5. wake' # NULL
  BY SemaphoreAssumption
<1>6. SemTypes' /\ LoopInv'
  BY <1>1, <1>5 DEF SemInv, SemTypes, LoopInv, schVars
<1>7. item_sch_q'[t] \notin WaitQ
  BY <1>2, WaitQNames DEF thd_ready, SemInv, Inv, ThreadInv
<1>8. KeepsWaiters
  BY <1>2, ReadyKeeps DEF SemInv
<1>9. \A u \in Thread \ {t} : result'[u] = result[u]
  BY DEF SemInv, SemTypes
<1>10. WaiterInv'
  BY <1>1, <1>5, <1>7, <1>8, <1>9
  DEF SemInv, WaiterInv, WaitsRightly, Looping, KeepsWaiters
<1>. QED
  BY <1>3, <1>4, <1>6, <1>10 DEF SemInv, Inv

LEMMA ResetIterateStep == SemInv /\ sem_reset_iterate => SemInv'
<1>. SUFFICES ASSUME SemInv, sem_reset_iterate PROVE SemInv'
  OBVIOUS
<1>1. wake \in Wake /\ handler = "wake" /\ wake.counter # 0 /\ Waiters # <<>>
  BY DEF SemInv, SemTypes, LoopInv, sem_reset_iterate
<1>2. wake' = [wake EXCEPT !.counter = IF wait_peek[Head(Waiters)] THEN @ ELSE @ - 1]
  BY DEF sem_reset_iterate
<1>3. wake' \in Wake /\ wake'.sem = wake.sem
  <2>1. wake.counter \in 0 .. (UintMod - 1) /\ UintMod \in Nat
    BY <1>1, SchedulerAssumption DEF Wake
  <2>2. wake.counter - 1 \in 0 .. (UintMod - 1)
    BY <1>1, <2>1
  <2>. QED
    BY <1>1, <1>2, <2>1, <2>2 DEF Wake
<1>. QED
  BY <1>1, <1>3, ServeStep DEF sem_reset_iterate

LEMMA DeleteIterateStep == SemInv /\ sem_delete_iterate => SemInv'
<1>. SUFFICES ASSUME SemInv, sem_delete_iterate PROVE SemInv'
  OBVIOUS
<1>1. wake \in Wake /\ handler = "wake" /\ Waiters # <<>> /\ wake' = wake /\ result' = result
  BY DEF SemInv, SemTypes, LoopInv, sem_delete_iterate, semVars
<1>. QED
  BY <1>1, ServeStep DEF sem_delete_iterate, semVars

\* The loop ends: its semaphore has no waiter, or exists and has no token.
LEMMA LeaveStep ==
    ASSUME SemInv, handler = "wake", leave_loop, SemTypes',
           \A s \in WaitQ \ {wake.sem} : sem_live'[s] = sem_live[s] /\ counter'[s] = counter[s],
           \/ Waiters = <<>>
           \/ sem_live'[wake.sem] /\ counter'[wake.sem] = 0
    PROVE  SemInv'
<1>1. /\ wake # NULL /\ wake.sem \in WaitQ
      /\ p_current \in Thread /\ p_next \in Thread /\ pending \in BOOLEAN
  BY DEF SemInv, SemTypes, LoopInv, Wake, Inv, KernelInv, StartInv, Started
<1>2. /\ sch_reschedule_req(q_items, item_sch_tag)
      /\ handler' = "none" /\ wake' = NULL
      /\ UNCHANGED <<state, item_sch_tag, item_sch_q, delayVars, p_schinfo, timeVars,
                     p_current, cpu, ctx, wait_peek, result>>
  BY DEF leave_loop
<1>3. Queues(q_items, item_sch_q, SchQ) /\ item_sch_q[Idle] = IdlePrio
  BY IdleQueued DEF SemInv, Inv, ItemInv
<1>4. Queues(q_items', item_sch_q, SchQ) /\ p_next' \in Thread /\ pending' \in BOOLEAN
  BY <1>1, <1>2, <1>3, RescheduleReq
<1>5. ItemInv' /\ DelayInv' /\ ThreadInv'
  BY <1>2, <1>4 DEF SemInv, Inv, ItemInv, DelayInv, ThreadInv, ThreadStateInv, IdleInv,
     delayVars
<1>6. KernelInv'
  BY <1>1, <1>2, <1>4, Constants
  DEF SemInv, Inv, KernelInv, StartInv, Started, HandlerName, timeVars
<1>7. LoopInv'
  BY <1>2 DEF LoopInv
<1>8. WaiterInv'
  <2>. SUFFICES ASSUME NEW t \in Thread, item_sch_q[t] \in WaitQ
                PROVE  WaitsRightly(t, item_sch_q[t])'
    BY <1>2 DEF WaiterInv
  <2>. DEFINE s == item_sch_q[t]
  <2>1. WaitsRightly(t, s)
    BY DEF SemInv, WaiterInv
  <2>2. CASE s # wake.sem
    BY <1>2, <2>1, <2>2 DEF WaitsRightly, Looping
  <2>3. CASE s = wake.sem
    <3>1. t \in Range(q_items[s])
      BY <1>1, <1>3, WaitQNames DEF Queues, Owned
    <3>2. Waiters # <<>>
      BY <2>3, <3>1 DEF Waiters, Range
    <3>. QED
      BY <1>2, <2>1, <2>3, <3>2 DEF WaitsRightly, Looping
  <2>. QED
    BY <2>2, <2>3
<1>. QED
  BY <1>5, <1>6, <1>7, <1>8 DEF SemInv, Inv

LEMMA ResetDoneStep == SemInv /\ sem_reset_done => SemInv'
<1>. SUFFICES ASSUME SemInv, sem_reset_done PROVE SemInv'
  OBVIOUS
<1>1. wake \in Wake /\ wake.sem \in WaitQ /\ handler = "wake" /\ sem_live[wake.sem]
  BY DEF SemInv, SemTypes, LoopInv, Wake, sem_reset_done
<1>2. /\ counter' = [counter EXCEPT ![wake.sem] = wake.counter] /\ sem_live' = sem_live
      /\ Waiters = <<>> \/ wake.counter = 0
      /\ leave_loop
  BY DEF sem_reset_done
<1>3. SemTypes'
  BY <1>1, <1>2 DEF SemInv, SemTypes, leave_loop, Wake
<1>. QED
  BY <1>1, <1>2, <1>3, LeaveStep DEF SemInv, SemTypes

LEMMA DeleteDoneStep == SemInv /\ sem_delete_done => SemInv'
<1>. SUFFICES ASSUME SemInv, sem_delete_done PROVE SemInv'
  OBVIOUS
<1>1. wake \in Wake /\ wake.sem \in WaitQ /\ handler = "wake"
  BY DEF SemInv, SemTypes, LoopInv, Wake, sem_delete_done
<1>2. /\ sem_live' = [sem_live EXCEPT ![wake.sem] = FALSE] /\ counter' = counter
      /\ Waiters = <<>>
      /\ leave_loop
  BY DEF sem_delete_done
<1>3. SemTypes'
  BY <1>1, <1>2 DEF SemInv, SemTypes, leave_loop
<1>. QED
  BY <1>1, <1>2, <1>3, LeaveStep DEF SemInv, SemTypes

LEMMA SemBlockStep ==
    ASSUME SemInv, NEW s \in WaitQ, NEW peek \in BOOLEAN, NEW n \in Nat,
           p_current \in Thread \ {Idle}, handler = "none", sem_live[s], sem_block(s, peek, n)
    PROVE  SemInv'
<1>1. /\ counter[s] = 0
      /\ wait_peek' = [wait_peek EXCEPT ![p_current] = peek]
      /\ result' = [result EXCEPT ![p_current] = FALSE]
      /\ thd_block_current(s, TRUE, n)
      /\ UNCHANGED <<sem_live, counter, wake>>
  BY DEF sem_block
<1>2. s # NULL
  BY WaitQNames
<1>3. Inv'
  BY <1>1, <1>2, BlockStep DEF SemInv
<1>4. /\ item_sch_q' = [item_sch_q EXCEPT ![p_current] = s]
      /\ p_schinfo' = [p_schinfo EXCEPT ![p_current] = TRUE]
      /\ handler' = handler
  BY <1>1 DEF thd_block_current
<1>5. SemTypes' /\ LoopInv'
  BY <1>1, <1>4 DEF SemInv, SemTypes, LoopInv
<1>6. WaiterInv'
  BY <1>1, <1>4
  DEF SemInv, SemTypes, Inv, ThreadInv, WaiterInv, WaitsRightly, Looping
<1>. QED
  BY <1>3, <1>5, <1>6 DEF SemInv

\* A call takes a token without waiting: nobody waits where there is one.
LEMMA TakeStep ==
    ASSUME SemInv, NEW s \in WaitQ, handler = "none", counter[s] # 0,
           counter' = [counter EXCEPT ![s] = @ - 1],
           UNCHANGED <<vars, sem_live, wait_peek, result, wake>>
    PROVE  SemInv'
<1>1. Inv'
  BY InvStutter DEF SemInv
<1>2. handler' = handler /\ item_sch_q' = item_sch_q /\ p_schinfo' = p_schinfo
  BY DEF vars, schVars, itemVars
<1>3. counter[s] - 1 \in 0 .. (UintMod - 1)
  BY SchedulerAssumption DEF SemInv, SemTypes
<1>4. SemTypes' /\ LoopInv'
  BY <1>2, <1>3 DEF SemInv, SemTypes, LoopInv
<1>5. WaiterInv'
  BY <1>2 DEF SemInv, SemTypes, LoopInv, WaiterInv, WaitsRightly, Looping
<1>. QED
  BY <1>1, <1>4, <1>5 DEF SemInv

LEMMA SemCallStep == SemInv /\ SemCallNext => SemInv'
<1>. SUFFICES ASSUME SemInv, NEW s \in WaitQ,
                     \/ \E c \in Context :
                           \/ \E n \in Initials :
                                 os_semaphore_create(c, s, n) \/ os_semaphore_reset(c, s, n)
                           \/ os_semaphore_post(c, s)
                           \/ os_semaphore_delete(c, s)
                           \/ os_semaphore_wait_nb(c, s)
                     \/ \E n \in Timeouts \cup {0} :
                           os_semaphore_wait(s, n) \/ os_semaphore_peek(s, n)
              PROVE  SemInv'
  BY DEF SemCallNext
<1>1. ASSUME NEW c \in Context, NEW n \in Initials, os_semaphore_reset(c, s, n)
      PROVE  SemInv'
  BY <1>1, EnterStep, SemaphoreAssumption DEF os_semaphore_reset, MayCall
<1>2. ASSUME NEW c \in Context, os_semaphore_post(c, s) PROVE SemInv'
  <2>1. (counter[s] + 1) % UintMod \in 0 .. (UintMod - 1)
    BY SchedulerAssumption DEF SemInv, SemTypes
  <2>. QED
    BY <1>2, <2>1, EnterStep DEF os_semaphore_post, MayCall
<1>3. ASSUME NEW c \in Context, os_semaphore_delete(c, s) PROVE SemInv'
  <2>1. 0 \in 0 .. (UintMod - 1)
    BY SchedulerAssumption
  <2>. QED
    BY <1>3, <2>1, EnterStep DEF os_semaphore_delete, MayCall
<1>4. ASSUME NEW c \in Context, os_semaphore_wait_nb(c, s) PROVE SemInv'
  BY <1>4, TakeStep DEF os_semaphore_wait_nb, MayCall
<1>5. ASSUME NEW n \in Timeouts \cup {0}, os_semaphore_wait(s, n) \/ os_semaphore_peek(s, n)
      PROVE  SemInv'
  <2>1. n \in Nat
    BY SchedulerAssumption
  <2>2. handler = "none" /\ sem_live[s]
    BY <1>5 DEF os_semaphore_wait, os_semaphore_peek, MayCall
  <2>3. p_current \in Thread \ {Idle}
    BY <1>5, CallingThread DEF os_semaphore_wait, os_semaphore_peek, SemInv
  <2>4. CASE \E peek \in BOOLEAN : sem_block(s, peek, n)
    BY <2>1, <2>2, <2>3, <2>4, SemBlockStep
  <2>5. CASE /\ counter[s] # 0
             /\ counter' = [counter EXCEPT ![s] = @ - 1]
             /\ UNCHANGED <<vars, sem_live, wait_peek, result, wake>>
    BY <2>2, <2>5, TakeStep
  <2>. QED
    BY <1>5, <2>4, <2>5 DEF os_semaphore_wait, os_semaphore_peek
<1>. QED
  BY <1>1, <1>2, <1>3, <1>4, <1>5, SemCreateStep

LEMMA SemInvStep == SemInv /\ [SemNext]_allVars => SemInv'
<1>. SUFFICES ASSUME SemInv, [SemNext]_allVars PROVE SemInv'
  OBVIOUS
<1>1. CASE Next /\ UNCHANGED semVars
  BY <1>1, SchedulerStep
<1>2. CASE SemCallNext
  BY <1>2, SemCallStep
<1>3. CASE SemLoopNext
  BY <1>3, ResetIterateStep, ResetDoneStep, DeleteIterateStep, DeleteDoneStep
  DEF SemLoopNext
<1>4. CASE UNCHANGED allVars
  <2>1. Inv'
    BY <1>4, InvStutter DEF SemInv, allVars
  <2>2. /\ UNCHANGED semVars
        /\ handler' = handler /\ item_sch_q' = item_sch_q /\ p_schinfo' = p_schinfo
    BY <1>4 DEF allVars, vars, schVars, itemVars
  <2>. QED
    BY <2>1, <2>2
    DEF SemInv, SemTypes, LoopInv, WaiterInv, WaitsRightly, Looping, semVars
<1>. QED
  BY <1>1, <1>2, <1>3, <1>4 DEF SemNext

-----------------------------------------------------------------------------
(* The theorems *)

\* Counters stay within the width of os_uint_t, and the variables of a loop are
\* there exactly while it runs.
THEOREM SemTypeCorrect == SemSpec => []SemTypeOK
BY SemInvInit, SemInvStep, SemInvImplies, PTL DEF SemSpec

\* No wake-up is lost: nobody sleeps on a semaphore that has tokens or that has
\* been deleted (sem_reset, sem_delete_static, os_semaphore_wait).
THEOREM NoLostWakeup == SemSpec => []NoSleepOnTokens
BY SemInvInit, SemInvStep, SemInvImplies, PTL DEF SemSpec

\* The result that sem_reset writes goes to a thread that still waits for it.
THEOREM WaitersInformed == SemSpec => []WaiterInfo
BY SemInvInit, SemInvStep, SemInvImplies, PTL DEF SemSpec

-----------------------------------------------------------------------------
(* The outcome of a wait *)

\* What WaitOutcome says of one step, one thread and one semaphore.
Outcome(t, s) ==
    Waits(t, s) /\ ~Waits(t, s)' =>
       IF result'[t]
       THEN /\ t = Head(q_items[s])
            /\ Tokens(s) > 0
            /\ Tokens(s)' = IF wait_peek[t] THEN Tokens(s) ELSE Tokens(s) - 1
       ELSE Tokens(s)' = Tokens(s)

\* No loop runs, and no result or counter changes: whoever leaves has failed.
LEMMA QuietOutcome ==
    ASSUME SemInv, handler # "wake", handler' # "wake", UNCHANGED <<result, counter>>,
           NEW s \in WaitQ, NEW t \in Thread
    PROVE  Outcome(t, s)
BY DEF Outcome, Waits, Tokens, SemInv, WaiterInv, WaitsRightly

\* Nobody leaves.
LEMMA StayOutcome ==
    ASSUME NEW s, NEW t, item_sch_q'[t] = item_sch_q[t]
    PROVE  Outcome(t, s)
BY DEF Outcome, Waits

\* The first waiter is the only thread that leaves in an iteration of a loop.
LEMMA ServedHead ==
    ASSUME SemInv, handler = "wake", Waiters # <<>>, thd_ready(Head(Waiters)),
           NEW s \in WaitQ, NEW t \in Thread, Waits(t, s), ~Waits(t, s)'
    PROVE  t = Head(q_items[s]) /\ s = wake.sem /\ wake \in Wake /\ ~result[t]
<1>1. wake \in Wake /\ wake.sem \in WaitQ
  BY DEF SemInv, SemTypes, LoopInv, Wake
<1>2. wake.sem \in SchQ /\ Queue(Waiters, Thread)
  BY <1>1, WaitQNames DEF SemInv, Inv, ItemInv, Queues, Owned, Queue, Waiters
<1>3. Head(Waiters) \in Thread /\ Head(Waiters) \in Range(Waiters)
  BY <1>2, RotateQueue
<1>4. item_sch_q[Head(Waiters)] = wake.sem
  BY <1>2, <1>3 DEF SemInv, Inv, ItemInv, Queues, Owned, Waiters
<1>5. item_sch_q' = [item_sch_q EXCEPT ![Head(Waiters)] = item_sch_tag[Head(Waiters)]]
  BY DEF thd_ready
<1>6. t = Head(Waiters)
  BY <1>5 DEF Waits, SemInv, Inv, ThreadInv
<1>7. s = wake.sem
  BY <1>4, <1>6 DEF Waits
<1>. QED
  BY <1>1, <1>6, <1>7 DEF Waiters, Waits, SemInv, WaiterInv, WaitsRightly

LEMMA ResetOutcome ==
    ASSUME SemInv, sem_reset_iterate, NEW s \in WaitQ, NEW t \in Thread
    PROVE  Outcome(t, s)
<1>. SUFFICES ASSUME Waits(t, s), ~Waits(t, s)'
              PROVE  /\ result'[t]
                     /\ t = Head(q_items[s])
                     /\ Tokens(s) > 0
                     /\ Tokens(s)' = IF wait_peek[t] THEN Tokens(s) ELSE Tokens(s) - 1
  BY DEF Outcome
<1>1. /\ handler = "wake" /\ wake.loop = "reset" /\ Waiters # <<>> /\ wake.counter # 0
      /\ wake' = [wake EXCEPT !.counter = IF wait_peek[Head(Waiters)] THEN @ ELSE @ - 1]
      /\ result' = [result EXCEPT ![Head(Waiters)] = TRUE]
      /\ thd_ready(Head(Waiters))
      /\ handler' = handler
  BY DEF sem_reset_iterate, schVars
<1>2. t = Head(q_items[s]) /\ s = wake.sem /\ wake \in Wake
  BY <1>1, ServedHead
<1>3. result'[t]
  BY <1>1, <1>2 DEF Waiters, SemInv, SemTypes
<1>4. Tokens(s) = wake.counter /\ Tokens(s) > 0
  BY <1>1, <1>2, SchedulerAssumption DEF Tokens, Wake
<1>5. wake'.sem = wake.sem /\ wake'.loop = "reset"
      /\ wake'.counter = IF wait_peek[t] THEN wake.counter ELSE wake.counter - 1
  BY <1>1, <1>2 DEF Wake, Waiters
<1>6. Tokens(s)' = wake'.counter
  BY <1>1, <1>2, <1>5 DEF Tokens
<1>. QED
  BY <1>2, <1>3, <1>4, <1>5, <1>6

LEMMA DeleteOutcome ==
    ASSUME SemInv, sem_delete_iterate, NEW s \in WaitQ, NEW t \in Thread
    PROVE  Outcome(t, s)
<1>. SUFFICES ASSUME Waits(t, s), ~Waits(t, s)'
              PROVE  ~result'[t] /\ Tokens(s)' = Tokens(s)
  BY DEF Outcome
<1>1. /\ handler = "wake" /\ Waiters # <<>> /\ thd_ready(Head(Waiters))
      /\ handler' = handler
      /\ UNCHANGED <<wake, result, counter>>
  BY DEF sem_delete_iterate, schVars, semVars
<1>2. ~result[t]
  BY <1>1, ServedHead
<1>. QED
  BY <1>1, <1>2 DEF Tokens

\* The thread that blocks was ready: it leaves no wait queue.
LEMMA BlockOutcome ==
    ASSUME SemInv, p_current \in Thread, NEW r, NEW peek, NEW n, sem_block(r, peek, n),
           NEW s \in WaitQ, NEW t \in Thread
    PROVE  Outcome(t, s)
<1>1. /\ state[p_current] = "READY"
      /\ item_sch_q' = [item_sch_q EXCEPT ![p_current] = r]
  BY DEF sem_block, thd_block_current
<1>2. item_sch_q[p_current] # s
  BY <1>1, WaitQNames DEF SemInv, Inv, ThreadInv, ThreadStateInv, ThdState
<1>3. CASE t = p_current
  BY <1>2, <1>3 DEF Outcome, Waits
<1>4. CASE t # p_current
  BY <1>1, <1>4, StayOutcome DEF SemInv, Inv, ThreadInv
<1>. QED
  BY <1>3, <1>4

LEMMA CallOutcome ==
    ASSUME SemInv, SemCallNext, NEW s \in WaitQ, NEW t \in Thread
    PROVE  Outcome(t, s)
<1>1. \/ UNCHANGED item_sch_q
      \/ /\ p_current \in Thread
         /\ \E r \in WaitQ, peek \in BOOLEAN, n \in Timeouts \cup {0} : sem_block(r, peek, n)
  <2>1. ASSUME NEW r \in WaitQ, NEW c \in Context, NEW n,
               \/ os_semaphore_create(c, r, n)
               \/ os_semaphore_reset(c, r, n)
               \/ os_semaphore_post(c, r)
               \/ os_semaphore_delete(c, r)
               \/ os_semaphore_wait_nb(c, r)
        PROVE  UNCHANGED item_sch_q
    BY <2>1 DEF os_semaphore_create, os_semaphore_reset, os_semaphore_post,
       os_semaphore_delete, os_semaphore_wait_nb, enter_loop, vars, itemVars
  <2>2. ASSUME NEW r \in WaitQ, NEW n \in Timeouts \cup {0},
               os_semaphore_wait(r, n) \/ os_semaphore_peek(r, n)
        PROVE  \/ UNCHANGED item_sch_q
               \/ /\ p_current \in Thread
                  /\ \E peek \in BOOLEAN : sem_block(r, peek, n)
    BY <2>2, CallingThread
    DEF os_semaphore_wait, os_semaphore_peek, SemInv, vars, itemVars
  <2>. QED
    BY <2>1, <2>2 DEF SemCallNext
<1>. QED
  BY <1>1, StayOutcome, BlockOutcome

LEMMA StepOutcome ==
    ASSUME SemInv, [SemNext]_allVars, NEW s \in WaitQ, NEW t \in Thread
    PROVE  Outcome(t, s)
<1>1. CASE Next /\ UNCHANGED semVars
  <2>1. handler # "wake" /\ handler' # "wake"
    BY <1>1, NextKeeps DEF SemInv
  <2>. QED
    BY <1>1, <2>1, QuietOutcome DEF semVars
<1>2. CASE SemCallNext
  BY <1>2, CallOutcome
<1>3. CASE sem_reset_done \/ sem_delete_done \/ UNCHANGED allVars
  <2>1. item_sch_q' = item_sch_q
    BY <1>3 DEF sem_reset_done, sem_delete_done, leave_loop, allVars, vars, itemVars
  <2>. QED
    BY <2>1, StayOutcome
<1>. QED
  BY <1>1, <1>2, <1>3, ResetOutcome, DeleteOutcome DEF SemNext, SemLoopNext

\* A wait that blocked reports a success exactly when sem_reset handed it a
\* token; a timeout, a resume or the deletion of the semaphore takes none.
THEOREM WaitsSettled == SemSpec => WaitOutcome
<1>. DEFINE Settles == \A s \in WaitQ, t \in Thread :
          Waits(t, s) /\ ~Waits(t, s)' =>
             IF result'[t]
             THEN /\ t = Head(q_items[s])
                  /\ Tokens(s) > 0
                  /\ Tokens(s)' = IF wait_peek[t] THEN Tokens(s) ELSE Tokens(s) - 1
             ELSE Tokens(s)' = Tokens(s)
<1>1. SemInv /\ [SemNext]_allVars => [Settles]_allVars
  BY StepOutcome DEF Outcome
<1>2. SemSpec => []SemInv
  BY SemInvInit, SemInvStep, PTL DEF SemSpec
<1>3. SemSpec => [][Settles]_allVars
  BY <1>1, <1>2, PTL DEF SemSpec
<1>. QED
  BY <1>3 DEF WaitOutcome

-----------------------------------------------------------------------------
(* How far tokens reach *)

\* The first waiter is ahead of everyone else.
LEMMA AheadTail ==
    ASSUME NEW q, Queue(q, Thread), q # <<>>, NEW i \in 1 .. Len(q)
    PROVE  /\ Tail(q) \in Seq(Thread) /\ Len(Tail(q)) = Len(q) - 1
           /\ \A j \in 1 .. (Len(q) - 1) : Tail(q)[j] = q[j + 1]
           /\ Ahead(q, i + 1) = {Head(q)} \cup Ahead(Tail(q), i)
           /\ Head(q) \notin Ahead(Tail(q), i)
<1>1. /\ q \in Seq(Thread) /\ Len(q) \in Nat \ {0} /\ DOMAIN q = 1 .. Len(q)
      /\ Head(q) = q[1]
  BY EmptySeq DEF Queue
<1>2. /\ Tail(q) \in Seq(Thread) /\ Len(Tail(q)) = Len(q) - 1
      /\ \A j \in 1 .. (Len(q) - 1) : Tail(q)[j] = q[j + 1]
  BY <1>1, HeadTailProperties
<1>3. Ahead(Tail(q), i) = {q[j] : j \in 2 .. i}
  <2>1. \A j \in 1 .. (i - 1) : j + 1 \in 2 .. i /\ Tail(q)[j] = q[j + 1]
    BY <1>1, <1>2
  <2>2. \A j \in 2 .. i : j - 1 \in 1 .. (i - 1) /\ Tail(q)[j - 1] = q[j]
    BY <1>1, <1>2
  <2>. QED
    BY <2>1, <2>2 DEF Ahead
<1>4. Ahead(q, i + 1) = {q[1]} \cup {q[j] : j \in 2 .. i}
  <2>1. 1 .. ((i + 1) - 1) = {1} \cup 2 .. i
    BY <1>1
  <2>. QED
    BY <2>1 DEF Ahead
<1>5. \A j \in 2 .. i : q[j] # q[1]
  BY <1>1 DEF Queue, IsInjective
<1>. QED
  BY <1>1, <1>2, <1>3, <1>4, <1>5

LEMMA AheadNext ==
    ASSUME NEW q, Queue(q, Thread), NEW i \in 1 .. Len(q), NEW peek \in [Thread -> BOOLEAN]
    PROVE  /\ Ahead(q, i + 1) = Ahead(q, i) \cup {q[i]}
           /\ Takers(Ahead(q, i + 1), peek) \subseteq Takers(Ahead(q, i), peek) \cup {q[i]}
<1>1. q \in Seq(Thread) /\ Len(q) \in Nat /\ 1 .. ((i + 1) - 1) = 1 .. (i - 1) \cup {i}
  BY DEF Queue
<1>. QED
  BY <1>1 DEF Ahead, Takers

LEMMA AheadFinite == ASSUME NEW q, NEW i \in Int PROVE IsFiniteSet(Ahead(q, i))
<1>1. IsFiniteSet(1 .. (i - 1))
  BY FS_Interval
<1>. DEFINE f == [j \in 1 .. (i - 1) |-> q[j]]
<1>2. f \in Surjection(1 .. (i - 1), Ahead(q, i))
  BY DEF Ahead, Surjection
<1>. QED
  BY <1>1, <1>2, FS_Surjection

LEMMA TakersFinite ==
    ASSUME NEW q, NEW i \in Int, NEW peek
    PROVE  /\ IsFiniteSet(Takers(Ahead(q, i), peek))
           /\ Cardinality(Takers(Ahead(q, i), peek)) \in Nat
<1>1. Takers(Ahead(q, i), peek) \subseteq Ahead(q, i)
  BY DEF Takers
<1>. QED
  BY <1>1, AheadFinite, FS_Subset, FS_CardinalityType

LEMMA AheadCounts ==
    ASSUME NEW q, Queue(q, Thread), NEW peek \in [Thread -> BOOLEAN],
           NEW i \in 1 .. Len(q)
    PROVE  Cardinality(Takers(Ahead(q, i + 1), peek))
              <= Cardinality(Takers(Ahead(q, i), peek)) + 1
<1>. DEFINE A == Takers(Ahead(q, i), peek)
            B == Takers(Ahead(q, i + 1), peek)
<1>1. B \subseteq A \cup {q[i]} /\ i \in Int /\ i + 1 \in Int
  BY AheadNext DEF Queue
<1>2. IsFiniteSet(A) /\ Cardinality(A) \in Nat /\ IsFiniteSet(B) /\ Cardinality(B) \in Nat
  BY <1>1, TakersFinite
<1>. HIDE DEF A, B
<1>3. /\ IsFiniteSet(A \cup {q[i]})
      /\ Cardinality(A \cup {q[i]}) \in {Cardinality(A), Cardinality(A) + 1}
  BY <1>2, FS_AddElement
<1>4. Cardinality(B) <= Cardinality(A \cup {q[i]})
  BY <1>1, <1>3, FS_Subset
<1>5. Cardinality(B) <= Cardinality(A) + 1
  BY <1>2, <1>3, <1>4
<1>. QED
  BY <1>5 DEF A, B

\* n tokens reach a first part of the queue; they are all taken unless they reach
\* all of it.
LEMMA ReachedPart ==
    ASSUME NEW q, Queue(q, Thread), NEW n \in Nat, NEW peek \in [Thread -> BOOLEAN]
    PROVE  \E m \in 1 .. (Len(q) + 1) :
              /\ Reached(q, n, peek) = Ahead(q, m)
              /\ Cardinality(Takers(Ahead(q, m), peek)) <= n
              /\ m <= Len(q) => Cardinality(Takers(Ahead(q, m), peek)) = n
<1>1. q \in Seq(Thread) /\ Len(q) \in Nat /\ DOMAIN q = 1 .. Len(q)
  BY DEF Queue
<1>. DEFINE c(j) == Cardinality(Takers(Ahead(q, j), peek))
            M == {j \in 1 .. Len(q) : c(j) >= n} \cup {Len(q) + 1}
<1>2. M \in SUBSET Nat /\ M # {}
  BY <1>1
<1>3. PICK m \in M : \A j \in M : m <= j
  BY <1>2, LeastNat
<1>4. \A j \in 1 .. (Len(q) + 1) : c(j) \in Nat
  BY <1>1, TakersFinite
<1>5. \A j \in 1 .. (m - 1) : c(j) < n
  BY <1>1, <1>3, <1>4
<1>6. ASSUME NEW j \in m .. Len(q) PROVE c(j) >= n
  <2>1. m \in 1 .. Len(q) /\ c(m) >= n
    BY <1>1, <1>3
  <2>2. Ahead(q, m) \subseteq Ahead(q, j)
    BY <1>1, <2>1 DEF Ahead
  <2>3. Takers(Ahead(q, m), peek) \subseteq Takers(Ahead(q, j), peek)
    BY <2>2 DEF Takers
  <2>4. j \in Int /\ IsFiniteSet(Takers(Ahead(q, j), peek))
    BY <1>1, <2>1, TakersFinite
  <2>5. c(m) <= c(j)
    BY <2>3, <2>4, FS_Subset
  <2>6. j \in 1 .. (Len(q) + 1) /\ m \in 1 .. (Len(q) + 1)
    BY <1>1, <2>1
  <2>. QED
    BY <1>4, <2>1, <2>5, <2>6
<1>7. c(m) <= n
  <2>1. CASE m = 1
    <3>1. Takers(Ahead(q, 1), peek) = {}
      BY DEF Ahead, Takers
    <3>. QED
      BY <2>1, <3>1, FS_EmptySet
  <2>2. CASE m # 1
    <3>1. m - 1 \in 1 .. Len(q) /\ (m - 1) + 1 = m
      BY <1>1, <1>3, <2>2
    <3>2. c(m) <= c(m - 1) + 1
      BY <3>1, AheadCounts
    <3>3. c(m - 1) < n /\ c(m - 1) \in Nat /\ c(m) \in Nat
      BY <1>1, <1>3, <1>4, <1>5, <3>1
    <3>. QED
      BY <3>2, <3>3
  <2>. QED
    BY <2>1, <2>2
<1>8. Reached(q, n, peek) = Ahead(q, m)
  <2>1. {j \in DOMAIN q : c(j) < n} = 1 .. (m - 1)
    <3>1. m \in 1 .. (Len(q) + 1)
      BY <1>1, <1>3
    <3>2. \A j \in 1 .. Len(q) : j \in 1 .. (m - 1) \/ j \in m .. Len(q)
      BY <1>1, <3>1
    <3>3. \A j \in 1 .. (m - 1) : j \in 1 .. Len(q)
      BY <1>1, <3>1
    <3>4. \A j \in m .. Len(q) : ~(c(j) < n)
      BY <1>1, <1>4, <1>6, <3>1
    <3>. HIDE DEF c
    <3>. QED
      BY <1>1, <1>5, <3>2, <3>3, <3>4
  <2>. QED
    BY <2>1 DEF Reached, Ahead
<1>9. m <= Len(q) => c(m) = n
  BY <1>1, <1>3, <1>4, <1>6, <1>7
<1>10. m \in 1 .. (Len(q) + 1)
  BY <1>1, <1>3
<1>. QED
  BY <1>7, <1>8, <1>9, <1>10

\* What an offer of n tokens promises holds of the threads they reach.
LEMMA ReachedOffer ==
    ASSUME NEW q, Queue(q, Thread), NEW n \in Nat, NEW peek \in [Thread -> BOOLEAN],
           NEW tag \in [Thread -> Nat], Sorted(q, tag)
    PROVE  LET S == Reached(q, n, peek)
               left == n - Cardinality(Takers(S, peek))
           IN  /\ S \subseteq Range(q)
               /\ n = 0 => S = {}
               /\ left \in Int /\ left >= 0
               /\ left > 0 => S = Range(q)
               /\ \A t \in S, u \in Range(q) \ S : tag[t] <= tag[u]
<1>. DEFINE S == Reached(q, n, peek)
            left == n - Cardinality(Takers(S, peek))
<1>1. q \in Seq(Thread) /\ Len(q) \in Nat /\ DOMAIN q = 1 .. Len(q)
  BY DEF Queue
<1>2. PICK m \in 1 .. (Len(q) + 1) :
              /\ S = Ahead(q, m)
              /\ Cardinality(Takers(Ahead(q, m), peek)) <= n
              /\ m <= Len(q) => Cardinality(Takers(Ahead(q, m), peek)) = n
  BY ReachedPart
<1>3. m \in Int /\ Cardinality(Takers(S, peek)) \in Nat
  BY <1>1, <1>2, TakersFinite
<1>4. left \in Int /\ left >= 0
  BY <1>2, <1>3
<1>5. S \subseteq Range(q)
  BY <1>1, <1>2 DEF Ahead, Range
<1>6. left > 0 => S = Range(q)
  <2>1. left > 0 => m = Len(q) + 1
    BY <1>1, <1>2, <1>3
  <2>2. Ahead(q, Len(q) + 1) = Range(q)
    BY <1>1 DEF Ahead, Range
  <2>. QED
    BY <1>2, <2>1, <2>2
<1>7. n = 0 => S = {}
  <2>1. \A j \in DOMAIN q : Cardinality(Takers(Ahead(q, j), peek)) \in Nat
    BY <1>1, TakersFinite
  <2>. QED
    BY <2>1 DEF Reached
<1>8. ASSUME NEW t \in S, NEW u \in Range(q) \ S PROVE tag[t] <= tag[u]
  <2>1. PICK i \in 1 .. (m - 1) : q[i] = t
    BY <1>2 DEF Ahead
  <2>2. PICK j \in 1 .. Len(q) : q[j] = u
    BY <1>1 DEF Range
  <2>3. j \notin 1 .. (m - 1)
    BY <1>2, <1>8, <2>2 DEF Ahead
  <2>4. i \in 1 .. Len(q) /\ i < j
    BY <1>1, <1>2, <2>3
  <2>. QED
    BY <2>1, <2>2, <2>4 DEF Sorted
<1>. QED
  BY <1>4, <1>5, <1>6, <1>7, <1>8

\* One turn of the loop: the first waiter passes, and the tokens it leaves reach
\* the same others.
LEMMA ReachedTail ==
    ASSUME NEW q, Queue(q, Thread), q # <<>>, NEW n \in Nat \ {0}, NEW r,
           NEW peek \in [Thread -> BOOLEAN],
           r = IF peek[Head(q)] THEN n ELSE n - 1
    PROVE  /\ Reached(q, n, peek) = {Head(q)} \cup Reached(Tail(q), r, peek)
           /\ Head(q) \notin Reached(Tail(q), r, peek)
           /\ n - Cardinality(Takers(Reached(q, n, peek), peek))
                 = r - Cardinality(Takers(Reached(Tail(q), r, peek), peek))
<1>. DEFINE h == Head(q)
            p == Tail(q)
            c(s, j) == Cardinality(Takers(Ahead(s, j), peek))
            d == IF peek[h] THEN 0 ELSE 1
<1>1. /\ q \in Seq(Thread) /\ Len(q) \in Nat \ {0} /\ DOMAIN q = 1 .. Len(q)
      /\ h = q[1] /\ h \in Thread /\ 1 \in 1 .. Len(q)
  BY EmptySeq DEF Queue
<1>2. /\ p \in Seq(Thread) /\ Len(p) = Len(q) - 1 /\ DOMAIN p = 1 .. Len(p)
      /\ \A j \in 1 .. (Len(q) - 1) : p[j] = q[j + 1]
  BY <1>1, AheadTail
<1>3. r \in Nat /\ n = r + d /\ d \in {0, 1}
  BY <1>1
<1>4. ASSUME NEW A, IsFiniteSet(A), h \notin A
      PROVE  /\ IsFiniteSet(Takers(A, peek)) /\ Cardinality(Takers(A, peek)) \in Nat
             /\ Cardinality(Takers({h} \cup A, peek)) = Cardinality(Takers(A, peek)) + d
  <2>1. Takers(A, peek) \subseteq A
    BY DEF Takers
  <2>2. IsFiniteSet(Takers(A, peek)) /\ Cardinality(Takers(A, peek)) \in Nat
    BY <1>4, <2>1, FS_Subset, FS_CardinalityType
  <2>3. CASE peek[h]
    <3>1. Takers({h} \cup A, peek) = Takers(A, peek)
      BY <2>3 DEF Takers
    <3>. QED
      BY <2>2, <2>3, <3>1
  <2>4. CASE ~peek[h]
    <3>1. Takers({h} \cup A, peek) = Takers(A, peek) \cup {h} /\ h \notin Takers(A, peek)
      BY <1>4, <2>4 DEF Takers
    <3>2. Cardinality(Takers(A, peek) \cup {h}) = Cardinality(Takers(A, peek)) + 1
      BY <2>2, <3>1, FS_AddElement
    <3>. QED
      BY <2>2, <2>4, <3>1, <3>2
  <2>. QED
    BY <2>2, <2>3, <2>4
<1>5. ASSUME NEW i \in 1 .. Len(q) PROVE c(q, i + 1) = c(p, i) + d /\ c(p, i) \in Nat
  <2>1. Ahead(q, i + 1) = {h} \cup Ahead(p, i) /\ h \notin Ahead(p, i)
    BY AheadTail
  <2>2. IsFiniteSet(Ahead(p, i))
    BY <1>1, AheadFinite
  <2>. QED
    BY <1>4, <2>1, <2>2
<1>6. c(q, 1) = 0
  <2>1. Takers(Ahead(q, 1), peek) = {}
    BY DEF Ahead, Takers
  <2>. QED
    BY <2>1, FS_EmptySet
<1>. HIDE DEF c, d, h, p
<1>7. ASSUME NEW x
      PROVE  x \in Reached(q, n, peek) <=> x \in {h} \cup Reached(p, r, peek)
  <2>1. x \in Reached(q, n, peek) <=> \E j \in 1 .. Len(q) : c(q, j) < n /\ q[j] = x
    BY <1>1 DEF Reached, c
  <2>2. x \in Reached(p, r, peek) <=> \E j \in 1 .. Len(p) : c(p, j) < r /\ p[j] = x
    BY <1>2 DEF Reached, c
  <2>3. c(q, 1) < n /\ q[1] = h
    BY <1>1, <1>3, <1>6
  <2>4. ASSUME NEW j \in 1 .. Len(p)
        PROVE  /\ j + 1 \in 1 .. Len(q) /\ q[j + 1] = p[j]
               /\ c(q, j + 1) < n <=> c(p, j) < r
    <3>1. j \in 1 .. Len(q) /\ j + 1 \in 1 .. Len(q) /\ j \in 1 .. (Len(q) - 1)
      BY <1>1, <1>2
    <3>2. c(q, j + 1) = c(p, j) + d /\ c(p, j) \in Nat
      BY <1>5, <3>1
    <3>. QED
      BY <1>2, <1>3, <3>1, <3>2
  <2>5. \A j \in 1 .. Len(q) : j = 1 \/ (j - 1 \in 1 .. Len(p) /\ (j - 1) + 1 = j)
    BY <1>1, <1>2
  <2>6. ASSUME NEW j \in 1 .. Len(q), c(q, j) < n, q[j] = x, j # 1
        PROVE  x \in Reached(p, r, peek)
    <3>1. j - 1 \in 1 .. Len(p) /\ (j - 1) + 1 = j
      BY <2>5, <2>6
    <3>2. c(p, j - 1) < r /\ p[j - 1] = x
      BY <2>4, <2>6, <3>1
    <3>. QED
      BY <2>2, <3>1, <3>2
  <2>7. ASSUME NEW j \in 1 .. Len(p), c(p, j) < r, p[j] = x PROVE x \in Reached(q, n, peek)
    BY <2>1, <2>4, <2>7
  <2>. QED
    BY <1>1, <2>1, <2>2, <2>3, <2>6, <2>7
<1>8. Reached(q, n, peek) = {h} \cup Reached(p, r, peek)
  BY <1>7
<1>9. Reached(p, r, peek) \subseteq Range(p)
  BY DEF Reached, Range
<1>10. Range(p) = Ahead(p, Len(q))
  BY <1>1, <1>2 DEF Range, Ahead
<1>11. h \notin Range(p) /\ IsFiniteSet(Range(p))
  <2>1. Len(q) \in 1 .. Len(q)
    BY <1>1
  <2>2. h \notin Ahead(p, Len(q))
    BY <2>1, AheadTail DEF h, p
  <2>3. IsFiniteSet(Ahead(p, Len(q)))
    BY <1>1, AheadFinite
  <2>. QED
    BY <1>10, <2>2, <2>3
<1>12. IsFiniteSet(Reached(p, r, peek)) /\ h \notin Reached(p, r, peek)
  BY <1>9, <1>11, FS_Subset
<1>13. /\ Cardinality(Takers(Reached(q, n, peek), peek))
             = Cardinality(Takers(Reached(p, r, peek), peek)) + d
       /\ Cardinality(Takers(Reached(p, r, peek), peek)) \in Nat
  BY <1>4, <1>8, <1>12
<1>14. n - Cardinality(Takers(Reached(q, n, peek), peek))
          = r - Cardinality(Takers(Reached(p, r, peek), peek))
  BY <1>3, <1>13
<1>. QED
  BY <1>8, <1>12, <1>14 DEF h, p

-----------------------------------------------------------------------------
(* Waiters stay in the order of their priorities *)

LEMMA WaitOrderKept ==
    ASSUME WaitersByPriority, item_sch_tag' = item_sch_tag,
           \A s \in WaitQ : q_items'[s] = q_items[s]
    PROVE  WaitersByPriority'
BY DEF WaitersByPriority, Sorted

\* A turn of a loop takes the first waiter out of its queue.
LEMMA ServedTail ==
    ASSUME SemInv, handler = "wake", Waiters # <<>>,
           thd_ready(Head(Waiters)), q_items' = ReadyItems(Head(Waiters))
    PROVE  /\ wake \in Wake /\ wake.sem \in WaitQ /\ Head(Waiters) \in Thread
           /\ q_items'[wake.sem] = Tail(Waiters)
           /\ \A s \in WaitQ \ {wake.sem} : q_items'[s] = q_items[s]
<1>1. wake \in Wake /\ wake.sem \in WaitQ
  BY DEF SemInv, SemTypes, LoopInv, Wake
<1>2. Queue(Waiters, Thread) /\ Range(Waiters) = {t \in Thread : item_sch_q[t] = wake.sem}
  BY <1>1, WaitersOf DEF SemInv, Waiters
<1>3. Head(Waiters) \in Thread /\ item_sch_q[Head(Waiters)] = wake.sem
  BY <1>2, RotateQueue
<1>4. RemoveFirst(Waiters, Head(Waiters)) = Tail(Waiters)
  BY <1>2, RemoveHead
<1>5. \A s \in WaitQ :
         q_items'[s] = IF item_sch_q[Head(Waiters)] = s
                       THEN RemoveFirst(q_items[s], Head(Waiters)) ELSE q_items[s]
  BY <1>3, ReadyLeaves DEF SemInv
<1>. QED
  BY <1>1, <1>3, <1>4, <1>5 DEF Waiters

\* A loop that ends leaves the wait queues alone.
LEMMA LeaveQueues ==
    ASSUME SemInv, leave_loop
    PROVE  item_sch_tag' = item_sch_tag /\ \A s \in WaitQ : q_items'[s] = q_items[s]
<1>1. Queues(q_items, item_sch_q, SchQ) /\ item_sch_q[Idle] = IdlePrio
  BY IdleQueued DEF SemInv, Inv, ItemInv
<1>2. /\ sch_set_next_thread(q_items) \/ q_items' = q_items
      /\ item_sch_tag' = item_sch_tag
  BY DEF leave_loop, sch_reschedule_req
<1>. QED
  BY <1>1, <1>2, ChoosesElsewhere

\* A call that does not block leaves the wait queues alone.
LEMMA SemCreateQueues ==
    ASSUME SemInv, NEW c, NEW s \in WaitQ, NEW n, os_semaphore_create(c, s, n)
    PROVE  q_items' = q_items /\ item_sch_tag' = item_sch_tag
<1>1. /\ ~sem_live[s] /\ q_items' = [q_items EXCEPT ![s] = <<>>]
      /\ item_sch_tag' = item_sch_tag
  BY DEF os_semaphore_create
<1>2. \A t \in Thread : item_sch_q[t] # s
  BY <1>1 DEF SemInv, WaiterInv, WaitsRightly
<1>3. q_items[s] = <<>>
  <2>1. Queue(q_items[s], Thread) /\ Range(q_items[s]) = {}
    BY <1>2, WaitersOf DEF SemInv
  <2>. QED
    BY <2>1, EmptyRange DEF Queue
<1>. QED
  BY <1>1, <1>3 DEF SemInv, Inv, ItemInv, Queues

LEMMA WaitOrderStep ==
    ASSUME SemInv, WaitersByPriority, [SemNext]_allVars PROVE WaitersByPriority'
<1>1. CASE Next /\ UNCHANGED semVars
  BY <1>1, NextByPriority DEF SemInv
<1>2. CASE UNCHANGED allVars
  BY <1>2, WaitOrderKept DEF allVars, vars, itemVars
<1>3. ASSUME NEW s \in WaitQ, NEW c \in Context, NEW n \in Initials, os_semaphore_create(c, s, n)
      PROVE  WaitersByPriority'
  BY <1>3, SemCreateQueues, WaitOrderKept
<1>4. ASSUME NEW s \in WaitQ, NEW c \in Context,
             \/ \E n \in Initials : os_semaphore_reset(c, s, n)
             \/ os_semaphore_post(c, s) \/ os_semaphore_delete(c, s)
             \/ os_semaphore_wait_nb(c, s)
      PROVE  WaitersByPriority'
  BY <1>4, WaitOrderKept DEF os_semaphore_reset, os_semaphore_post, os_semaphore_delete,
     os_semaphore_wait_nb, enter_loop, vars, itemVars
<1>5. ASSUME NEW s \in WaitQ, NEW n \in Timeouts \cup {0},
             os_semaphore_wait(s, n) \/ os_semaphore_peek(s, n)
      PROVE  WaitersByPriority'
  <2>1. p_current \in Thread \ {Idle}
    BY <1>5, CallingThread DEF os_semaphore_wait, os_semaphore_peek, SemInv
  <2>2. CASE UNCHANGED vars
    BY <2>2, WaitOrderKept DEF vars, itemVars
  <2>3. CASE thd_block_current(s, TRUE, n)
    BY <2>1, <2>3, BlockByPriority DEF SemInv
  <2>. QED
    BY <1>5, <2>2, <2>3 DEF os_semaphore_wait, os_semaphore_peek, sem_block
<1>6. CASE sem_reset_iterate \/ sem_delete_iterate
  <2>1. /\ handler = "wake" /\ Waiters # <<>>
        /\ thd_ready(Head(Waiters)) /\ q_items' = ReadyItems(Head(Waiters))
    BY <1>6 DEF sem_reset_iterate, sem_delete_iterate
  <2>. QED
    BY <2>1, ServedTail, ReadyByPriority DEF SemInv
<1>7. CASE sem_reset_done \/ sem_delete_done
  BY <1>7, LeaveQueues, WaitOrderKept DEF sem_reset_done, sem_delete_done
<1>. QED
  BY <1>1, <1>2, <1>3, <1>4, <1>5, <1>6, <1>7 DEF SemNext, SemCallNext, SemLoopNext

LEMMA WaitOrderInit == SemInit => WaitersByPriority
<1>. SUFFICES ASSUME SemInit, NEW s \in WaitQ PROVE Sorted(q_items[s], item_sch_tag)
  BY DEF WaitersByPriority
<1>1. q_items[s] = <<>>
  BY WaitQNames, Constants DEF SemInit, Init
<1>. QED
  BY <1>1 DEF Sorted

CountInv == SemInv /\ WaitersByPriority

-----------------------------------------------------------------------------
(* What the abstract semaphores are *)

\* While no loop runs, they are what the variables say.
LEMMA CalmView ==
    ASSUME SemInv, handler # "wake"
    PROVE  /\ Existing = {s \in WaitQ : sem_live[s]}
           /\ TokensKept = counter
           /\ Waiting = [s \in WaitQ |-> Range(q_items[s])]
           /\ Passed = {t \in Thread : result[t]}
<1>1. \A s \in WaitQ : Served(s) = {} /\ ~LoopOf("delete", s) /\ Tokens(s) = counter[s]
  BY DEF Served, LoopOf, Tokens
<1>2. Cardinality(Takers({}, wait_peek)) = 0
  <2>1. Takers({}, wait_peek) = {}
    BY DEF Takers
  <2>. QED
    BY <2>1, FS_EmptySet
<1>3. \A s \in WaitQ : counter[s] - 0 = counter[s]
  BY SchedulerAssumption DEF SemInv, SemTypes
<1>4. TokensKept = [s \in WaitQ |-> counter[s]]
  BY <1>1, <1>2, <1>3 DEF TokensKept
<1>. QED
  BY <1>1, <1>4 DEF Existing, Waiting, Passed, SemInv, SemTypes

\* What is seen of a loop that hands out tokens.
LEMMA ResetView ==
    ASSUME SemInv, NEW s \in WaitQ, LoopOf("reset", s)
    PROVE  /\ Existing = {r \in WaitQ : sem_live[r]}
           /\ TokensKept = [counter EXCEPT ![s] = wake.counter
                 - Cardinality(Takers(Served(s), wait_peek))]
           /\ Waiting = [r \in WaitQ |->
                 IF r = s THEN Range(q_items[r]) \ Served(s) ELSE Range(q_items[r])]
           /\ Passed = {t \in Thread : result[t]} \cup Served(s)
<1>1. /\ handler = "wake" /\ wake.loop = "reset" /\ wake.sem = s
      /\ \A r \in WaitQ : ~LoopOf("delete", r)
  BY DEF LoopOf
<1>2. Tokens(s) = wake.counter
  BY <1>1 DEF Tokens
<1>3. \A r \in WaitQ \ {s} : Served(r) = {} /\ Tokens(r) = counter[r]
  BY <1>1 DEF Served, LoopOf, Tokens
<1>4. Cardinality(Takers({}, wait_peek)) = 0
  <2>1. Takers({}, wait_peek) = {}
    BY DEF Takers
  <2>. QED
    BY <2>1, FS_EmptySet
<1>5. \A r \in WaitQ : counter[r] - 0 = counter[r]
  BY SchedulerAssumption DEF SemInv, SemTypes
<1>6. UNION {Served(r) : r \in WaitQ} = Served(s)
  BY <1>3
<1>7. counter \in [WaitQ -> 0 .. (UintMod - 1)]
  BY DEF SemInv, SemTypes
<1>8. TokensKept = [counter EXCEPT ![s] = wake.counter
                      - Cardinality(Takers(Served(s), wait_peek))]
  <2>. DEFINE f == [counter EXCEPT ![s] = wake.counter
                      - Cardinality(Takers(Served(s), wait_peek))]
  <2>1. \A r \in WaitQ : TokensKept[r] = f[r]
    BY <1>2, <1>3, <1>4, <1>5, <1>7 DEF TokensKept
  <2>2. DOMAIN TokensKept = WaitQ /\ DOMAIN f = WaitQ
    BY <1>7 DEF TokensKept
  <2>. QED
    BY <1>7, <2>1, <2>2 DEF TokensKept
<1>9. Waiting = [r \in WaitQ |->
                    IF r = s THEN Range(q_items[r]) \ Served(s) ELSE Range(q_items[r])]
  BY <1>1, <1>3 DEF Waiting
<1>. QED
  BY <1>1, <1>6, <1>8, <1>9 DEF Existing, Passed

\* A loop that deletes its semaphore hands out nothing.
LEMMA DeleteView ==
    ASSUME SemInv, NEW s \in WaitQ, LoopOf("delete", s)
    PROVE  /\ Existing = {r \in WaitQ : sem_live[r] /\ r # s}
           /\ TokensKept = counter
           /\ Waiting = [r \in WaitQ |-> IF r = s THEN {} ELSE Range(q_items[r])]
           /\ Passed = {t \in Thread : result[t]}
<1>1. \A r \in WaitQ : Served(r) = {} /\ Tokens(r) = counter[r] /\ (LoopOf("delete", r) <=> r = s)
  BY DEF Served, LoopOf, Tokens
<1>2. Cardinality(Takers({}, wait_peek)) = 0
  <2>1. Takers({}, wait_peek) = {}
    BY DEF Takers
  <2>. QED
    BY <2>1, FS_EmptySet
<1>3. \A r \in WaitQ : counter[r] - 0 = counter[r]
  BY SchedulerAssumption DEF SemInv, SemTypes
<1>4. TokensKept = [r \in WaitQ |-> counter[r]]
  BY <1>1, <1>2, <1>3 DEF TokensKept
<1>. QED
  BY <1>1, <1>4 DEF Existing, Waiting, Passed, SemInv, SemTypes

\* The three together, to be used before and after a step.
ViewsRight ==
    /\ handler # "wake" =>
          /\ Existing = {s \in WaitQ : sem_live[s]}
          /\ TokensKept = counter
          /\ Waiting = [s \in WaitQ |-> Range(q_items[s])]
          /\ Passed = {t \in Thread : result[t]}
    /\ \A s \in WaitQ : LoopOf("reset", s) =>
          /\ Existing = {r \in WaitQ : sem_live[r]}
          /\ TokensKept = [counter EXCEPT ![s] = wake.counter
                - Cardinality(Takers(Served(s), wait_peek))]
          /\ Waiting = [r \in WaitQ |->
                IF r = s THEN Range(q_items[r]) \ Served(s) ELSE Range(q_items[r])]
          /\ Passed = {t \in Thread : result[t]} \cup Served(s)
    /\ \A s \in WaitQ : LoopOf("delete", s) =>
          /\ Existing = {r \in WaitQ : sem_live[r] /\ r # s}
          /\ TokensKept = counter
          /\ Waiting = [r \in WaitQ |-> IF r = s THEN {} ELSE Range(q_items[r])]
          /\ Passed = {t \in Thread : result[t]}

LEMMA Views == SemInv => ViewsRight
BY CalmView, ResetView, DeleteView DEF ViewsRight

LEMMA ViewsNext == SemInv' => ViewsRight'
BY Views, PTL

LEMMA CalmNext ==
    ASSUME SemInv', handler' # "wake"
    PROVE  /\ Existing' = {s \in WaitQ : sem_live'[s]}
           /\ TokensKept' = counter'
           /\ Waiting' = [s \in WaitQ |-> Range(q_items'[s])]
           /\ Passed' = {t \in Thread : result'[t]}
BY ViewsNext DEF ViewsRight

LEMMA ResetNext ==
    ASSUME SemInv', NEW s \in WaitQ, LoopOf("reset", s)'
    PROVE  /\ Existing' = {r \in WaitQ : sem_live'[r]}
           /\ TokensKept' = [counter' EXCEPT ![s] = wake'.counter
                 - Cardinality(Takers(Served(s)', wait_peek'))]
           /\ Waiting' = [r \in WaitQ |->
                 IF r = s THEN Range(q_items'[r]) \ Served(s)' ELSE Range(q_items'[r])]
           /\ Passed' = {t \in Thread : result'[t]} \cup Served(s)'
BY ViewsNext DEF ViewsRight

LEMMA DeleteNext ==
    ASSUME SemInv', NEW s \in WaitQ, LoopOf("delete", s)'
    PROVE  /\ Existing' = {r \in WaitQ : sem_live'[r] /\ r # s}
           /\ TokensKept' = counter'
           /\ Waiting' = [r \in WaitQ |-> IF r = s THEN {} ELSE Range(q_items'[r])]
           /\ Passed' = {t \in Thread : result'[t]}
BY ViewsNext DEF ViewsRight

-----------------------------------------------------------------------------
(* Every step is a step of the abstract semaphores, or none *)

LEMMA GivesUp ==
    ASSUME SemInv, SemInv', Next, UNCHANGED semVars PROVE C!GiveUp
<1>1. KeepsWaiters /\ handler # "wake" /\ handler' # "wake"
  BY NextKeeps DEF SemInv
<1>2. /\ Existing' = Existing /\ TokensKept' = TokensKept /\ Passed' = Passed
      /\ wait_peek' = wait_peek
      /\ Waiting = [s \in WaitQ |-> Range(q_items[s])]
      /\ Waiting' = [s \in WaitQ |-> Range(q_items'[s])]
  BY <1>1, CalmView, CalmNext DEF semVars
<1>3. ASSUME NEW s \in WaitQ
      PROVE  Range(q_items'[s]) \subseteq Thread /\ Range(q_items'[s]) \subseteq Range(q_items[s])
  <2>1. Range(q_items[s]) = {t \in Thread : item_sch_q[t] = s}
    BY WaitersOf DEF SemInv
  <2>2. s \in SchQ /\ Queues(q_items', item_sch_q', SchQ)
    BY WaitQNames DEF SemInv, Inv, ItemInv
  <2>3. \A t \in Range(q_items'[s]) : t \in Thread /\ item_sch_q'[t] = s
    BY <2>2 DEF Queues, Owned, Range
  <2>. QED
    BY <1>1, <2>1, <2>3 DEF KeepsWaiters
<1>4. item_sch_tag' \in [Thread -> Prio]
  BY DEF SemInv, Inv, ThreadInv
<1>. QED
  BY <1>2, <1>3, <1>4 DEF C!GiveUp

LEMMA Creates ==
    ASSUME SemInv, SemInv', NEW c, NEW s \in WaitQ, NEW n, os_semaphore_create(c, s, n)
    PROVE  C!Create(s, n)
<1>1. /\ ~sem_live[s] /\ handler = "none" /\ handler' = "none"
      /\ sem_live' = [sem_live EXCEPT ![s] = TRUE]
      /\ counter' = [counter EXCEPT ![s] = n]
      /\ UNCHANGED <<wait_peek, result>>
  BY DEF os_semaphore_create, MayCall, schVars
<1>2. q_items' = q_items /\ item_sch_tag' = item_sch_tag
  BY SemCreateQueues
<1>3. /\ Existing = {r \in WaitQ : sem_live[r]} /\ Existing' = {r \in WaitQ : sem_live'[r]}
      /\ TokensKept = counter /\ TokensKept' = counter'
      /\ Waiting' = Waiting /\ Passed' = Passed
  BY <1>1, <1>2, CalmView, CalmNext
<1>4. s \notin Existing /\ Existing' = Existing \cup {s}
  BY <1>1, <1>3 DEF SemInv, SemTypes
<1>. QED
  BY <1>1, <1>2, <1>3, <1>4 DEF C!Create

LEMMA SameCount == ASSUME NEW S PROVE C!Cardinality(S) = Cardinality(S)
BY DEF Cardinality, C!Cardinality

LEMMA Offers ==
    ASSUME CountInv, SemInv', NEW s \in WaitQ, NEW n \in 0 .. (UintMod - 1),
           handler = "none", enter_loop("reset", s, n)
    PROVE  C!Offer(s, n)
<1>1. /\ sem_live[s] /\ n \in Nat
      /\ handler' = "wake"
      /\ wake' = [loop |-> "reset", sem |-> s, counter |-> n]
      /\ UNCHANGED <<item_sch_tag, q_items, sem_live, counter, wait_peek, result>>
  BY SchedulerAssumption DEF enter_loop, itemVars
<1>. DEFINE q == q_items[s]
            served == Reached(q, n, wait_peek)
            left == n - Cardinality(Takers(served, wait_peek))
<1>2. LoopOf("reset", s)' /\ Served(s)' = served /\ wake'.counter = n
  BY <1>1 DEF LoopOf, Served
<1>3. /\ Queue(q, Thread) /\ Sorted(q, item_sch_tag)
      /\ item_sch_tag \in [Thread -> Nat] /\ wait_peek \in [Thread -> BOOLEAN]
  BY WaitersOf, Constants DEF CountInv, WaitersByPriority, SemInv, SemTypes, Inv, ThreadInv
<1>4. /\ served \subseteq Range(q)
      /\ n = 0 => served = {}
      /\ left \in Int /\ left >= 0
      /\ left > 0 => served = Range(q)
      /\ \A t \in served, u \in Range(q) \ served : item_sch_tag[t] <= item_sch_tag[u]
  BY <1>1, <1>3, ReachedOffer
<1>5. /\ Existing = {r \in WaitQ : sem_live[r]} /\ Existing' = Existing
      /\ TokensKept = counter
      /\ TokensKept' = [counter EXCEPT ![s] = left]
      /\ Waiting = [r \in WaitQ |-> Range(q_items[r])]
      /\ Waiting' = [r \in WaitQ |->
            IF r = s THEN Range(q_items[r]) \ served ELSE Range(q_items[r])]
      /\ Passed = {t \in Thread : result[t]}
      /\ Passed' = {t \in Thread : result[t]} \cup served
  <2>1. /\ Existing = {r \in WaitQ : sem_live[r]}
        /\ TokensKept = counter
        /\ Waiting = [r \in WaitQ |-> Range(q_items[r])]
        /\ Passed = {t \in Thread : result[t]}
    BY CalmView DEF CountInv
  <2>2. /\ Existing' = {r \in WaitQ : sem_live'[r]}
        /\ TokensKept' = [counter' EXCEPT ![s] = wake'.counter
              - Cardinality(Takers(Served(s)', wait_peek'))]
        /\ Waiting' = [r \in WaitQ |->
              IF r = s THEN Range(q_items'[r]) \ Served(s)' ELSE Range(q_items'[r])]
        /\ Passed' = {t \in Thread : result'[t]} \cup Served(s)'
    BY <1>2, ResetNext
  <2>. QED
    BY <1>1, <1>2, <2>1, <2>2
<1>. HIDE DEF served, left
<1>6. Waiting[s] = Range(q) /\ Waiting' = [Waiting EXCEPT ![s] = @ \ served]
  BY <1>5
<1>7. Takers(served, wait_peek) = C!Takers(served)
  BY DEF Takers, C!Takers
<1>8. /\ served \in SUBSET Waiting[s]
      /\ n = 0 => served = {}
      /\ left >= 0
      /\ left > 0 => served = Waiting[s]
      /\ \A t \in served, u \in Waiting[s] \ served : item_sch_tag[t] <= item_sch_tag[u]
      /\ TokensKept' = [TokensKept EXCEPT ![s] = left]
      /\ Waiting' = [Waiting EXCEPT ![s] = @ \ served]
      /\ Passed' = Passed \cup served
  BY <1>4, <1>5, <1>6
<1>9. left = n - C!Cardinality(C!Takers(served))
  BY <1>7, SameCount DEF left
<1>10. s \in Existing /\ UNCHANGED <<Existing, wait_peek, item_sch_tag>>
  BY <1>1, <1>5
<1>. QED
  BY <1>8, <1>9, <1>10 DEF C!Offer

LEMMA Deletes ==
    ASSUME SemInv, SemInv', NEW s \in WaitQ, handler = "none", enter_loop("delete", s, 0)
    PROVE  C!Delete(s)
<1>1. /\ sem_live[s]
      /\ handler' = "wake"
      /\ wake' = [loop |-> "delete", sem |-> s, counter |-> 0]
      /\ UNCHANGED <<item_sch_tag, q_items, sem_live, counter, wait_peek, result>>
  BY DEF enter_loop, itemVars
<1>2. LoopOf("delete", s)' /\ handler # "wake"
  BY <1>1 DEF LoopOf
<1>3. /\ Existing = {r \in WaitQ : sem_live[r]}
      /\ Existing' = {r \in WaitQ : sem_live'[r] /\ r # s}
      /\ Waiting = [r \in WaitQ |-> Range(q_items[r])]
      /\ Waiting' = [r \in WaitQ |-> IF r = s THEN {} ELSE Range(q_items'[r])]
      /\ UNCHANGED <<TokensKept, Passed>>
  BY <1>1, <1>2, Views, ViewsNext DEF ViewsRight
<1>4. /\ s \in Existing /\ Existing' = Existing \ {s}
      /\ Waiting' = [Waiting EXCEPT ![s] = {}]
  BY <1>1, <1>3
<1>. QED
  BY <1>1, <1>3, <1>4 DEF C!Delete

LEMMA Takes ==
    ASSUME SemInv, SemInv', NEW s \in WaitQ, handler = "none", sem_live[s], counter[s] # 0,
           counter' = [counter EXCEPT ![s] = @ - 1],
           UNCHANGED <<vars, sem_live, wait_peek, result, wake>>
    PROVE  C!Take(s)
<1>1. /\ UNCHANGED <<q_items, item_sch_tag, sem_live, wait_peek, result>>
      /\ handler # "wake" /\ handler' # "wake"
  BY DEF vars, itemVars, schVars
<1>2. /\ Existing = {r \in WaitQ : sem_live[r]} /\ UNCHANGED <<Existing, Waiting, Passed>>
      /\ TokensKept = counter /\ TokensKept' = counter'
  <2>1. /\ Existing = {r \in WaitQ : sem_live[r]} /\ TokensKept = counter
        /\ Waiting = [r \in WaitQ |-> Range(q_items[r])]
        /\ Passed = {t \in Thread : result[t]}
    BY <1>1, CalmView
  <2>2. /\ Existing' = {r \in WaitQ : sem_live'[r]} /\ TokensKept' = counter'
        /\ Waiting' = [r \in WaitQ |-> Range(q_items'[r])]
        /\ Passed' = {t \in Thread : result'[t]}
    BY <1>1, CalmNext
  <2>. QED
    BY <1>1, <2>1, <2>2
<1>3. counter[s] > 0
  BY SchedulerAssumption DEF SemInv, SemTypes
<1>. QED
  BY <1>1, <1>2, <1>3 DEF C!Take

LEMMA StartsToWait ==
    ASSUME SemInv, SemInv', NEW s \in WaitQ, NEW peek \in BOOLEAN, NEW n,
           p_current \in Thread \ {Idle}, handler = "none", sem_live[s], sem_block(s, peek, n)
    PROVE  C!Wait(p_current, s, peek)
<1>1. /\ counter[s] = 0
      /\ wait_peek' = [wait_peek EXCEPT ![p_current] = peek]
      /\ result' = [result EXCEPT ![p_current] = FALSE]
      /\ thd_block_current(s, TRUE, n)
      /\ UNCHANGED <<sem_live, counter>>
  BY DEF sem_block
<1>2. /\ item_sch_q' = [item_sch_q EXCEPT ![p_current] = s]
      /\ handler # "wake" /\ handler' # "wake"
  BY <1>1 DEF thd_block_current
<1>3. item_sch_tag' = item_sch_tag /\ item_sch_q[p_current] \notin WaitQ
  BY <1>1, BlockInserts DEF SemInv
<1>4. /\ Existing = {r \in WaitQ : sem_live[r]} /\ Existing' = Existing
      /\ TokensKept = counter /\ TokensKept' = TokensKept
      /\ Waiting = [r \in WaitQ |-> Range(q_items[r])]
      /\ Waiting' = [r \in WaitQ |-> Range(q_items'[r])]
      /\ Passed = {t \in Thread : result[t]} /\ Passed' = {t \in Thread : result'[t]}
  BY <1>1, <1>2, CalmView, CalmNext
<1>5. ASSUME NEW r \in WaitQ
      PROVE  /\ p_current \notin Range(q_items[r])
             /\ Range(q_items'[r]) = IF r = s THEN Range(q_items[r]) \cup {p_current}
                                     ELSE Range(q_items[r])
  <2>1. Range(q_items[r]) = {t \in Thread : item_sch_q[t] = r}
    BY WaitersOf DEF SemInv
  <2>2. Range(q_items'[r]) = {t \in Thread : item_sch_q'[t] = r}
    BY WaitersNow DEF SemInv
  <2>3. item_sch_q \in [Thread -> SchQ \cup {NULL}]
    BY DEF SemInv, Inv, ItemInv, Queues
  <2>. QED
    BY <1>2, <1>3, <2>1, <2>2, <2>3
<1>6. Waiting' = [Waiting EXCEPT ![s] = @ \cup {p_current}]
  BY <1>4, <1>5
<1>7. Passed' = Passed \ {p_current}
  BY <1>1, <1>4 DEF SemInv, SemTypes
<1>. QED
  BY <1>1, <1>3, <1>4, <1>5, <1>6, <1>7 DEF C!Wait

\* A turn of sem_reset: the thread that passes was to be served anyway.
LEMMA HandsOut ==
    ASSUME SemInv, SemInv', NEW s \in WaitQ, s = wake.sem, sem_reset_iterate
    PROVE  UNCHANGED C!countingVars
<1>. DEFINE q == q_items[s]
            h == Head(q)
<1>1. /\ handler = "wake" /\ wake.loop = "reset" /\ Waiters # <<>> /\ wake.counter # 0
      /\ wake' = [wake EXCEPT !.counter = IF wait_peek[h] THEN @ ELSE @ - 1]
      /\ result' = [result EXCEPT ![h] = TRUE]
      /\ thd_ready(Head(Waiters)) /\ q_items' = ReadyItems(Head(Waiters))
      /\ UNCHANGED <<handler, sem_live, counter, wait_peek>>
      /\ item_sch_tag' = item_sch_tag
  BY DEF sem_reset_iterate, schVars, Waiters, thd_ready
<1>2. /\ wake \in Wake /\ s \in WaitQ /\ h \in Thread
      /\ q_items'[s] = Tail(q)
      /\ \A r \in WaitQ \ {s} : q_items'[r] = q_items[r]
  BY <1>1, ServedTail DEF Waiters
<1>3. /\ Queue(q, Thread) /\ q # <<>> /\ wait_peek \in [Thread -> BOOLEAN]
      /\ wake.counter \in Nat \ {0}
  BY <1>1, <1>2, WaitersOf, SchedulerAssumption DEF SemInv, SemTypes, Waiters, Wake
<1>4. /\ wake'.loop = "reset" /\ wake'.sem = s
      /\ wake'.counter = IF wait_peek[h] THEN wake.counter ELSE wake.counter - 1
  BY <1>1, <1>2 DEF Wake
<1>5. /\ LoopOf("reset", s) /\ Served(s) = Reached(q, wake.counter, wait_peek)
      /\ LoopOf("reset", s)' /\ Served(s)' = Reached(Tail(q), wake'.counter, wait_peek)
  BY <1>1, <1>2, <1>4 DEF LoopOf, Served
<1>. HIDE DEF q, h
<1>6. /\ Reached(q, wake.counter, wait_peek)
            = {h} \cup Reached(Tail(q), wake'.counter, wait_peek)
      /\ wake.counter - Cardinality(Takers(Reached(q, wake.counter, wait_peek), wait_peek))
            = wake'.counter
                 - Cardinality(Takers(Reached(Tail(q), wake'.counter, wait_peek), wait_peek))
  BY <1>3, <1>4, ReachedTail DEF h
<1>7. Served(s) = {h} \cup Served(s)'
  BY <1>5, <1>6
<1>8. Range(Tail(q)) = Range(q) \ {h}
  <2>1. h \in Range(q) /\ RemoveFirst(q, h) = Tail(q)
    BY <1>3, RotateQueue, RemoveHead DEF h
  <2>. QED
    BY <1>3, <2>1, RemoveQueue
<1>9. /\ Existing = {r \in WaitQ : sem_live[r]}
      /\ TokensKept = [counter EXCEPT ![s] = wake.counter
            - Cardinality(Takers(Served(s), wait_peek))]
      /\ Waiting = [r \in WaitQ |->
            IF r = s THEN Range(q_items[r]) \ Served(s) ELSE Range(q_items[r])]
      /\ Passed = {t \in Thread : result[t]} \cup Served(s)
  BY <1>2, <1>5, ResetView
<1>10. /\ Existing' = {r \in WaitQ : sem_live'[r]}
       /\ TokensKept' = [counter' EXCEPT ![s] = wake'.counter
             - Cardinality(Takers(Served(s)', wait_peek'))]
       /\ Waiting' = [r \in WaitQ |->
             IF r = s THEN Range(q_items'[r]) \ Served(s)' ELSE Range(q_items'[r])]
       /\ Passed' = {t \in Thread : result'[t]} \cup Served(s)'
  BY <1>5, ResetNext
<1>11. TokensKept' = TokensKept
  BY <1>1, <1>5, <1>6, <1>9, <1>10
<1>12. Waiting' = Waiting
  <2>1. Range(Tail(q)) \ Served(s)' = Range(q) \ Served(s)
    BY <1>7, <1>8
  <2>2. q_items'[s] = Tail(q) /\ q_items[s] = q
    BY <1>2 DEF q
  <2>. QED
    BY <1>2, <1>9, <1>10, <2>1, <2>2
<1>13. Passed' = Passed
  <2>1. \A t \in Thread : result'[t] <=> result[t] \/ t = h
    BY <1>1, <1>2 DEF SemInv, SemTypes
  <2>. QED
    BY <1>2, <1>7, <1>9, <1>10, <2>1
<1>. QED
  BY <1>1, <1>9, <1>10, <1>11, <1>12, <1>13 DEF C!countingVars

\* sem_reset ends: there is nobody left to serve.
LEMMA ResetEnds ==
    ASSUME SemInv, SemInv', NEW s \in WaitQ, s = wake.sem, sem_reset_done
    PROVE  UNCHANGED C!countingVars
<1>1. /\ handler = "wake" /\ wake.loop = "reset" /\ handler' = "none"
      /\ Waiters = <<>> \/ wake.counter = 0
      /\ counter' = [counter EXCEPT ![s] = wake.counter]
      /\ UNCHANGED <<sem_live, wait_peek, result>>
      /\ leave_loop
  BY DEF sem_reset_done, leave_loop
<1>2. /\ wake \in Wake /\ s \in WaitQ
  BY <1>1 DEF SemInv, SemTypes, LoopInv, Wake
<1>3. LoopOf("reset", s) /\ Served(s) = Reached(q_items[s], wake.counter, wait_peek)
  BY <1>1 DEF LoopOf, Served
<1>4. Queue(q_items[s], Thread) /\ wake.counter \in Nat
  BY <1>2, WaitersOf, SchedulerAssumption DEF SemInv, Wake
<1>5. Served(s) = {}
  <2>1. CASE Waiters = <<>>
    BY <1>3, <2>1 DEF Waiters, Reached
  <2>2. CASE wake.counter = 0
    <3>1. \A j \in DOMAIN q_items[s] :
             Cardinality(Takers(Ahead(q_items[s], j), wait_peek)) \in Nat
      BY <1>4, TakersFinite DEF Queue
    <3>. QED
      BY <1>3, <2>2, <3>1 DEF Reached
  <2>. QED
    BY <1>1, <2>1, <2>2
<1>6. Cardinality(Takers(Served(s), wait_peek)) = 0
  <2>1. Takers(Served(s), wait_peek) = {}
    BY <1>5 DEF Takers
  <2>. QED
    BY <2>1, FS_EmptySet
<1>7. /\ Existing = {r \in WaitQ : sem_live[r]}
      /\ TokensKept = [counter EXCEPT ![s] = wake.counter
            - Cardinality(Takers(Served(s), wait_peek))]
      /\ Waiting = [r \in WaitQ |->
            IF r = s THEN Range(q_items[r]) \ Served(s) ELSE Range(q_items[r])]
      /\ Passed = {t \in Thread : result[t]} \cup Served(s)
  BY <1>2, <1>3, ResetView
<1>8. /\ Existing' = {r \in WaitQ : sem_live'[r]} /\ TokensKept' = counter'
      /\ Waiting' = [r \in WaitQ |-> Range(q_items'[r])]
      /\ Passed' = {t \in Thread : result'[t]}
  BY <1>1, CalmNext
<1>9. item_sch_tag' = item_sch_tag /\ \A r \in WaitQ : q_items'[r] = q_items[r]
  BY <1>1, LeaveQueues
<1>10. TokensKept = counter'
  <2>1. wake.counter - 0 = wake.counter
    BY <1>4
  <2>. QED
    BY <1>1, <1>6, <1>7, <2>1
<1>11. Waiting' = Waiting
  BY <1>5, <1>7, <1>8, <1>9
<1>. QED
  BY <1>1, <1>5, <1>7, <1>8, <1>9, <1>10, <1>11 DEF C!countingVars

\* A turn of sem_delete_static: the thread that fails does not wait any more.
LEMMA TurnsAway ==
    ASSUME SemInv, SemInv', NEW s \in WaitQ, s = wake.sem, sem_delete_iterate
    PROVE  UNCHANGED C!countingVars
<1>1. /\ handler = "wake" /\ wake.loop = "delete" /\ Waiters # <<>>
      /\ thd_ready(Head(Waiters)) /\ q_items' = ReadyItems(Head(Waiters))
      /\ UNCHANGED <<handler, wake, sem_live, counter, wait_peek, result>>
      /\ item_sch_tag' = item_sch_tag
  BY DEF sem_delete_iterate, schVars, semVars, thd_ready
<1>2. s \in WaitQ /\ \A r \in WaitQ \ {s} : q_items'[r] = q_items[r]
  BY <1>1, ServedTail
<1>3. LoopOf("delete", s) /\ LoopOf("delete", s)'
  BY <1>1 DEF LoopOf
<1>4. /\ Existing = {r \in WaitQ : sem_live[r] /\ r # s} /\ TokensKept = counter
      /\ Waiting = [r \in WaitQ |-> IF r = s THEN {} ELSE Range(q_items[r])]
      /\ Passed = {t \in Thread : result[t]}
  BY <1>2, <1>3, DeleteView
<1>5. /\ Existing' = {r \in WaitQ : sem_live'[r] /\ r # s} /\ TokensKept' = counter'
      /\ Waiting' = [r \in WaitQ |-> IF r = s THEN {} ELSE Range(q_items'[r])]
      /\ Passed' = {t \in Thread : result'[t]}
  BY <1>1, <1>2, <1>3, DeleteNext
<1>6. Waiting' = Waiting
  BY <1>2, <1>4, <1>5
<1>. QED
  BY <1>1, <1>4, <1>5, <1>6 DEF C!countingVars

LEMMA DeleteEnds ==
    ASSUME SemInv, SemInv', NEW s \in WaitQ, s = wake.sem, sem_delete_done
    PROVE  UNCHANGED C!countingVars
<1>1. /\ handler = "wake" /\ wake.loop = "delete" /\ handler' = "none"
      /\ Waiters = <<>>
      /\ sem_live' = [sem_live EXCEPT ![s] = FALSE]
      /\ UNCHANGED <<counter, wait_peek, result>>
      /\ leave_loop
  BY DEF sem_delete_done, leave_loop
<1>2. s \in WaitQ /\ sem_live \in [WaitQ -> BOOLEAN]
  BY <1>1 DEF SemInv, SemTypes, LoopInv, Wake
<1>3. LoopOf("delete", s)
  BY <1>1 DEF LoopOf
<1>4. /\ Existing = {r \in WaitQ : sem_live[r] /\ r # s} /\ TokensKept = counter
      /\ Waiting = [r \in WaitQ |-> IF r = s THEN {} ELSE Range(q_items[r])]
      /\ Passed = {t \in Thread : result[t]}
  BY <1>2, <1>3, DeleteView
<1>5. /\ Existing' = {r \in WaitQ : sem_live'[r]} /\ TokensKept' = counter'
      /\ Waiting' = [r \in WaitQ |-> Range(q_items'[r])]
      /\ Passed' = {t \in Thread : result'[t]}
  BY <1>1, CalmNext
<1>6. item_sch_tag' = item_sch_tag /\ \A r \in WaitQ : q_items'[r] = q_items[r]
  BY <1>1, LeaveQueues
<1>7. Range(q_items[s]) = {}
  BY <1>1 DEF Waiters, Range
<1>8. Waiting' = Waiting
  BY <1>2, <1>4, <1>5, <1>6, <1>7
<1>9. Existing' = Existing
  BY <1>1, <1>2, <1>4, <1>5
<1>. QED
  BY <1>1, <1>4, <1>5, <1>6, <1>8, <1>9 DEF C!countingVars

LEMMA CallCounts ==
    ASSUME CountInv, SemInv', SemCallNext PROVE C!CountingNext
<1>. SUFFICES ASSUME NEW s \in WaitQ,
                     \/ \E c \in Context :
                           \/ \E n \in Initials :
                                 os_semaphore_create(c, s, n) \/ os_semaphore_reset(c, s, n)
                           \/ os_semaphore_post(c, s)
                           \/ os_semaphore_delete(c, s)
                           \/ os_semaphore_wait_nb(c, s)
                     \/ \E n \in Timeouts \cup {0} :
                           os_semaphore_wait(s, n) \/ os_semaphore_peek(s, n)
              PROVE  C!CountingNext
  BY DEF SemCallNext
<1>1. ASSUME NEW c \in Context, NEW n \in Initials, os_semaphore_create(c, s, n)
      PROVE  C!CountingNext
  BY <1>1, Creates DEF C!CountingNext, CountInv
<1>2. ASSUME NEW c \in Context, NEW n \in Initials, os_semaphore_reset(c, s, n)
      PROVE  C!CountingNext
  <2>1. C!Offer(s, n)
    BY <1>2, Offers, SemaphoreAssumption DEF os_semaphore_reset, MayCall
  <2>. QED
    BY <2>1 DEF C!CountingNext, C!Reset
<1>3. ASSUME NEW c \in Context, os_semaphore_post(c, s) PROVE C!CountingNext
  <2>1. (counter[s] + 1) % UintMod \in 0 .. (UintMod - 1)
    BY SchedulerAssumption DEF CountInv, SemInv, SemTypes
  <2>2. handler = "none" /\ enter_loop("reset", s, (counter[s] + 1) % UintMod)
    BY <1>3 DEF os_semaphore_post, MayCall
  <2>3. C!Offer(s, (counter[s] + 1) % UintMod)
    BY <2>1, <2>2, Offers
  <2>4. TokensKept = counter
    BY <2>2, CalmView DEF CountInv
  <2>. QED
    BY <2>3, <2>4 DEF C!CountingNext, C!Post
<1>4. ASSUME NEW c \in Context, os_semaphore_delete(c, s) PROVE C!CountingNext
  <2>1. C!Delete(s)
    BY <1>4, Deletes DEF os_semaphore_delete, MayCall, CountInv
  <2>. QED
    BY <2>1 DEF C!CountingNext
<1>5. ASSUME handler = "none", sem_live[s], counter[s] # 0,
             counter' = [counter EXCEPT ![s] = @ - 1],
             UNCHANGED <<vars, sem_live, wait_peek, result, wake>>
      PROVE  C!CountingNext
  <2>1. C!Take(s)
    BY <1>5, Takes DEF CountInv
  <2>. QED
    BY <2>1 DEF C!CountingNext
<1>6. ASSUME NEW c \in Context, os_semaphore_wait_nb(c, s) PROVE C!CountingNext
  BY <1>5, <1>6 DEF os_semaphore_wait_nb, MayCall
<1>7. ASSUME NEW n \in Timeouts \cup {0}, os_semaphore_wait(s, n) \/ os_semaphore_peek(s, n)
      PROVE  C!CountingNext
  <2>1. handler = "none" /\ sem_live[s]
    BY <1>7 DEF os_semaphore_wait, os_semaphore_peek, MayCall
  <2>2. p_current \in Thread \ {Idle}
    BY <1>7, CallingThread DEF os_semaphore_wait, os_semaphore_peek, CountInv, SemInv
  <2>3. ASSUME NEW peek \in BOOLEAN, sem_block(s, peek, n) PROVE C!CountingNext
    <3>1. C!Wait(p_current, s, peek)
      BY <2>1, <2>2, <2>3, StartsToWait DEF CountInv
    <3>. QED
      BY <2>2, <3>1 DEF C!CountingNext
  <2>. QED
    BY <1>5, <1>7, <2>1, <2>3 DEF os_semaphore_wait, os_semaphore_peek
<1>. QED
  BY <1>1, <1>2, <1>3, <1>4, <1>6, <1>7

LEMMA StepCounts ==
    ASSUME CountInv, SemInv', [SemNext]_allVars
    PROVE  [C!CountingNext]_(C!countingVars)
<1>1. CASE Next /\ UNCHANGED semVars
  BY <1>1, GivesUp DEF C!CountingNext, CountInv
<1>2. CASE SemCallNext
  BY <1>2, CallCounts
<1>3. CASE SemLoopNext
  <2>1. PICK s \in WaitQ : s = wake.sem
    BY <1>3 DEF SemLoopNext, sem_reset_iterate, sem_reset_done, sem_delete_iterate,
       sem_delete_done, CountInv, SemInv, SemTypes, LoopInv, Wake
  <2>. QED
    BY <1>3, <2>1, HandsOut, ResetEnds, TurnsAway, DeleteEnds DEF SemLoopNext, CountInv
<1>4. CASE UNCHANGED allVars
  BY <1>4 DEF allVars, semVars, vars, schVars, itemVars, C!countingVars, Existing, TokensKept,
     Waiting, Passed, Served, Tokens, LoopOf
<1>. QED
  BY <1>1, <1>2, <1>3, <1>4 DEF SemNext

LEMMA InitCounts == SemInit => C!CountingInit
<1>. SUFFICES ASSUME SemInit PROVE C!CountingInit
  OBVIOUS
<1>1. SemInv /\ handler # "wake"
  BY SemInvInit DEF SemInit, Init
<1>2. /\ Existing = {s \in WaitQ : sem_live[s]} /\ TokensKept = counter
      /\ Waiting = [s \in WaitQ |-> Range(q_items[s])]
      /\ Passed = {t \in Thread : result[t]}
  BY <1>1, CalmView
<1>3. \A s \in WaitQ : Range(q_items[s]) = {}
  BY WaitQNames, Constants DEF SemInit, Init, Range
<1>4. item_sch_tag \in [Thread -> Prio]
  BY <1>1 DEF SemInv, Inv, ThreadInv
<1>. QED
  BY <1>2, <1>3, <1>4 DEF SemInit, C!CountingInit

\* Semaphores count: seen from outside, every call takes effect at once, and the
\* tokens go to those who wait in the order of their priorities, although sem_reset
\* and sem_delete_static wake them one by one.
THEOREM ImplementsCounting == SemSpec => SemaphoreCounts
<1>1. SemInit => CountInv
  BY SemInvInit, WaitOrderInit DEF CountInv
<1>2. CountInv /\ [SemNext]_allVars => CountInv'
  BY SemInvStep, WaitOrderStep DEF CountInv
<1>3. CountInv /\ CountInv' /\ [SemNext]_allVars => [C!CountingNext]_(C!countingVars)
  BY StepCounts DEF CountInv
<1>. QED
  BY <1>1, <1>2, <1>3, InitCounts, PTL DEF SemSpec, SemaphoreCounts, C!CountingSpec
=============================================================================
