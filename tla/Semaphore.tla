------------------------------ MODULE Semaphore ------------------------------
(***************************************************************************)
(* Counting semaphores, source/semaphore.c, on top of the scheduler.  A    *)
(* semaphore is the address of its control block and names its wait queue. *)
(*                                                                         *)
(* sem_reset and sem_delete_static ready threads in a loop with interrupts *)
(* disabled: one action per iteration, with `wake' the loop's variables.   *)
(***************************************************************************)
EXTENDS Scheduler

CONSTANTS Initials   \* the values callers pass as initial

\* The local variables of the two loops.
Wake == [loop : {"reset", "delete"}, sem : WaitQ, counter : 0 .. (UintMod - 1)]

ASSUME SemaphoreAssumption ==
    /\ NULL \notin Wake
    /\ Initials \subseteq 0 .. (UintMod - 1)
    /\ IsrCalls \cap {"sem_wait", "sem_peek"} = {}

VARIABLES
    sem_live,    \* does a control block exist at this address
    counter,     \* sem_cblk_t.counter
    wait_peek,   \* is the SEM_PEEK flag of a thread's sem_schinfo_t set
    result,      \* the result field of a thread's sem_schinfo_t
    wake         \* p_sem and counter of the loop that is running

semVars == <<sem_live, counter, wait_peek, result, wake>>
allVars == <<vars, semVars>>

SemTypeOK ==
    /\ TypeOK
    /\ sem_live \in [WaitQ -> BOOLEAN]
    /\ counter \in [WaitQ -> 0 .. (UintMod - 1)]
    /\ wait_peek \in [Thread -> BOOLEAN]
    /\ result \in [Thread -> BOOLEAN]
    /\ wake \in Wake \cup {NULL}
    /\ handler = "wake" <=> wake # NULL

SemInit ==
    /\ Init
    /\ sem_live = [s \in WaitQ |-> FALSE]
    /\ counter = [s \in WaitQ |-> 0]
    /\ wait_peek = [t \in Thread |-> FALSE]
    /\ result = [t \in Thread |-> FALSE]
    /\ wake = NULL

-----------------------------------------------------------------------------
\* sem_init of a control block mpool_alloc has found, or of a static one.
os_semaphore_create(c, s, initial) ==
    /\ MayCall(c, "sem_create")
    /\ ~sem_live[s]
    /\ sem_live' = [sem_live EXCEPT ![s] = TRUE]
    /\ counter' = [counter EXCEPT ![s] = initial]
    /\ q_items' = [q_items EXCEPT ![s] = <<>>]
    /\ UNCHANGED <<state, item_sch_tag, item_sch_q, delayVars, p_schinfo,
                   timeVars, schVars, wait_peek, result, wake>>

\* Enter the loop of sem_reset, or of sem_delete_static, on s.
enter_loop(loop, s, n) ==
    /\ sem_live[s]
    /\ handler' = "wake"
    /\ wake' = [loop |-> loop, sem |-> s, counter |-> n]
    /\ UNCHANGED <<state, p_schinfo, itemVars, delayVars, timeVars, p_current,
                   p_next, pending, cpu, ctx, sem_live, counter, wait_peek, result>>

os_semaphore_reset(c, s, initial) ==
    /\ MayCall(c, "sem_reset") /\ Started
    /\ enter_loop("reset", s, initial)

\* Mutant: the counter is wider than an os_uint_t.
PostInWide(c, s) ==
    /\ MayCall(c, "sem_post") /\ Started
    /\ enter_loop("reset", s, counter[s] + 1)

\* The counter wraps around like any os_uint_t.
os_semaphore_post(c, s) ==
    /\ MayCall(c, "sem_post") /\ Started
    /\ enter_loop("reset", s, (counter[s] + 1) % UintMod)

os_semaphore_delete(c, s) ==
    /\ MayCall(c, "sem_delete") /\ Started
    /\ enter_loop("delete", s, 0)

Waiters == q_items[wake.sem]

\* Mutant: a waiter that peeks takes a token as well.
ResetTakesAlways ==
    /\ handler = "wake" /\ wake.loop = "reset"
    /\ Waiters # <<>>
    /\ wake.counter # 0
    /\ LET t == Head(Waiters)
       IN  /\ wake' = [wake EXCEPT !.counter = @ - 1]
           /\ result' = [result EXCEPT ![t] = TRUE]
           /\ thd_ready(t)
           /\ q_items' = ReadyItems(t)
    /\ UNCHANGED <<timeVars, schVars, sem_live, counter, wait_peek>>

\* One iteration of sem_reset: the first waiter succeeds; it takes a token
\* unless it peeks.
sem_reset_iterate ==
    /\ handler = "wake" /\ wake.loop = "reset"
    /\ Waiters # <<>>
    /\ wake.counter # 0
    /\ LET t == Head(Waiters)
       IN  /\ wake' = [wake EXCEPT !.counter = IF wait_peek[t] THEN @ ELSE @ - 1]
           /\ result' = [result EXCEPT ![t] = TRUE]
           /\ thd_ready(t)
           /\ q_items' = ReadyItems(t)
    /\ UNCHANGED <<timeVars, schVars, sem_live, counter, wait_peek>>

\* Both functions end with a reschedule request.
leave_loop ==
    /\ sch_reschedule_req(q_items, item_sch_tag)
    /\ handler' = "none"
    /\ wake' = NULL
    /\ UNCHANGED <<state, item_sch_tag, item_sch_q, delayVars, p_schinfo, timeVars,
                   p_current, cpu, ctx, wait_peek, result>>

\* Mutant: the loop keeps the last token.
ResetKeepsOne ==
    /\ handler = "wake" /\ wake.loop = "reset"
    /\ Waiters = <<>> \/ wake.counter <= 1
    /\ counter' = [counter EXCEPT ![wake.sem] = wake.counter]
    /\ UNCHANGED sem_live
    /\ leave_loop

\* The tokens left over stay in the counter.
sem_reset_done ==
    /\ handler = "wake" /\ wake.loop = "reset"
    /\ Waiters = <<>> \/ wake.counter = 0
    /\ counter' = [counter EXCEPT ![wake.sem] = wake.counter]
    /\ UNCHANGED sem_live
    /\ leave_loop

\* One iteration of sem_delete_static: the wait fails.
sem_delete_iterate ==
    /\ handler = "wake" /\ wake.loop = "delete"
    /\ Waiters # <<>>
    /\ thd_ready(Head(Waiters))
    /\ q_items' = ReadyItems(Head(Waiters))
    /\ UNCHANGED <<timeVars, schVars, semVars>>

\* The control block is freed.
sem_delete_done ==
    /\ handler = "wake" /\ wake.loop = "delete"
    /\ Waiters = <<>>
    /\ sem_live' = [sem_live EXCEPT ![wake.sem] = FALSE]
    /\ UNCHANGED counter
    /\ leave_loop

\* Mutant: the result of the last wait is still there.
BlockKeepsResult(s, peek, timeout) ==
    /\ counter[s] = 0
    /\ wait_peek' = [wait_peek EXCEPT ![p_current] = peek]
    /\ thd_block_current(s, TRUE, timeout)
    /\ UNCHANGED <<sem_live, counter, result, wake>>

\* Block with fresh scheduling information, which outlives the wait on the
\* thread's stack.
sem_block(s, peek, timeout) ==
    /\ counter[s] = 0
    /\ wait_peek' = [wait_peek EXCEPT ![p_current] = peek]
    /\ result' = [result EXCEPT ![p_current] = FALSE]
    /\ thd_block_current(s, TRUE, timeout)
    /\ UNCHANGED <<sem_live, counter, wake>>

os_semaphore_wait(s, timeout) ==
    /\ MayCall("thread", "sem_wait")
    /\ sem_live[s]
    /\ \/ /\ counter[s] # 0
          /\ counter' = [counter EXCEPT ![s] = @ - 1]
          /\ UNCHANGED <<vars, sem_live, wait_peek, result, wake>>
       \/ sem_block(s, FALSE, timeout)

\* With a token there it only reads, and changes nothing.
os_semaphore_peek(s, timeout) ==
    /\ MayCall("thread", "sem_peek")
    /\ sem_live[s]
    /\ sem_block(s, TRUE, timeout)

\* Without a token it fails, and changes nothing.
os_semaphore_wait_nb(c, s) ==
    /\ MayCall(c, "sem_wait_nb")
    /\ sem_live[s]
    /\ counter[s] # 0
    /\ counter' = [counter EXCEPT ![s] = @ - 1]
    /\ UNCHANGED <<vars, sem_live, wait_peek, result, wake>>

-----------------------------------------------------------------------------
SemCallNext ==
    \E s \in WaitQ :
        \/ \E c \in Context :
              \/ \E n \in Initials :
                    os_semaphore_create(c, s, n) \/ os_semaphore_reset(c, s, n)
              \/ os_semaphore_post(c, s)
              \/ os_semaphore_delete(c, s)
              \/ os_semaphore_wait_nb(c, s)
        \/ \E n \in Timeouts \cup {0} :
              os_semaphore_wait(s, n) \/ os_semaphore_peek(s, n)

SemLoopNext ==
    \/ sem_reset_iterate
    \/ sem_reset_done
    \/ sem_delete_iterate
    \/ sem_delete_done

SemNext ==
    \/ Next /\ UNCHANGED semVars
    \/ SemCallNext
    \/ SemLoopNext

SemSpec == SemInit /\ [][SemNext]_allVars

-----------------------------------------------------------------------------
(* Safety *)

\* No thread sleeps on a semaphore that has tokens, and none sleeps on one that
\* does not exist (sem_reset, sem_delete_static, os_semaphore_wait).
NoSleepOnTokens ==
    \A s \in WaitQ :
        q_items[s] # <<>> /\ handler # "wake" => sem_live[s] /\ counter[s] = 0

\* A queued waiter is blocked, has left its scheduling information, which
\* sem_reset dereferences, and has not been told of a success.
WaiterInfo ==
    \A s \in WaitQ : \A t \in Range(q_items[s]) :
        state[t] = "BLOCKED" /\ p_schinfo[t] /\ ~result[t]

\* Tokens of s, the ones a running loop still has to hand out included.
Tokens(s) ==
    IF handler = "wake" /\ wake.sem = s /\ wake.loop = "reset"
    THEN wake.counter ELSE counter[s]

Waits(t, s) == item_sch_q[t] = s

\* A wait that blocked succeeds exactly when a token was handed to it: a thread
\* that leaves the wait queue, by a token, a timeout, a resume, a suspension or
\* the deletion of the semaphore, reports a success only if it was the first
\* waiter while there was a token, and then the token is gone, unless it peeks.
WaitOutcome ==
    [][\A s \in WaitQ, t \in Thread :
          Waits(t, s) /\ ~Waits(t, s)' =>
             IF result'[t]
             THEN /\ t = Head(q_items[s])
                  /\ Tokens(s) > 0
                  /\ Tokens(s)' = IF wait_peek[t] THEN Tokens(s) ELSE Tokens(s) - 1
             ELSE Tokens(s)' = Tokens(s)]_allVars

-----------------------------------------------------------------------------
(* The abstract semaphores *)

LoopOf(loop, s) == handler = "wake" /\ wake.loop = loop /\ wake.sem = s

Takers(S, peek) == {t \in S : ~peek[t]}

\* The threads in front of position i of the queue q.
Ahead(q, i) == {q[j] : j \in 1 .. (i - 1)}

\* The threads that n tokens suffice for: fewer than n are taken ahead of them.
Reached(q, n, peek) ==
    {q[i] : i \in {j \in DOMAIN q : Cardinality(Takers(Ahead(q, j), peek)) < n}}

\* The waiters that the running loop is going to serve.
Served(s) ==
    IF LoopOf("reset", s) THEN Reached(q_items[s], wake.counter, wait_peek) ELSE {}

\* The semaphores as they are once the running loop has ended.
Existing == {s \in WaitQ : sem_live[s] /\ ~LoopOf("delete", s)}
TokensKept == [s \in WaitQ |-> Tokens(s) - Cardinality(Takers(Served(s), wait_peek))]
Waiting == [s \in WaitQ |->
               IF LoopOf("delete", s) THEN {} ELSE Range(q_items[s]) \ Served(s)]
Passed == {t \in Thread : result[t]} \cup UNION {Served(s) : s \in WaitQ}

C == INSTANCE Counting WITH
        Sem <- WaitQ,
        Size <- UintMod,
        Initial <- Initials,
        live <- Existing,
        tokens <- TokensKept,
        waiting <- Waiting,
        peeks <- wait_peek,
        passed <- Passed,
        prio <- item_sch_tag

\* A post, a reset and a deletion are atomic, although they wake their waiters one
\* by one: the tokens go to as many waiters as they suffice for, no token is lost
\* or given twice, nobody with a higher priority is left behind, and tokens are
\* kept only when nobody waits (sem_reset, sem_delete_static).
SemaphoreCounts == C!CountingSpec
=============================================================================
