------------------------------- MODULE Counting -------------------------------
(***************************************************************************)
(* What counting semaphores promise.  A call takes effect at once: tokens  *)
(* go to those who wait, the ones with the highest priority (the smallest  *)
(* number) first, and only what they leave is kept.  A waiter takes one    *)
(* token, or none if it peeks.                                             *)
(***************************************************************************)
EXTENDS Integers, FiniteSets

CONSTANTS
    Thread,
    Sem,
    Size,       \* a semaphore counts modulo Size
    Initial,    \* the numbers of tokens callers ask for
    Prio

VARIABLES
    live,       \* the semaphores that exist
    tokens,     \* the tokens of a semaphore
    waiting,    \* the threads that wait for a semaphore
    peeks,      \* does a thread wait without taking a token
    passed,     \* the threads whose last wait has succeeded
    prio        \* the priorities of the threads

countingVars == <<live, tokens, waiting, peeks, passed, prio>>

CountingInit ==
    /\ live = {}
    /\ tokens = [s \in Sem |-> 0]
    /\ waiting = [s \in Sem |-> {}]
    /\ peeks = [t \in Thread |-> FALSE]
    /\ passed = {}
    /\ prio \in [Thread -> Prio]

Create(s, n) ==
    /\ s \notin live
    /\ live' = live \cup {s}
    /\ tokens' = [tokens EXCEPT ![s] = n]
    /\ UNCHANGED <<waiting, peeks, passed, prio>>

Takers(S) == {t \in S : ~peeks[t]}

\* s has n tokens from now on, and whoever they suffice for passes.
Offer(s, n) ==
    /\ s \in live
    /\ \E served \in SUBSET waiting[s] :
          LET left == n - Cardinality(Takers(served))
          IN  /\ n = 0 => served = {}
              /\ left >= 0
              /\ left > 0 => served = waiting[s]
              /\ \A t \in served, u \in waiting[s] \ served : prio[t] <= prio[u]
              /\ tokens' = [tokens EXCEPT ![s] = left]
              /\ waiting' = [waiting EXCEPT ![s] = @ \ served]
              /\ passed' = passed \cup served
    /\ UNCHANGED <<live, peeks, prio>>

Post(s) == Offer(s, (tokens[s] + 1) % Size)

Reset(s) == \E n \in Initial : Offer(s, n)

\* Every wait for s fails.
Delete(s) ==
    /\ s \in live
    /\ live' = live \ {s}
    /\ waiting' = [waiting EXCEPT ![s] = {}]
    /\ UNCHANGED <<tokens, peeks, passed, prio>>

\* A token is there: the caller takes it and goes on.
Take(s) ==
    /\ s \in live
    /\ tokens[s] > 0
    /\ tokens' = [tokens EXCEPT ![s] = @ - 1]
    /\ UNCHANGED <<live, waiting, peeks, passed, prio>>

\* No token is there: t waits.
Wait(t, s, peek) ==
    /\ s \in live
    /\ tokens[s] = 0
    /\ \A r \in Sem : t \notin waiting[r]
    /\ waiting' = [waiting EXCEPT ![s] = @ \cup {t}]
    /\ peeks' = [peeks EXCEPT ![t] = peek]
    /\ passed' = passed \ {t}
    /\ UNCHANGED <<live, tokens, prio>>

\* Threads stop waiting without having passed, and priorities change: what the
\* scheduler may do to semaphores.
GiveUp ==
    /\ waiting' \in [Sem -> SUBSET Thread]
    /\ \A s \in Sem : waiting'[s] \subseteq waiting[s]
    /\ prio' \in [Thread -> Prio]
    /\ UNCHANGED <<live, tokens, peeks, passed>>

CountingNext ==
    \/ \E s \in Sem :
          \/ \E n \in Initial : Create(s, n)
          \/ Post(s) \/ Reset(s) \/ Delete(s) \/ Take(s)
          \/ \E t \in Thread, peek \in BOOLEAN : Wait(t, s, peek)
    \/ GiveUp

CountingSpec == CountingInit /\ [][CountingNext]_countingVars
=============================================================================
