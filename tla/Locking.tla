------------------------------- MODULE Locking -------------------------------
(***************************************************************************)
(* What recursive mutexes promise.  A call takes effect at once: with its  *)
(* last unlock the owner hands the mutex to a thread that waits to own it, *)
(* one with the highest priority (the smallest number), and lets threads   *)
(* that only peek go on up to there; without such a thread the mutex is    *)
(* free and all who peek go on.                                            *)
(***************************************************************************)
EXTENDS Integers

CONSTANTS
    Thread,
    Mutex,
    Nobody,
    MaxDepth,   \* how often a mutex is locked by its owner
    Prio

VARIABLES
    live,       \* the mutexes that exist
    owner,
    depth,      \* how often the owner has to unlock
    waiting,    \* the threads that wait for a mutex
    peeks,      \* does a thread wait without locking
    prio        \* the priorities of the threads

lockingVars == <<live, owner, depth, waiting, peeks, prio>>

LockingInit ==
    /\ live = {}
    /\ owner = [m \in Mutex |-> Nobody]
    /\ depth = [m \in Mutex |-> 0]
    /\ waiting = [m \in Mutex |-> {}]
    /\ peeks = [t \in Thread |-> FALSE]
    /\ prio \in [Thread -> Prio]

Create(m) ==
    /\ m \notin live
    /\ live' = live \cup {m}
    /\ owner' = [owner EXCEPT ![m] = Nobody]
    /\ depth' = [depth EXCEPT ![m] = 0]
    /\ UNCHANGED <<waiting, peeks, prio>>

Lock(t, m) ==
    /\ m \in live
    /\ owner[m] \in {Nobody, t}
    /\ depth[m] < MaxDepth
    /\ owner' = [owner EXCEPT ![m] = t]
    /\ depth' = [depth EXCEPT ![m] = @ + 1]
    /\ UNCHANGED <<live, waiting, peeks, prio>>

Wait(t, m, peek) ==
    /\ m \in live
    /\ owner[m] \notin {Nobody, t}
    /\ \A r \in Mutex : t \notin waiting[r]
    /\ waiting' = [waiting EXCEPT ![m] = @ \cup {t}]
    /\ peeks' = [peeks EXCEPT ![t] = peek]
    /\ UNCHANGED <<live, owner, depth, prio>>

Unlock(t, m) ==
    /\ m \in live
    /\ owner[m] = t
    /\ depth[m] > 1
    /\ depth' = [depth EXCEPT ![m] = @ - 1]
    /\ UNCHANGED <<live, owner, waiting, peeks, prio>>

Peekers(m) == {t \in waiting[m] : peeks[t]}

\* The last unlock, and someone waits to own m.
PassOn(t, m) ==
    /\ m \in live
    /\ owner[m] = t
    /\ depth[m] = 1
    /\ \E next \in waiting[m] \ Peekers(m), served \in SUBSET Peekers(m) :
          /\ \A u \in waiting[m] \ (served \cup {next}) : prio[next] <= prio[u]
          /\ \A u \in served : prio[u] <= prio[next]
          /\ owner' = [owner EXCEPT ![m] = next]
          /\ waiting' = [waiting EXCEPT ![m] = @ \ (served \cup {next})]
    /\ UNCHANGED <<live, depth, peeks, prio>>

\* The last unlock, and nobody does.
Release(t, m) ==
    /\ m \in live
    /\ owner[m] = t
    /\ depth[m] = 1
    /\ waiting[m] = Peekers(m)
    /\ owner' = [owner EXCEPT ![m] = Nobody]
    /\ depth' = [depth EXCEPT ![m] = 0]
    /\ waiting' = [waiting EXCEPT ![m] = {}]
    /\ UNCHANGED <<live, peeks, prio>>

\* Every wait for m fails.
Delete(m) ==
    /\ m \in live
    /\ live' = live \ {m}
    /\ waiting' = [waiting EXCEPT ![m] = {}]
    /\ UNCHANGED <<owner, depth, peeks, prio>>

\* Threads stop waiting without having locked, and priorities change: what the
\* scheduler may do to mutexes.
GiveUp ==
    /\ waiting' \in [Mutex -> SUBSET Thread]
    /\ \A m \in Mutex : waiting'[m] \subseteq waiting[m]
    /\ prio' \in [Thread -> Prio]
    /\ UNCHANGED <<live, owner, depth, peeks>>

LockingNext ==
    \/ \E m \in Mutex :
          \/ Create(m) \/ Delete(m)
          \/ \E t \in Thread :
                \/ Lock(t, m) \/ Unlock(t, m) \/ PassOn(t, m) \/ Release(t, m)
                \/ \E peek \in BOOLEAN : Wait(t, m, peek)
    \/ GiveUp

LockingSpec == LockingInit /\ [][LockingNext]_lockingVars
=============================================================================
