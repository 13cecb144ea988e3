------------------------------ MODULE MCMutex ------------------------------
(* Mutex with a few threads and one mutex for TLC. *)
EXTENDS Mutex

CONSTANTS idle, t1, t2, t3, mutex

\* The threads are interchangeable.
Symmetry == Permutations(Thread \ {Idle})

=============================================================================
