---------------------------- MODULE MCSemaphore ----------------------------
(* Semaphore with a few threads and one semaphore for TLC. *)
EXTENDS Semaphore

CONSTANTS idle, t1, t2, sem

\* The threads are interchangeable.
Symmetry == Permutations({t1, t2})

=============================================================================
