---------------------------- MODULE MCScheduler ----------------------------
(* Scheduler with a few threads for TLC. *)
EXTENDS Scheduler, TLC

CONSTANTS idle, t1, t2, s1

\* The dynamic threads are interchangeable.
Symmetry == Permutations({t1, t2})

=============================================================================
