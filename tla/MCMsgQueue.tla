------------------------------ MODULE MCMsgQueue ------------------------------
(* A message queue with a few threads and a small buffer for TLC. *)
EXTENDS MsgQueue

CONSTANTS idle, t1, t2, reads, writes, a, b

\* The threads are interchangeable, and the bytes are.
Symmetry == Permutations({t1, t2}) \cup Permutations({a, b})

=============================================================================
