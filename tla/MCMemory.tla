------------------------------- MODULE MCMemory -------------------------------
(* The memory pool with one static thread for TLC. *)
EXTENDS Memory

CONSTANT s1

=============================================================================
