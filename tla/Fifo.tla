--------------------------------- MODULE Fifo ---------------------------------
(***************************************************************************)
(* What a message queue promises: a sequence of bytes of bounded length.   *)
(* Messages enter at the end, or ahead of everything; a reader gets the    *)
(* first bytes, and takes them away unless it peeks.  out is what the last *)
(* step gave to a reader.                                                  *)
(***************************************************************************)
EXTENDS Integers, Sequences

CONSTANTS
    Byte,       \* what a byte can be
    Capacity    \* the largest number of bytes

VARIABLES contents, out

fifoVars == <<contents, out>>

FifoInit == contents = <<>> /\ out = <<>>

\* A message d enters whole, or not at all.
Send(d) ==
    /\ Len(contents) + Len(d) <= Capacity
    /\ contents' = contents \o d
    /\ out' = <<>>

SendAhead(d) ==
    /\ Len(contents) + Len(d) <= Capacity
    /\ contents' = d \o contents
    /\ out' = <<>>

Peek(n) ==
    /\ n <= Len(contents)
    /\ out' = SubSeq(contents, 1, n)
    /\ UNCHANGED contents

Receive(n) ==
    /\ n <= Len(contents)
    /\ out' = SubSeq(contents, 1, n)
    /\ contents' = SubSeq(contents, n + 1, Len(contents))

\* The queue is reset, or it ends.
Reset == contents' = <<>> /\ out' = <<>>

\* The reader has left with what it got.
Done == out' = <<>> /\ UNCHANGED contents

\* Every message of at most Capacity bytes.
Message == UNION {[1 .. n -> Byte] : n \in 1 .. Capacity}

FifoNext ==
    \/ \E d \in Message : Send(d) \/ SendAhead(d)
    \/ \E n \in 1 .. Capacity : Peek(n) \/ Receive(n)
    \/ Reset
    \/ Done

FifoSpec == FifoInit /\ [][FifoNext]_fifoVars
=============================================================================
