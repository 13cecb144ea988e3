--------------------------------- MODULE Ring ---------------------------------
(***************************************************************************)
(* The ring buffer of a message queue, source/queue.c.  A ring is the      *)
(* record of the buffer, its size and the two indices of queue_cblk_t;     *)
(* the loops that copy byte by byte are given by what the whole loop does. *)
(* One byte of the buffer always stays free, which tells a full ring from  *)
(* an empty one.                                                           *)
(***************************************************************************)
EXTENDS Integers, Sequences

\* The rings with a buffer of n bytes.
RingOf(n, Byte) ==
    [size : {n}, buf : [0 .. (n - 1) -> Byte], read : 0 .. (n - 1), write : 0 .. (n - 1)]

\* Mutant: an index stays at the end of the buffer.
WrapLate(r, i) == IF i > r.size THEN i - r.size ELSE i

\* An index that has been counted up past the end goes on at the beginning.
Wrap(r, i) == IF i >= r.size THEN i - r.size ELSE i

\* How many bytes index i lies behind index j, in the direction of writing.
Behind(r, j, i) == IF i >= j THEN i - j ELSE i + r.size - j

\* buf with the bytes of d from index j on.
Copied(r, j, d) ==
    [i \in DOMAIN r.buf |->
        IF Behind(r, j, i) < Len(d) THEN d[Behind(r, j, i) + 1] ELSE r.buf[i]]

queue_get_used_size(r) ==
    IF r.write >= r.read THEN r.write - r.read ELSE r.size - r.read + r.write

queue_get_free_size(r) ==
    IF r.read > r.write THEN r.read - r.write - 1 ELSE r.size - 1 - r.write + r.read

\* The size bytes that a reader gets.
queue_peek(r, size) == [k \in 1 .. size |-> r.buf[Wrap(r, r.read + k - 1)]]

queue_read(r, size) == [r EXCEPT !.read = Wrap(r, r.read + size)]

queue_write(r, d) ==
    [r EXCEPT !.buf = Copied(r, r.write, d), !.write = Wrap(r, r.write + Len(d))]

\* Mutant: the message is written from one index too late.
AheadOneLate(r, d) ==
    LET start == Behind(r, Len(d), r.read)
    IN  [r EXCEPT !.buf = Copied(r, Wrap(r, start + 1), d), !.read = start]

\* Write before the read index: the next reader gets d first.
queue_write_ahead(r, d) ==
    LET start == Behind(r, Len(d), r.read)
    IN  [r EXCEPT !.buf = Copied(r, start, d), !.read = start]

-----------------------------------------------------------------------------
\* What is in the ring, in the order in which it will be read.
Contents(r) == queue_peek(r, queue_get_used_size(r))
=============================================================================
