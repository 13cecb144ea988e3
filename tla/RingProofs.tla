------------------------------ MODULE RingProofs ------------------------------
(***************************************************************************)
(* The ring buffer is a queue of bytes for every size of the buffer, every *)
(* position of the indices and every message.                              *)
(***************************************************************************)
EXTENDS Ring, SequenceTheorems, TLAPS

-----------------------------------------------------------------------------
(* Where the indices lie *)

\* Counting an index up by less than a turn keeps it in the buffer.
LEMMA WrapRange ==
    ASSUME NEW n \in Nat \ {0}, NEW Byte, NEW r \in RingOf(n, Byte),
           NEW i \in 0 .. (n - 1), NEW k \in 0 .. n
    PROVE  Wrap(r, i + k) \in 0 .. (n - 1)
BY DEF Wrap, RingOf

\* Behind undoes Wrap.
LEMMA BehindWrap ==
    ASSUME NEW n \in Nat \ {0}, NEW Byte, NEW r \in RingOf(n, Byte),
           NEW i \in 0 .. (n - 1), NEW k \in 0 .. (n - 1)
    PROVE  Behind(r, i, Wrap(r, i + k)) = k
BY DEF Wrap, Behind, RingOf

\* What is used and what is free make up the buffer but for one byte:
\* queue_get_used_size and queue_get_free_size of source/queue.c.
THEOREM UsedFree ==
    ASSUME NEW n \in Nat \ {0}, NEW Byte, NEW r \in RingOf(n, Byte)
    PROVE  /\ queue_get_used_size(r) \in 0 .. (n - 1)
           /\ queue_get_free_size(r) = n - 1 - queue_get_used_size(r)
BY DEF queue_get_used_size, queue_get_free_size, RingOf

\* The place of byte i of the contents, counted from the write index.
LEMMA FromWrite ==
    ASSUME NEW n \in Nat \ {0}, NEW Byte, NEW r \in RingOf(n, Byte), NEW i \in 1 .. (n - 1)
    PROVE  /\ i <= queue_get_used_size(r) =>
                Wrap(r, r.write + (n - queue_get_used_size(r) + i - 1))
                   = Wrap(r, r.read + i - 1)
           /\ i > queue_get_used_size(r) =>
                Wrap(r, r.write + (i - queue_get_used_size(r) - 1))
                   = Wrap(r, r.read + i - 1)
<1>1. r.size = n /\ r.read \in 0 .. (n - 1) /\ r.write \in 0 .. (n - 1)
  BY DEF RingOf
<1>2. CASE r.write >= r.read
  BY <1>1, <1>2 DEF Wrap, queue_get_used_size
<1>3. CASE r.write < r.read
  BY <1>1, <1>3 DEF Wrap, queue_get_used_size
<1> QED
  BY <1>1, <1>2, <1>3

\* A reader gets bytes, as many as it asks for.
LEMMA PeekType ==
    ASSUME NEW n \in Nat \ {0}, NEW Byte, NEW r \in RingOf(n, Byte), NEW k \in 0 .. (n - 1)
    PROVE  /\ queue_peek(r, k) \in Seq(Byte)
           /\ Len(queue_peek(r, k)) = k
           /\ \A i \in 1 .. k : queue_peek(r, k)[i] = r.buf[Wrap(r, r.read + i - 1)]
<1>1. \A i \in 1 .. k : r.buf[Wrap(r, r.read + i - 1)] \in Byte
  BY DEF Wrap, RingOf
<1>2. queue_peek(r, k) \in [1 .. k -> Byte]
  BY <1>1 DEF queue_peek
<1> QED
  BY <1>2 DEF queue_peek

\* What is in the ring, byte by byte.
LEMMA ContentsType ==
    ASSUME NEW n \in Nat \ {0}, NEW Byte, NEW r \in RingOf(n, Byte)
    PROVE  /\ Contents(r) \in Seq(Byte)
           /\ Len(Contents(r)) = queue_get_used_size(r)
           /\ \A i \in 1 .. queue_get_used_size(r) :
                 Contents(r)[i] = r.buf[Wrap(r, r.read + i - 1)]
<1>1. queue_get_used_size(r) \in 0 .. (n - 1)
  BY UsedFree
<1> QED
  BY <1>1, PeekType DEF Contents

-----------------------------------------------------------------------------
(* Writing *)

\* Copying a message leaves a buffer.
LEMMA CopiedType ==
    ASSUME NEW n \in Nat \ {0}, NEW Byte, NEW r \in RingOf(n, Byte),
           NEW d \in Seq(Byte), NEW j \in 0 .. (n - 1)
    PROVE  Copied(r, j, d) \in [0 .. (n - 1) -> Byte]
<1>1. DOMAIN r.buf = 0 .. (n - 1)
  BY DEF RingOf
<1>2. ASSUME NEW i \in 0 .. (n - 1), Behind(r, j, i) < Len(d)
      PROVE  d[Behind(r, j, i) + 1] \in Byte
  <2>1. Behind(r, j, i) + 1 \in 1 .. Len(d)
    BY <1>2 DEF Behind, RingOf
  <2> QED
    BY <2>1
<1>3. \A i \in 0 .. (n - 1) : r.buf[i] \in Byte
  BY DEF RingOf
<1> QED
  BY <1>1, <1>2, <1>3 DEF Copied

\* The byte k places behind j is the one of the message, or what it was.
LEMMA CopiedAt ==
    ASSUME NEW n \in Nat \ {0}, NEW Byte, NEW r \in RingOf(n, Byte),
           NEW d \in Seq(Byte), NEW j \in 0 .. (n - 1), NEW k \in 0 .. (n - 1)
    PROVE  Copied(r, j, d)[Wrap(r, j + k)] =
              IF k < Len(d) THEN d[k + 1] ELSE r.buf[Wrap(r, j + k)]
<1>1. DOMAIN r.buf = 0 .. (n - 1)
  BY DEF RingOf
<1>2. Wrap(r, j + k) \in 0 .. (n - 1) /\ Behind(r, j, Wrap(r, j + k)) = k
  BY WrapRange, BehindWrap
<1> QED
  BY <1>1, <1>2 DEF Copied

\* queue_write appends a message that fits, whole and in order, and disturbs
\* nothing that waits to be read.
THEOREM WriteAppends ==
    ASSUME NEW n \in Nat \ {0}, NEW Byte, NEW r \in RingOf(n, Byte),
           NEW d \in Seq(Byte), Len(d) <= queue_get_free_size(r)
    PROVE  /\ queue_write(r, d) \in RingOf(n, Byte)
           /\ Contents(queue_write(r, d)) = Contents(r) \o d
<1> DEFINE u == queue_get_used_size(r)
           w == queue_write(r, d)
<1>1. /\ u \in 0 .. (n - 1) /\ Len(d) \in Nat /\ u + Len(d) <= n - 1
      /\ r.read \in 0 .. (n - 1) /\ r.write \in 0 .. (n - 1)
  <2>1. u \in 0 .. (n - 1) /\ queue_get_free_size(r) = n - 1 - u
    BY UsedFree
  <2>2. r.read \in 0 .. (n - 1) /\ r.write \in 0 .. (n - 1)
    BY DEF RingOf
  <2>3. Len(d) \in Nat
    OBVIOUS
  <2> QED
    BY <2>1, <2>2, <2>3
<1>2. w \in RingOf(n, Byte)
  <2>1. Wrap(r, r.write + Len(d)) \in 0 .. (n - 1)
    BY <1>1, WrapRange
  <2>2. Copied(r, r.write, d) \in [0 .. (n - 1) -> Byte]
    BY <1>1, CopiedType
  <2> QED
    BY <2>1, <2>2 DEF queue_write, RingOf
<1>3. /\ w.size = r.size /\ w.read = r.read
      /\ w.write = Wrap(r, r.write + Len(d))
      /\ w.buf = Copied(r, r.write, d)
  BY DEF queue_write, RingOf
<1>4. queue_get_used_size(w) = u + Len(d)
  BY <1>1, <1>3 DEF queue_get_used_size, Wrap, RingOf
<1>5. /\ Contents(r) \in Seq(Byte) /\ Len(Contents(r)) = u
      /\ \A i \in 1 .. u : Contents(r)[i] = r.buf[Wrap(r, r.read + i - 1)]
  BY ContentsType
<1> HIDE DEF w
<1>6. /\ Contents(w) \in Seq(Byte) /\ Len(Contents(w)) = u + Len(d)
      /\ \A i \in 1 .. (u + Len(d)) : Contents(w)[i] = w.buf[Wrap(w, w.read + i - 1)]
  BY <1>2, <1>4, ContentsType
<1> HIDE DEF u
<1>7. ASSUME NEW i \in 1 .. (u + Len(d))
      PROVE  Contents(w)[i] = (Contents(r) \o d)[i]
  <2> DEFINE at == Wrap(r, r.read + i - 1)
  <2>1. Contents(w)[i] = Copied(r, r.write, d)[at]
    BY <1>3, <1>6 DEF Wrap
  <2>2. /\ i \in 1 .. (n - 1)
        /\ i <= u \/ i > u
        /\ (Contents(r) \o d)[i] = IF i <= u THEN Contents(r)[i] ELSE d[i - u]
    BY <1>1, <1>5, ConcatProperties
  <2>3. CASE i <= u
    <3> DEFINE k == n - u + i - 1
    <3>1. k \in 0 .. (n - 1) /\ k >= Len(d) /\ i \in 1 .. u
      BY <1>1, <2>2, <2>3
    <3>2. Wrap(r, r.write + k) = at
      BY <2>2, <2>3, FromWrite DEF u
    <3> HIDE DEF k, at
    <3>3. Copied(r, r.write, d)[at] = r.buf[at]
      <4>1. r.write \in 0 .. (n - 1) /\ k \in 0 .. (n - 1)
        BY <1>1, <3>1
      <4>2. Copied(r, r.write, d)[Wrap(r, r.write + k)] =
               IF k < Len(d) THEN d[k + 1] ELSE r.buf[Wrap(r, r.write + k)]
        BY <4>1, CopiedAt, SMTT(60)
      <4>3. ~(k < Len(d))
        BY <1>1, <3>1
      <4> QED
        BY <3>2, <4>2, <4>3
    <3>4. Contents(r)[i] = r.buf[at]
      BY <1>5, <3>1 DEF at
    <3> QED
      BY <2>1, <2>2, <2>3, <3>3, <3>4
  <2>4. CASE i > u
    <3> DEFINE k == i - u - 1
    <3>1. k \in 0 .. (n - 1) /\ k < Len(d) /\ k + 1 = i - u /\ ~(i <= u)
      BY <1>1, <2>2, <2>4
    <3>2. Wrap(r, r.write + k) = at
      BY <2>2, <2>4, FromWrite DEF u
    <3> HIDE DEF k, at
    <3>3. Copied(r, r.write, d)[at] = d[k + 1]
      <4>1. r.write \in 0 .. (n - 1) /\ k \in 0 .. (n - 1)
        BY <1>1, <3>1
      <4>2. Copied(r, r.write, d)[Wrap(r, r.write + k)] =
               IF k < Len(d) THEN d[k + 1] ELSE r.buf[Wrap(r, r.write + k)]
        BY <4>1, CopiedAt, SMTT(60)
      <4>3. k < Len(d)
        BY <1>1, <3>1
      <4> QED
        BY <3>2, <4>2, <4>3
    <3> QED
      BY <2>1, <2>2, <3>1, <3>3
  <2> QED
    BY <2>2, <2>3, <2>4
<1>8. Contents(w) = Contents(r) \o d
  <2>1. Contents(r) \o d \in Seq(Byte) /\ Len(Contents(r) \o d) = u + Len(d)
    BY <1>5, ConcatProperties
  <2> QED
    BY <1>6, <1>7, <2>1, SeqEqual
<1> QED
  BY <1>2, <1>8 DEF w

\* queue_write_ahead puts a message that fits in front, whole and in order.
THEOREM AheadPrepends ==
    ASSUME NEW n \in Nat \ {0}, NEW Byte, NEW r \in RingOf(n, Byte),
           NEW d \in Seq(Byte), Len(d) <= queue_get_free_size(r)
    PROVE  /\ queue_write_ahead(r, d) \in RingOf(n, Byte)
           /\ Contents(queue_write_ahead(r, d)) = d \o Contents(r)
<1> DEFINE u == queue_get_used_size(r)
           s == Behind(r, Len(d), r.read)
           w == queue_write_ahead(r, d)
<1>1. /\ u \in 0 .. (n - 1) /\ Len(d) \in Nat /\ u + Len(d) <= n - 1
      /\ r.read \in 0 .. (n - 1) /\ r.write \in 0 .. (n - 1)
  <2>1. u \in 0 .. (n - 1) /\ queue_get_free_size(r) = n - 1 - u
    BY UsedFree
  <2>2. r.read \in 0 .. (n - 1) /\ r.write \in 0 .. (n - 1)
    BY DEF RingOf
  <2>3. Len(d) \in Nat
    OBVIOUS
  <2> QED
    BY <2>1, <2>2, <2>3
<1>2. s \in 0 .. (n - 1) /\ r.read = Wrap(r, s + Len(d))
  BY <1>1 DEF Behind, Wrap, RingOf
<1>3. w \in RingOf(n, Byte)
  BY <1>2, CopiedType DEF queue_write_ahead, RingOf
<1>4. w.size = r.size /\ w.read = s /\ w.write = r.write /\ w.buf = Copied(r, s, d)
  BY DEF queue_write_ahead, RingOf
<1>5. queue_get_used_size(w) = u + Len(d)
  BY <1>1, <1>2, <1>4, SMTT(60) DEF queue_get_used_size, Wrap, RingOf
<1>6. /\ Contents(r) \in Seq(Byte) /\ Len(Contents(r)) = u
      /\ \A i \in 1 .. u : Contents(r)[i] = r.buf[Wrap(r, r.read + i - 1)]
  BY ContentsType
<1> HIDE DEF w
<1>7. /\ Contents(w) \in Seq(Byte) /\ Len(Contents(w)) = u + Len(d)
      /\ \A i \in 1 .. (u + Len(d)) : Contents(w)[i] = w.buf[Wrap(w, w.read + i - 1)]
  BY <1>3, <1>5, ContentsType
<1> HIDE DEF u, s
<1>8. ASSUME NEW i \in 1 .. (u + Len(d))
      PROVE  Contents(w)[i] = (d \o Contents(r))[i]
  <2> DEFINE at == Wrap(r, s + (i - 1))
  <2>1. i - 1 \in 0 .. (n - 1)
    BY <1>1
  <2>2. Contents(w)[i] = Copied(r, s, d)[at]
    BY <1>2, <1>4, <1>7 DEF Wrap
  <2>3. Copied(r, s, d)[at] = IF i - 1 < Len(d) THEN d[(i - 1) + 1] ELSE r.buf[at]
    BY <1>2, <2>1, CopiedAt
  <2>4. /\ i <= Len(d) \/ i > Len(d)
        /\ (d \o Contents(r))[i] = IF i <= Len(d) THEN d[i] ELSE Contents(r)[i - Len(d)]
    BY <1>1, <1>6, ConcatProperties
  <2> HIDE DEF at
  <2>5. CASE i <= Len(d)
    <3>1. i - 1 < Len(d) /\ (i - 1) + 1 = i
      BY <1>1, <2>5
    <3> QED
      BY <2>2, <2>3, <2>4, <2>5, <3>1
  <2>6. CASE i > Len(d)
    <3>1. i - Len(d) \in 1 .. u /\ ~(i - 1 < Len(d)) /\ ~(i <= Len(d))
      BY <1>1, <2>6
    <3>2. at = Wrap(r, r.read + (i - Len(d)) - 1)
      BY <1>1, <1>2, <2>6 DEF at, Wrap, RingOf
    <3>3. Contents(r)[i - Len(d)] = r.buf[at]
      BY <1>6, <3>1, <3>2
    <3> QED
      BY <2>2, <2>3, <2>4, <3>1, <3>3
  <2> QED
    BY <2>4, <2>5, <2>6
<1>9. Contents(w) = d \o Contents(r)
  <2>1. d \o Contents(r) \in Seq(Byte) /\ Len(d \o Contents(r)) = u + Len(d)
    BY <1>1, <1>6, ConcatProperties
  <2> QED
    BY <1>7, <1>8, <2>1, SeqEqual
<1> QED
  BY <1>3, <1>9 DEF w

-----------------------------------------------------------------------------
(* Reading *)

\* A reader gets the first bytes, and queue_read leaves exactly the others.
THEOREM ReadTakes ==
    ASSUME NEW n \in Nat \ {0}, NEW Byte, NEW r \in RingOf(n, Byte),
           NEW k \in 0 .. queue_get_used_size(r)
    PROVE  /\ queue_read(r, k) \in RingOf(n, Byte)
           /\ queue_peek(r, k) = SubSeq(Contents(r), 1, k)
           /\ Contents(queue_read(r, k)) = SubSeq(Contents(r), k + 1, Len(Contents(r)))
<1> DEFINE u == queue_get_used_size(r)
           w == queue_read(r, k)
<1>1. /\ u \in 0 .. (n - 1) /\ k \in 0 .. u /\ k \in 0 .. (n - 1)
      /\ r.read \in 0 .. (n - 1) /\ r.write \in 0 .. (n - 1)
  <2>1. u \in 0 .. (n - 1) /\ queue_get_free_size(r) = n - 1 - u
    BY UsedFree
  <2>2. r.read \in 0 .. (n - 1) /\ r.write \in 0 .. (n - 1)
    BY DEF RingOf
  <2> QED
    BY <2>1, <2>2
<1>2. w \in RingOf(n, Byte)
  <2>1. Wrap(r, r.read + k) \in 0 .. (n - 1)
    BY <1>1, WrapRange
  <2> QED
    BY <2>1 DEF queue_read, RingOf
<1>3. /\ w.size = r.size /\ w.write = r.write /\ w.buf = r.buf
      /\ w.read = Wrap(r, r.read + k)
  BY DEF queue_read, RingOf
<1>4. queue_get_used_size(w) = u - k
  BY <1>1, <1>3 DEF queue_get_used_size, Wrap, RingOf
<1>5. Contents(r) \in Seq(Byte) /\ Len(Contents(r)) = u
  BY ContentsType
<1>6. \A i \in 1 .. u : Contents(r)[i] = r.buf[Wrap(r, r.read + i - 1)]
  BY ContentsType
<1> HIDE DEF u
<1>7. queue_peek(r, k) = SubSeq(Contents(r), 1, k)
  <2>1. queue_peek(r, k) \in Seq(Byte) /\ Len(queue_peek(r, k)) = k
    BY <1>1, PeekType
  <2>2. \A i \in 1 .. k : queue_peek(r, k)[i] = Contents(r)[i]
    BY <1>1, <1>6, PeekType
  <2>3. SubSeq(Contents(r), 1, k) \in Seq(Byte) /\ Len(SubSeq(Contents(r), 1, k)) = k
    BY <1>1, <1>5
  <2>4. \A i \in 1 .. k : SubSeq(Contents(r), 1, k)[i] = Contents(r)[i]
    BY <1>1, <1>5
  <2> QED
    BY <2>1, <2>2, <2>3, <2>4, SeqEqual
<1> HIDE DEF w
<1>8. Contents(w) = SubSeq(Contents(r), k + 1, u)
  <2>1. /\ Contents(w) \in Seq(Byte) /\ Len(Contents(w)) = u - k
        /\ \A i \in 1 .. (u - k) : Contents(w)[i] = w.buf[Wrap(w, w.read + i - 1)]
    BY <1>2, <1>4, ContentsType
  <2>2. ASSUME NEW i \in 1 .. (u - k)
        PROVE  Contents(w)[i] = Contents(r)[k + i]
    <3>1. Wrap(w, w.read + i - 1) = Wrap(r, r.read + (k + i) - 1)
      BY <1>1, <1>3 DEF Wrap, RingOf
    <3>2. k + i \in 1 .. u
      BY <1>1
    <3>3. Contents(w)[i] = r.buf[Wrap(w, w.read + i - 1)]
      BY <1>3, <2>1
    <3>4. Contents(r)[k + i] = r.buf[Wrap(r, r.read + (k + i) - 1)]
      BY <1>6, <3>2
    <3> QED
      BY <3>1, <3>3, <3>4
  <2>3. /\ SubSeq(Contents(r), k + 1, u) \in Seq(Byte)
        /\ Len(SubSeq(Contents(r), k + 1, u)) = u - k
    BY <1>1, <1>5
  <2>4. \A i \in 1 .. (u - k) : SubSeq(Contents(r), k + 1, u)[i] = Contents(r)[k + i]
    BY <1>1, <1>5
  <2> QED
    BY <2>1, <2>2, <2>3, <2>4, SeqEqual
<1> QED
  BY <1>2, <1>5, <1>7, <1>8 DEF w
=============================================================================
