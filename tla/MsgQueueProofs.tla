---------------------------- MODULE MsgQueueProofs ----------------------------
(***************************************************************************)
(* Proofs about MsgQueue, for any number of threads and priorities, any    *)
(* bytes, sizes of the buffer and messages, and any choice of calls: the   *)
(* types, the requests of the waiters, and that the queue is a Fifo.  They *)
(* build on the invariant of the scheduler and on the theorems about the   *)
(* ring buffer.                                                            *)
(***************************************************************************)
EXTENDS MsgQueue, SchedulerProofs, RingProofs

-----------------------------------------------------------------------------
(* Messages and rings *)

LEMMA RingSize ==
    ASSUME NEW r \in Rings
    PROVE  \E n \in BufferSizes : n \in Nat \ {0} /\ n <= MaxSize /\ r \in RingOf(n, Byte)
BY QueueAssumption DEF Rings

\* A message is a sequence of at least one byte.
LEMMA MessageType ==
    ASSUME NEW d \in Message
    PROVE  d \in Seq(Byte) /\ Len(d) \in Sizes /\ Len(d) \in Nat \ {0} /\ d \in [1 .. Len(d) -> Byte]
<1>1. PICK n \in Sizes : d \in [1 .. n -> Byte]
  BY DEF Message
<1>2. n \in Nat \ {0}
  BY QueueAssumption
<1>3. d \in Seq(Byte) /\ Len(d) = n
  BY <1>1, <1>2
<1>. QED
  BY <1>1, <1>2, <1>3

\* What Fifo asks of a sender: a message that fits the ring fits the Fifo.
LEMMA RingWrite ==
    ASSUME NEW r \in Rings, NEW d \in Message, Len(d) <= queue_get_free_size(r)
    PROVE  /\ queue_write(r, d) \in Rings
           /\ Contents(queue_write(r, d)) = Contents(r) \o d
           /\ queue_write_ahead(r, d) \in Rings
           /\ Contents(queue_write_ahead(r, d)) = d \o Contents(r)
           /\ Len(Contents(r)) + Len(d) <= MaxSize - 1
           /\ d \in F!Message
<1>1. PICK n \in BufferSizes : n \in Nat \ {0} /\ n <= MaxSize /\ r \in RingOf(n, Byte)
  BY RingSize
<1>2. d \in Seq(Byte) /\ Len(d) \in Nat \ {0} /\ d \in [1 .. Len(d) -> Byte]
  BY MessageType
<1>3. /\ queue_write(r, d) \in RingOf(n, Byte)
      /\ Contents(queue_write(r, d)) = Contents(r) \o d
  BY <1>1, <1>2, WriteAppends
<1>4. /\ queue_write_ahead(r, d) \in RingOf(n, Byte)
      /\ Contents(queue_write_ahead(r, d)) = d \o Contents(r)
  BY <1>1, <1>2, AheadPrepends
<1>5. /\ queue_get_used_size(r) \in 0 .. (n - 1)
      /\ queue_get_free_size(r) = n - 1 - queue_get_used_size(r)
      /\ Len(Contents(r)) = queue_get_used_size(r)
  BY <1>1, UsedFree, ContentsType
<1>6. /\ Len(Contents(r)) + Len(d) <= MaxSize - 1
      /\ Len(d) \in 1 .. (MaxSize - 1)
  BY <1>1, <1>2, <1>5, QueueAssumption
<1>7. d \in F!Message
  BY <1>2, <1>6 DEF F!Message
<1>. QED
  BY <1>1, <1>3, <1>4, <1>6, <1>7 DEF Rings

\* The same for a reader.
LEMMA RingRead ==
    ASSUME NEW r \in Rings, NEW k \in Sizes, k <= queue_get_used_size(r)
    PROVE  /\ queue_read(r, k) \in Rings
           /\ queue_peek(r, k) \in Message
           /\ queue_peek(r, k) = SubSeq(Contents(r), 1, k)
           /\ Contents(queue_read(r, k)) = SubSeq(Contents(r), k + 1, Len(Contents(r)))
           /\ k \in 1 .. (MaxSize - 1) /\ k <= Len(Contents(r))
<1>1. PICK n \in BufferSizes : n \in Nat \ {0} /\ n <= MaxSize /\ r \in RingOf(n, Byte)
  BY RingSize
<1>2. /\ queue_get_used_size(r) \in 0 .. (n - 1)
      /\ Len(Contents(r)) = queue_get_used_size(r)
  BY <1>1, UsedFree, ContentsType
<1>3. /\ k \in Nat \ {0} /\ k \in 0 .. queue_get_used_size(r)
      /\ k \in 0 .. (n - 1) /\ k \in 1 .. (MaxSize - 1)
  BY <1>1, <1>2, QueueAssumption
<1>4. /\ queue_read(r, k) \in RingOf(n, Byte)
      /\ queue_peek(r, k) = SubSeq(Contents(r), 1, k)
      /\ Contents(queue_read(r, k)) = SubSeq(Contents(r), k + 1, Len(Contents(r)))
  BY <1>1, <1>3, ReadTakes
<1>5. queue_peek(r, k) \in Message
  <2>1. queue_peek(r, k) \in Seq(Byte) /\ Len(queue_peek(r, k)) = k
    BY <1>1, <1>3, PeekType
  <2>2. queue_peek(r, k) \in [1 .. k -> Byte]
    BY <2>1, <1>3
  <2>. QED
    BY <2>2 DEF Message
<1>. QED
  BY <1>1, <1>2, <1>3, <1>4, <1>5 DEF Rings

\* A ring with both indices at the start is empty.
LEMMA RingEmpty ==
    ASSUME NEW r \in Rings, r.read = 0, r.write = 0
    PROVE  Contents(r) = <<>>
<1>1. PICK n \in BufferSizes : n \in Nat \ {0} /\ n <= MaxSize /\ r \in RingOf(n, Byte)
  BY RingSize
<1>2. queue_get_used_size(r) = 0
  BY DEF queue_get_used_size
<1>3. Contents(r) \in Seq(Byte) /\ Len(Contents(r)) = 0
  BY <1>1, <1>2, ContentsType
<1>. QED
  BY <1>3

LEMMA RingReset ==
    ASSUME NEW r \in Rings
    PROVE  /\ [r EXCEPT !.read = 0, !.write = 0] \in Rings
           /\ Contents([r EXCEPT !.read = 0, !.write = 0]) = <<>>
<1>. DEFINE s == [r EXCEPT !.read = 0, !.write = 0]
<1>1. PICK n \in BufferSizes : n \in Nat \ {0} /\ n <= MaxSize /\ r \in RingOf(n, Byte)
  BY RingSize
<1>2. s \in RingOf(n, Byte) /\ s.read = 0 /\ s.write = 0
  <2>1. 0 \in 0 .. (n - 1)
    BY <1>1
  <2>2. r \in [size : {n}, buf : [0 .. (n - 1) -> Byte],
               read : 0 .. (n - 1), write : 0 .. (n - 1)]
    BY <1>1 DEF RingOf
  <2>3. /\ s \in [size : {n}, buf : [0 .. (n - 1) -> Byte],
                  read : 0 .. (n - 1), write : 0 .. (n - 1)]
        /\ s.read = 0 /\ s.write = 0
    BY <2>1, <2>2
  <2>. QED
    BY <2>3 DEF RingOf
<1>3. s \in Rings
  BY <1>2 DEF Rings
<1>. QED
  BY <1>2, <1>3, RingEmpty

-----------------------------------------------------------------------------
(* The inductive invariant *)

QueueTypes ==
    /\ ring \in Rings \cup {NULL}
    /\ info \in [Thread -> ReadInfo \cup WriteInfo \cup {NULL}]
    /\ result \in [Thread -> BOOLEAN]
    /\ wake \in UnlockLoop \cup DeleteLoop \cup {NULL}

\* A loop runs on a queue that exists.
LoopInv ==
    /\ handler = "wake" <=> wake # NULL
    /\ wake # NULL => ring # NULL

InfoOf(q) == IF q = q_wait_read THEN ReadInfo ELSE WriteInfo

\* What holds of a thread that is in the wait queue q.
WaitsRightly(t, q) == ring # NULL /\ p_schinfo[t] /\ ~result[t] /\ info[t] \in InfoOf(q)

WaiterInv == \A t \in Thread : item_sch_q[t] \in WaitQ => WaitsRightly(t, item_sch_q[t])

QueueInv == Inv /\ QueueTypes /\ LoopInv /\ WaiterInv

\* Whoever is found in a wait queue waits rightly.
LEMMA Queued ==
    ASSUME QueueInv, NEW q \in WaitQ, NEW t \in Range(q_items[q])
    PROVE  t \in Thread /\ item_sch_q[t] = q /\ WaitsRightly(t, q)
<1>1. q \in SchQ /\ q_items[q] \in Seq(Thread)
  BY WaitQNames DEF QueueInv, Inv, ItemInv, Queues
<1>2. t \in Thread
  BY <1>1 DEF Range
<1>3. item_sch_q[t] = q
  BY <1>1, <1>2 DEF QueueInv, Inv, ItemInv, Queues, Owned
<1>. QED
  BY <1>2, <1>3 DEF QueueInv, WaiterInv

\* An empty wait queue has no waiters, and the other way round.
LEMMA NobodyWaits ==
    ASSUME QueueInv, NEW q \in WaitQ
    PROVE  q_items[q] = <<>> <=> \A t \in Thread : item_sch_q[t] # q
<1>1. q \in SchQ /\ q_items[q] \in Seq(Thread)
  BY WaitQNames DEF QueueInv, Inv, ItemInv, Queues
<1>2. \A t \in Thread : t \in Range(q_items[q]) <=> item_sch_q[t] = q
  BY <1>1 DEF QueueInv, Inv, ItemInv, Queues, Owned
<1>3. q_items[q] # <<>> => Head(q_items[q]) \in Thread /\ Head(q_items[q]) \in Range(q_items[q])
  BY <1>1 DEF Range
<1>4. q_items[q] = <<>> => Range(q_items[q]) = {}
  BY DEF Range
<1>. QED
  BY <1>2, <1>3, <1>4

LEMMA HeadWaits ==
    ASSUME QueueInv, NEW q \in WaitQ, q_items[q] # <<>>
    PROVE  /\ Head(q_items[q]) \in Thread /\ item_sch_q[Head(q_items[q])] = q
           /\ WaitsRightly(Head(q_items[q]), q)
<1>1. q_items[q] \in Seq(Thread)
  BY WaitQNames DEF QueueInv, Inv, ItemInv, Queues
<1>2. Head(q_items[q]) \in Range(q_items[q])
  BY <1>1 DEF Range
<1>. QED
  BY <1>2, Queued

LEMMA QueueInvImplies == QueueInv => QueueTypeOK /\ RequestsValid
<1>. SUFFICES ASSUME QueueInv PROVE QueueTypeOK /\ RequestsValid
  OBVIOUS
<1>1. QueueTypeOK
  BY InvImplies DEF QueueInv, QueueTypes, LoopInv, QueueTypeOK
<1>2. ASSUME NEW q \in WaitQ, NEW t \in Range(q_items[q])
      PROVE  /\ ring # NULL
             /\ state[t] = "BLOCKED" /\ p_schinfo[t] /\ ~result[t]
             /\ info[t] \in IF q = q_wait_read THEN ReadInfo ELSE WriteInfo
  <2>1. t \in Thread /\ item_sch_q[t] = q /\ WaitsRightly(t, q)
    BY <1>2, Queued
  <2>2. state[t] = "BLOCKED"
    BY <2>1, WaitQNames DEF QueueInv, Inv, ThreadInv, ThreadStateInv, ThdState
  <2>. QED
    BY <2>1, <2>2 DEF WaitsRightly, InfoOf
<1>. QED
  BY <1>1, <1>2 DEF RequestsValid

LEMMA QueueInvInit == QueueInit => QueueInv
<1>. SUFFICES ASSUME QueueInit PROVE QueueInv
  OBVIOUS
<1>1. Inv
  BY InvInit DEF QueueInit
<1>2. QueueTypes
  BY DEF QueueInit, QueueTypes
<1>3. LoopInv
  BY DEF QueueInit, Init, LoopInv
<1>4. WaiterInv
  BY WaitQNames, Constants DEF QueueInit, Init, WaiterInv
<1>. QED
  BY <1>1, <1>2, <1>3, <1>4 DEF QueueInv

-----------------------------------------------------------------------------
(* The scheduler's steps *)

\* The requests of the threads that go on waiting stay as they are.
LEMMA DropKeeps ==
    ASSUME QueueTypes, DropInfo, KeepsWaiters
    PROVE  /\ info' \in [Thread -> ReadInfo \cup WriteInfo \cup {NULL}]
           /\ \A t \in Thread : p_schinfo[t] /\ item_sch_q'[t] \in WaitQ => info'[t] = info[t]
BY DEF QueueTypes, DropInfo, KeepsWaiters

LEMMA SchedulerStep ==
    ASSUME QueueInv, Next, DropInfo, DropResult, UNCHANGED <<ring, wake>>
    PROVE  QueueInv'
<1>1. Inv'
  BY InvStep DEF QueueInv
<1>2. KeepsWaiters /\ handler # "wake" /\ handler' # "wake"
  BY NextKeeps DEF QueueInv
<1>3. result' \in [Thread -> BOOLEAN] /\ \A t \in Thread : ~result[t] => ~result'[t]
  BY DEF DropResult
<1>4. QueueTypes' /\ LoopInv'
  BY <1>2, <1>3, DropKeeps DEF QueueInv, QueueTypes, LoopInv
<1>5. WaiterInv'
  BY <1>2, <1>3, DropKeeps DEF QueueInv, WaiterInv, WaitsRightly, InfoOf, KeepsWaiters
<1>. QED
  BY <1>1, <1>4, <1>5 DEF QueueInv

-----------------------------------------------------------------------------
(* The queue's own steps *)

LEMMA QueueCreateStep ==
    ASSUME QueueInv, NEW c, NEW size \in BufferSizes, os_queue_create(c, size)
    PROVE  QueueInv' /\ ring' \in Rings /\ Contents(ring') = <<>>
<1>1. /\ ring = NULL /\ handler = "none"
      /\ q_items' = [q_items EXCEPT ![q_wait_read] = <<>>, ![q_wait_write] = <<>>]
      /\ UNCHANGED <<state, item_sch_tag, item_sch_q, delayVars, p_schinfo,
                     timeVars, schVars, info, result, wake>>
  BY DEF os_queue_create, MayCall
<1>2. \A t \in Thread : item_sch_q[t] \notin WaitQ
  BY <1>1 DEF QueueInv, WaiterInv, WaitsRightly
<1>3. q_items[q_wait_read] = <<>> /\ q_items[q_wait_write] = <<>>
  BY <1>2, NobodyWaits, QueueAssumption
<1>4. q_items' = q_items
  BY <1>1, <1>3 DEF QueueInv, Inv, ItemInv, Queues
<1>5. Inv'
  BY <1>1, <1>4, InvStutter DEF QueueInv, vars, itemVars
<1>6. ring' \in RingOf(size, Byte) /\ ring'.read = 0 /\ ring'.write = 0
  <2>1. size \in Nat \ {0}
    BY QueueAssumption
  <2>2. PICK b \in Byte : ring' = [size |-> size, read |-> 0, write |-> 0,
                                   buf |-> [i \in 0 .. (size - 1) |-> b]]
    BY DEF os_queue_create
  <2>3. [i \in 0 .. (size - 1) |-> b] \in [0 .. (size - 1) -> Byte]
    OBVIOUS
  <2>4. 0 \in 0 .. (size - 1)
    BY <2>1
  <2>. QED
    BY <2>2, <2>3, <2>4 DEF RingOf
<1>7. ring' \in Rings /\ Contents(ring') = <<>>
  <2>1. ring' \in Rings
    BY <1>6 DEF Rings
  <2>. QED
    BY <1>6, <2>1, RingEmpty
<1>8. QueueTypes' /\ LoopInv'
  BY <1>1, <1>7, QueueAssumption DEF QueueInv, QueueTypes, LoopInv, schVars
<1>9. WaiterInv'
  BY <1>1, <1>2 DEF WaiterInv
<1>. QED
  BY <1>5, <1>7, <1>8, <1>9 DEF QueueInv

\* A call ends in one of the loops.
LEMMA EnterStep ==
    ASSUME QueueInv, handler = "none", Started, ring # NULL,
           ring' \in Rings, wake' \in UnlockLoop \cup DeleteLoop, handler' = "wake",
           UNCHANGED <<state, p_schinfo, itemVars, delayVars, timeVars, p_current,
                       p_next, pending, cpu, ctx, info, result>>
    PROVE  QueueInv'
<1>1. ItemInv' /\ DelayInv' /\ ThreadInv'
  BY DEF QueueInv, Inv, ItemInv, DelayInv, ThreadInv, ThreadStateInv, IdleInv,
     itemVars, delayVars
<1>2. KernelInv'
  BY DEF QueueInv, Inv, KernelInv, StartInv, Started, HandlerName, timeVars
<1>3. ring' # NULL /\ wake' # NULL
  BY QueueAssumption
<1>4. QueueTypes' /\ LoopInv'
  BY <1>3 DEF QueueInv, QueueTypes, LoopInv
<1>5. WaiterInv'
  BY <1>3 DEF QueueInv, WaiterInv, WaitsRightly, InfoOf, itemVars
<1>. QED
  BY <1>1, <1>2, <1>4, <1>5 DEF QueueInv, Inv

LEMMA UnlockAfterStep ==
    ASSUME QueueInv, handler = "none", Started, ring # NULL,
           NEW r \in Rings, NEW out \in {<<>>} \cup Message, unlock_after(r, out)
    PROVE  QueueInv' /\ ring' = r /\ wake' # NULL /\ wake'.out = out
<1>1. /\ ring' = r /\ handler' = "wake"
      /\ wake' = [loop |-> "unlock", can_read |-> TRUE, can_write |-> TRUE,
                  turn |-> "write", out |-> out]
      /\ UNCHANGED <<state, p_schinfo, itemVars, delayVars, timeVars, p_current,
                     p_next, pending, cpu, ctx, info, result>>
  BY DEF unlock_after
<1>2. wake' \in UnlockLoop
  BY <1>1 DEF UnlockLoop
<1>3. QueueInv'
  BY <1>1, <1>2, EnterStep
<1>. QED
  BY <1>1, <1>2, <1>3, QueueAssumption

LEMMA QueueBlockStep ==
    ASSUME QueueInv, NEW q \in WaitQ, NEW request \in InfoOf(q), NEW n \in Nat,
           p_current \in Thread \ {Idle}, handler = "none", ring # NULL,
           queue_block(q, request, n)
    PROVE  QueueInv'
<1>1. /\ info' = [info EXCEPT ![p_current] = request]
      /\ result' = [result EXCEPT ![p_current] = FALSE]
      /\ thd_block_current(q, TRUE, n)
      /\ UNCHANGED <<ring, wake>>
  BY DEF queue_block
<1>2. q # NULL
  BY WaitQNames
<1>3. Inv'
  BY <1>1, <1>2, BlockStep DEF QueueInv
<1>4. /\ item_sch_q' = [item_sch_q EXCEPT ![p_current] = q]
      /\ p_schinfo' = [p_schinfo EXCEPT ![p_current] = TRUE]
      /\ handler' = handler
  BY <1>1 DEF thd_block_current
<1>5. QueueTypes' /\ LoopInv'
  BY <1>1, <1>4 DEF QueueInv, QueueTypes, LoopInv, InfoOf
<1>6. WaiterInv'
  BY <1>1, <1>4
  DEF QueueInv, QueueTypes, Inv, ThreadInv, WaiterInv, WaitsRightly, InfoOf
<1>. QED
  BY <1>3, <1>5, <1>6 DEF QueueInv

\* The first waiter of q is served in a loop, or fails; the ring stays valid.
LEMMA ServeStep ==
    ASSUME QueueInv, handler = "wake", NEW q \in WaitQ, q_items[q] # <<>>,
           thd_ready(Head(q_items[q])), q_items' = ReadyItems(Head(q_items[q])),
           DropInfo, UNCHANGED <<timeVars, schVars>>,
           ring' \in Rings, wake' \in UnlockLoop \cup DeleteLoop,
           \/ result' = result
           \/ result' = [result EXCEPT ![Head(q_items[q])] = TRUE]
    PROVE  QueueInv'
<1>. DEFINE t == Head(q_items[q])
<1>1. t \in Thread
  BY HeadWaits
<1>2. ItemInv' /\ DelayInv' /\ ThreadInv'
  BY <1>1, ReadyStep DEF QueueInv, Inv
<1>3. KernelInv'
  BY DEF QueueInv, Inv, KernelInv, StartInv, Started, timeVars, schVars
<1>4. ring' # NULL /\ wake' # NULL /\ handler' = "wake"
  BY QueueAssumption DEF schVars
<1>5. item_sch_q'[t] \notin WaitQ
  BY <1>1, WaitQNames DEF thd_ready, QueueInv, Inv, ThreadInv
<1>6. KeepsWaiters
  BY <1>1, ReadyKeeps DEF QueueInv
<1>7. result' \in [Thread -> BOOLEAN] /\ \A u \in Thread \ {t} : result'[u] = result[u]
  BY DEF QueueInv, QueueTypes
<1>. HIDE DEF t
<1>8. QueueTypes' /\ LoopInv'
  BY <1>4, <1>6, <1>7, DropKeeps DEF QueueInv, QueueTypes, LoopInv
<1>9. WaiterInv'
  BY <1>4, <1>5, <1>6, <1>7, DropKeeps
  DEF QueueInv, WaiterInv, WaitsRightly, InfoOf, KeepsWaiters
<1>. QED
  BY <1>2, <1>3, <1>8, <1>9 DEF QueueInv, Inv

\* What a writer and a reader that are served bring to the ring.
LEMMA ServedWriter ==
    ASSUME QueueInv, ring # NULL, WriterFits
    PROVE  LET w == info[Head(Writers)]
           IN  /\ w.data \in Message /\ w.flag \in BOOLEAN
               /\ Len(w.data) <= queue_get_free_size(ring)
<1>1. info[Head(Writers)] \in WriteInfo
  BY HeadWaits, QueueAssumption DEF WriterFits, Writers, WaitsRightly, InfoOf
<1>2. info[Head(Writers)].size <= queue_get_free_size(ring)
  BY DEF WriterFits
<1>3. PICK d \in Message, f \in BOOLEAN :
         info[Head(Writers)] = [size |-> Len(d), data |-> d, flag |-> f]
  BY <1>1 DEF WriteInfo
<1>. QED
  BY <1>2, <1>3

LEMMA ServedReader ==
    ASSUME QueueInv, ring # NULL, ReaderFits
    PROVE  LET r == info[Head(Readers)]
           IN  /\ r.size \in Sizes /\ r.flag \in BOOLEAN
               /\ r.size <= queue_get_used_size(ring)
<1>1. info[Head(Readers)] \in ReadInfo
  BY HeadWaits, QueueAssumption DEF ReaderFits, Readers, WaitsRightly, InfoOf
<1>2. info[Head(Readers)].size <= queue_get_used_size(ring)
  BY DEF ReaderFits
<1>. QED
  BY <1>1, <1>2 DEF ReadInfo

LEMMA UnlockWriteStep ==
    ASSUME QueueInv, unlock_write
    PROVE  /\ QueueInv'
           /\ ring \in Rings /\ wake # NULL /\ wake' # NULL /\ wake'.out = <<>>
<1>1. /\ handler = "wake" /\ wake.loop = "unlock" /\ WriterFits
      /\ ring' = write_to_ring(info[Head(Writers)].data, info[Head(Writers)].flag)
      /\ wake' = [wake EXCEPT !.can_read = TRUE, !.turn = "read", !.out = <<>>]
      /\ serve(Head(Writers))
  BY DEF unlock_write, WriteTurn, Unlocking
<1>2. wake \in UnlockLoop /\ ring \in Rings /\ wake # NULL
  BY <1>1 DEF QueueInv, QueueTypes, LoopInv, DeleteLoop
<1>3. wake' \in UnlockLoop /\ wake'.out = <<>>
  BY <1>1, <1>2 DEF UnlockLoop
<1>4. ring' \in Rings
  BY <1>1, <1>2, ServedWriter, RingWrite, QueueAssumption DEF write_to_ring
<1>5. QueueInv'
  BY <1>1, <1>3, <1>4, ServeStep, QueueAssumption DEF serve, WriterFits, Writers
<1>. QED
  BY <1>2, <1>3, <1>5, QueueAssumption

LEMMA UnlockReadStep ==
    ASSUME QueueInv, unlock_read
    PROVE  /\ QueueInv'
           /\ ring \in Rings /\ wake # NULL /\ wake' # NULL
           /\ wake'.out = queue_peek(ring, info[Head(Readers)].size)
<1>. DEFINE r == info[Head(Readers)]
<1>1. /\ handler = "wake" /\ wake.loop = "unlock" /\ ReaderFits
      /\ ring' = IF r.flag THEN ring ELSE queue_read(ring, r.size)
      /\ wake' = [wake EXCEPT !.can_write = TRUE, !.turn = "write",
                              !.out = queue_peek(ring, r.size)]
      /\ serve(Head(Readers))
  BY DEF unlock_read, ReadTurn, Unlocking
<1>2. wake \in UnlockLoop /\ ring \in Rings /\ wake # NULL
  BY <1>1 DEF QueueInv, QueueTypes, LoopInv, DeleteLoop
<1>3. ring' \in Rings /\ queue_peek(ring, r.size) \in Message
  BY <1>1, <1>2, ServedReader, RingRead, QueueAssumption
<1>4. wake' \in UnlockLoop /\ wake'.out = queue_peek(ring, r.size)
  BY <1>1, <1>2, <1>3 DEF UnlockLoop
<1>5. QueueInv'
  BY <1>1, <1>3, <1>4, ServeStep, QueueAssumption DEF serve, ReaderFits, Readers
<1>. QED
  BY <1>2, <1>4, <1>5, QueueAssumption

\* A turn of the loop that serves nobody.
LEMMA StopStep ==
    ASSUME QueueInv, unlock_write_stop \/ unlock_read_stop
    PROVE  QueueInv' /\ ring' = ring /\ wake # NULL /\ wake' # NULL /\ wake'.out = <<>>
<1>1. /\ handler = "wake" /\ wake.loop = "unlock"
      /\ \/ wake' = [wake EXCEPT !.can_write = FALSE, !.turn = "read", !.out = <<>>]
         \/ wake' = [wake EXCEPT !.can_read = FALSE, !.turn = "write", !.out = <<>>]
      /\ UNCHANGED <<vars, ring, info, result>>
  BY DEF unlock_write_stop, unlock_read_stop, WriteTurn, ReadTurn, Unlocking
<1>2. wake \in UnlockLoop /\ ring \in Rings /\ wake # NULL
  BY <1>1 DEF QueueInv, QueueTypes, LoopInv, DeleteLoop
<1>3. wake' \in UnlockLoop /\ wake'.out = <<>>
  BY <1>1, <1>2 DEF UnlockLoop
<1>4. wake' # NULL
  BY <1>3, QueueAssumption
<1>5. Inv'
  BY <1>1, InvStutter DEF QueueInv
<1>6. handler' = handler /\ item_sch_q' = item_sch_q /\ p_schinfo' = p_schinfo
  BY <1>1 DEF vars, schVars, itemVars
<1>7. QueueTypes' /\ LoopInv'
  BY <1>1, <1>3, <1>4, <1>6 DEF QueueInv, QueueTypes, LoopInv
<1>8. WaiterInv'
  BY <1>1, <1>6 DEF QueueInv, WaiterInv, WaitsRightly, InfoOf
<1>. QED
  BY <1>1, <1>2, <1>3, <1>4, <1>5, <1>7, <1>8 DEF QueueInv

\* The loop ends: the queue goes on to exist, or it has no waiters.
LEMMA LeaveStep ==
    ASSUME QueueInv, handler = "wake", leave_loop, ring' \in Rings \cup {NULL},
           ring' = NULL => \A q \in WaitQ : q_items[q] = <<>>
    PROVE  QueueInv'
<1>1. wake # NULL /\ p_current \in Thread /\ p_next \in Thread /\ pending \in BOOLEAN
  BY DEF QueueInv, LoopInv, Inv, KernelInv, StartInv, Started
<1>2. /\ sch_reschedule_req(q_items, item_sch_tag)
      /\ handler' = "none" /\ wake' = NULL
      /\ UNCHANGED <<state, item_sch_tag, item_sch_q, delayVars, p_schinfo, timeVars,
                     p_current, cpu, ctx, info, result>>
  BY DEF leave_loop
<1>3. Queues(q_items, item_sch_q, SchQ) /\ item_sch_q[Idle] = IdlePrio
  BY IdleQueued DEF QueueInv, Inv, ItemInv
<1>4. Queues(q_items', item_sch_q, SchQ) /\ p_next' \in Thread /\ pending' \in BOOLEAN
  BY <1>1, <1>2, <1>3, RescheduleReq
<1>5. ItemInv' /\ DelayInv' /\ ThreadInv'
  BY <1>2, <1>4 DEF QueueInv, Inv, ItemInv, DelayInv, ThreadInv, ThreadStateInv, IdleInv,
     delayVars
<1>6. KernelInv'
  BY <1>1, <1>2, <1>4, Constants
  DEF QueueInv, Inv, KernelInv, StartInv, Started, HandlerName, timeVars
<1>7. QueueTypes' /\ LoopInv'
  BY <1>2 DEF QueueInv, QueueTypes, LoopInv
<1>8. WaiterInv'
  <2>. SUFFICES ASSUME NEW t \in Thread, item_sch_q[t] \in WaitQ
                PROVE  WaitsRightly(t, item_sch_q[t])'
    BY <1>2 DEF WaiterInv
  <2>1. WaitsRightly(t, item_sch_q[t])
    BY DEF QueueInv, WaiterInv
  <2>2. ring' # NULL
    BY NobodyWaits
  <2>. QED
    BY <1>2, <2>1, <2>2 DEF WaitsRightly, InfoOf
<1>. QED
  BY <1>5, <1>6, <1>7, <1>8 DEF QueueInv, Inv

LEMMA UnlockDoneStep == QueueInv /\ unlock_done => QueueInv'
<1>. SUFFICES ASSUME QueueInv, unlock_done PROVE QueueInv'
  OBVIOUS
<1>1. handler = "wake" /\ ring' = ring /\ leave_loop
  BY DEF unlock_done, Unlocking
<1>2. ring \in Rings
  BY <1>1 DEF QueueInv, QueueTypes, LoopInv
<1>. QED
  BY <1>1, <1>2, LeaveStep, QueueAssumption

LEMMA DeleteIterateStep == QueueInv /\ delete_iterate => QueueInv'
<1>. SUFFICES ASSUME QueueInv, delete_iterate PROVE QueueInv'
  OBVIOUS
<1>1. /\ handler = "wake" /\ DropInfo
      /\ UNCHANGED <<timeVars, schVars, ring, result, wake>>
  BY DEF delete_iterate
<1>2. ring \in Rings /\ wake \in UnlockLoop \cup DeleteLoop
  BY <1>1 DEF QueueInv, QueueTypes, LoopInv
<1>3. PICK q \in WaitQ : /\ q_items[q] # <<>>
                         /\ thd_ready(Head(q_items[q]))
                         /\ q_items' = ReadyItems(Head(q_items[q]))
  BY QueueAssumption DEF delete_iterate, Readers, Writers
<1>. QED
  BY <1>1, <1>2, <1>3, ServeStep

LEMMA DeleteDoneStep == QueueInv /\ delete_done => QueueInv'
BY LeaveStep, QueueAssumption DEF delete_done, Readers, Writers

LEMMA QueueLoopStep == QueueInv /\ QueueLoopNext => QueueInv'
BY UnlockWriteStep, UnlockReadStep, StopStep, UnlockDoneStep, DeleteIterateStep,
   DeleteDoneStep
DEF QueueLoopNext

-----------------------------------------------------------------------------
(* Steps of the queue and steps of the Fifo *)

Out == IF wake = NULL THEN <<>> ELSE wake.out

\* A step of the Fifo, or a stutter.
FifoStep == [F!FifoNext]_<<Bytes, Out>>

LEMMA Stutters ==
    ASSUME UNCHANGED <<ring, wake>> PROVE FifoStep
BY DEF FifoStep, Bytes, Out

LEMMA Ends ==
    ASSUME UNCHANGED ring, wake' = NULL \/ wake'.out = <<>> PROVE FifoStep
<1>1. F!Done
  BY DEF F!Done, Bytes
<1>. QED
  BY <1>1 DEF FifoStep, F!FifoNext

LEMMA Empties ==
    ASSUME ring' = NULL \/ Contents(ring') = <<>>, wake' = NULL \/ wake'.out = <<>>
    PROVE  FifoStep
<1>1. F!Reset
  BY DEF F!Reset, Bytes
<1>. QED
  BY <1>1 DEF FifoStep, F!FifoNext

\* A message that fits enters the ring.
LEMMA Sends ==
    ASSUME ring \in Rings, ring' # NULL, NEW d \in Message, NEW ahead \in BOOLEAN,
           Len(d) <= queue_get_free_size(ring), ring' = write_to_ring(d, ahead),
           wake' = NULL \/ wake'.out = <<>>
    PROVE  FifoStep
<1>1. Bytes = Contents(ring) /\ Bytes' = Contents(ring')
  BY QueueAssumption DEF Bytes
<1>2. d \in F!Message /\ Len(Bytes) + Len(d) <= MaxSize - 1
  BY <1>1, RingWrite
<1>3. Bytes' = IF ahead THEN d \o Bytes ELSE Bytes \o d
  BY <1>1, RingWrite DEF write_to_ring
<1>4. F!Send(d) \/ F!SendAhead(d)
  BY <1>2, <1>3 DEF F!Send, F!SendAhead
<1>. QED
  BY <1>2, <1>4 DEF FifoStep, F!FifoNext

\* A reader gets what it asked for, and takes it away unless it peeks.
LEMMA Receives ==
    ASSUME ring \in Rings, ring' # NULL, NEW k \in Sizes, NEW peek \in BOOLEAN,
           k <= queue_get_used_size(ring),
           ring' = IF peek THEN ring ELSE queue_read(ring, k),
           wake' # NULL, wake'.out = queue_peek(ring, k)
    PROVE  FifoStep
<1>1. Bytes = Contents(ring) /\ Bytes' = Contents(ring')
  BY QueueAssumption DEF Bytes
<1>2. /\ k \in 1 .. (MaxSize - 1) /\ k <= Len(Bytes)
      /\ wake'.out = SubSeq(Bytes, 1, k)
  BY <1>1, RingRead
<1>3. Bytes' = IF peek THEN Bytes ELSE SubSeq(Bytes, k + 1, Len(Bytes))
  BY <1>1, RingRead
<1>4. F!Peek(k) \/ F!Receive(k)
  BY <1>2, <1>3 DEF F!Peek, F!Receive
<1>. QED
  BY <1>2, <1>4 DEF FifoStep, F!FifoNext

-----------------------------------------------------------------------------
(* The calls *)

\* A call that puts its message into the ring.
LEMMA WriteCall ==
    ASSUME QueueInv, handler = "none", Started, ring # NULL,
           NEW d \in Message, NEW ahead \in BOOLEAN,
           queue_get_free_size(ring) >= Len(d), unlock_after(write_to_ring(d, ahead), <<>>)
    PROVE  QueueInv' /\ FifoStep
<1>1. ring \in Rings
  BY DEF QueueInv, QueueTypes
<1>2. Len(d) <= queue_get_free_size(ring)
  <2>1. PICK n \in BufferSizes : n \in Nat \ {0} /\ ring \in RingOf(n, Byte)
    BY <1>1, RingSize
  <2>2. queue_get_free_size(ring) = n - 1 - queue_get_used_size(ring)
        /\ queue_get_used_size(ring) \in 0 .. (n - 1)
    BY <2>1, UsedFree
  <2>. QED
    BY <2>1, <2>2, MessageType
<1>3. write_to_ring(d, ahead) \in Rings
  BY <1>1, <1>2, RingWrite DEF write_to_ring
<1>4. /\ QueueInv' /\ ring' = write_to_ring(d, ahead)
      /\ wake' # NULL /\ wake'.out = <<>>
  BY <1>3, UnlockAfterStep
<1>5. FifoStep
  BY <1>1, <1>2, <1>3, <1>4, Sends, QueueAssumption
<1>. QED
  BY <1>4, <1>5

\* A call that takes bytes out of it.
LEMMA ReadCall ==
    ASSUME QueueInv, handler = "none", Started, ring # NULL, NEW k \in Sizes,
           queue_get_used_size(ring) >= k,
           unlock_after(queue_read(ring, k), queue_peek(ring, k))
    PROVE  QueueInv' /\ FifoStep
<1>1. ring \in Rings
  BY DEF QueueInv, QueueTypes
<1>2. k <= queue_get_used_size(ring)
  <2>1. PICK n \in BufferSizes : n \in Nat \ {0} /\ ring \in RingOf(n, Byte)
    BY <1>1, RingSize
  <2>. QED
    BY <2>1, UsedFree, QueueAssumption
<1>3. queue_read(ring, k) \in Rings /\ queue_peek(ring, k) \in Message
  BY <1>1, <1>2, RingRead
<1>4. /\ QueueInv' /\ ring' = queue_read(ring, k)
      /\ wake' # NULL /\ wake'.out = queue_peek(ring, k)
  BY <1>3, UnlockAfterStep
<1>5. FifoStep
  BY <1>1, <1>2, <1>3, <1>4, Receives, QueueAssumption
<1>. QED
  BY <1>4, <1>5

\* A call that blocks.
LEMMA BlockCall ==
    ASSUME QueueInv, NEW api, MayCall("thread", api), NEW q \in WaitQ,
           NEW request \in InfoOf(q), NEW n \in Timeouts \cup {0}, ring # NULL,
           queue_block(q, request, n)
    PROVE  QueueInv' /\ FifoStep
<1>1. n \in Nat
  BY SchedulerAssumption
<1>2. handler = "none" /\ p_current \in Thread \ {Idle}
  BY CallingThread DEF MayCall, QueueInv
<1>3. QueueInv'
  BY <1>1, <1>2, QueueBlockStep
<1>4. FifoStep
  BY Stutters DEF queue_block
<1>. QED
  BY <1>3, <1>4

LEMMA CreateCall ==
    ASSUME QueueInv, NEW c, NEW size \in BufferSizes, os_queue_create(c, size)
    PROVE  QueueInv' /\ FifoStep
<1>1. QueueInv' /\ Contents(ring') = <<>>
  BY QueueCreateStep
<1>2. handler = "none" /\ wake' = wake
  BY DEF os_queue_create, MayCall
<1>3. wake' = NULL
  BY <1>2 DEF QueueInv, LoopInv
<1>. QED
  BY <1>1, <1>3, Empties

LEMMA ResetCall ==
    ASSUME QueueInv, NEW c, os_queue_reset(c) PROVE QueueInv' /\ FifoStep
<1>1. /\ handler = "none" /\ Started /\ ring # NULL
      /\ unlock_after([ring EXCEPT !.read = 0, !.write = 0], <<>>)
  BY DEF os_queue_reset, MayCall
<1>2. /\ [ring EXCEPT !.read = 0, !.write = 0] \in Rings
      /\ Contents([ring EXCEPT !.read = 0, !.write = 0]) = <<>>
  BY <1>1, RingReset DEF QueueInv, QueueTypes
<1>3. QueueInv' /\ Contents(ring') = <<>> /\ wake'.out = <<>>
  BY <1>1, <1>2, UnlockAfterStep
<1>. QED
  BY <1>3, Empties

LEMMA DeleteCall ==
    ASSUME QueueInv, NEW c, os_queue_delete(c) PROVE QueueInv' /\ FifoStep
<1>1. /\ handler = "none" /\ Started /\ ring # NULL /\ handler' = "wake"
      /\ wake' = [loop |-> "delete", out |-> <<>>]
      /\ UNCHANGED <<state, p_schinfo, itemVars, delayVars, timeVars, p_current,
                     p_next, pending, cpu, ctx, ring, info, result>>
  BY DEF os_queue_delete, MayCall
<1>2. wake' \in DeleteLoop /\ wake'.out = <<>> /\ ring' = ring /\ ring \in Rings
  BY <1>1 DEF DeleteLoop, QueueInv, QueueTypes
<1>3. QueueInv'
  BY <1>1, <1>2, EnterStep
<1>. QED
  BY <1>2, <1>3, Ends

LEMMA SendCall ==
    ASSUME QueueInv, NEW d \in Message, NEW n \in Timeouts \cup {0},
           os_queue_send(d, n) \/ os_queue_send_ahead(d, n)
    PROVE  QueueInv' /\ FifoStep
<1>1. PICK ahead \in BOOLEAN, api \in {"queue_send", "queue_send_ahead"} :
         MayCall("thread", api) /\ send(d, ahead, n)
  BY DEF os_queue_send, os_queue_send_ahead
<1>2. handler = "none" /\ Started /\ ring # NULL
  BY <1>1 DEF MayCall, Started, send
<1>3. CASE /\ queue_get_free_size(ring) >= Len(d)
           /\ unlock_after(write_to_ring(d, ahead), <<>>)
  BY <1>2, <1>3, WriteCall
<1>4. CASE queue_block(q_wait_write, [size |-> Len(d), data |-> d, flag |-> ahead], n)
  <2>1. [size |-> Len(d), data |-> d, flag |-> ahead] \in InfoOf(q_wait_write)
    BY QueueAssumption DEF InfoOf, WriteInfo
  <2>2. q_wait_write \in WaitQ
    BY QueueAssumption
  <2>. QED
    BY <1>1, <1>2, <1>4, <2>1, <2>2, BlockCall
<1>. QED
  BY <1>1, <1>3, <1>4 DEF send

LEMMA SendNbCall ==
    ASSUME QueueInv, NEW c, NEW d \in Message,
           os_queue_send_nb(c, d) \/ os_queue_send_ahead_nb(c, d)
    PROVE  QueueInv' /\ FifoStep
<1>1. handler = "none" /\ \E ahead \in BOOLEAN : send_nb(d, ahead)
  BY DEF os_queue_send_nb, os_queue_send_ahead_nb, MayCall
<1>. QED
  BY <1>1, WriteCall DEF send_nb

LEMMA ReceiveCall ==
    ASSUME QueueInv, NEW k \in Sizes, NEW n \in Timeouts \cup {0},
           os_queue_receive(k, n) \/ os_queue_peek(k, n)
    PROVE  QueueInv' /\ FifoStep
<1>1. PICK api : MayCall("thread", api)
  BY DEF os_queue_receive, os_queue_peek
<1>2. handler = "none" /\ Started /\ ring # NULL
  BY <1>1 DEF MayCall, Started, os_queue_receive, os_queue_peek
<1>3. CASE /\ queue_get_used_size(ring) >= k
           /\ unlock_after(queue_read(ring, k), queue_peek(ring, k))
  BY <1>2, <1>3, ReadCall
<1>4. ASSUME NEW peek \in BOOLEAN,
             queue_block(q_wait_read, [size |-> k, data |-> <<>>, flag |-> peek], n)
      PROVE  QueueInv' /\ FifoStep
  <2>1. [size |-> k, data |-> <<>>, flag |-> peek] \in InfoOf(q_wait_read)
    BY DEF InfoOf, ReadInfo
  <2>2. q_wait_read \in WaitQ
    BY QueueAssumption
  <2>. QED
    BY <1>1, <1>2, <1>4, <2>1, <2>2, BlockCall
<1>. QED
  BY <1>3, <1>4 DEF os_queue_receive, os_queue_peek

LEMMA ReceiveNbCall ==
    ASSUME QueueInv, NEW c, NEW k \in Sizes, os_queue_receive_nb(c, k)
    PROVE  QueueInv' /\ FifoStep
BY ReadCall DEF os_queue_receive_nb, MayCall

LEMMA QueueCallStep == QueueInv /\ QueueCallNext => QueueInv' /\ FifoStep
BY CreateCall, ResetCall, DeleteCall, SendCall, SendNbCall, ReceiveCall, ReceiveNbCall
DEF QueueCallNext

-----------------------------------------------------------------------------
(* The loops *)

LEMMA LoopFifo == QueueInv /\ QueueLoopNext => FifoStep
<1>. SUFFICES ASSUME QueueInv, QueueLoopNext PROVE FifoStep
  OBVIOUS
<1>1. CASE unlock_write
  <2>1. /\ QueueInv' /\ ring \in Rings /\ wake # NULL /\ wake' # NULL
        /\ wake'.out = <<>>
    BY <1>1, UnlockWriteStep
  <2>2. ring # NULL /\ ring' # NULL
    BY <2>1 DEF QueueInv, LoopInv
  <2>3. /\ WriterFits
        /\ ring' = write_to_ring(info[Head(Writers)].data, info[Head(Writers)].flag)
    BY <1>1 DEF unlock_write
  <2>. QED
    BY <2>1, <2>2, <2>3, ServedWriter, Sends
<1>2. CASE unlock_read
  <2>1. /\ QueueInv' /\ ring \in Rings /\ wake # NULL /\ wake' # NULL
        /\ wake'.out = queue_peek(ring, info[Head(Readers)].size)
    BY <1>2, UnlockReadStep
  <2>2. ring # NULL /\ ring' # NULL
    BY <2>1 DEF QueueInv, LoopInv
  <2>3. /\ ReaderFits
        /\ ring' = IF info[Head(Readers)].flag THEN ring
                   ELSE queue_read(ring, info[Head(Readers)].size)
    BY <1>2 DEF unlock_read
  <2>. QED
    BY <2>1, <2>2, <2>3, ServedReader, Receives
<1>3. CASE unlock_write_stop \/ unlock_read_stop
  BY <1>3, StopStep, Ends
<1>4. CASE unlock_done
  BY <1>4, Ends DEF unlock_done, leave_loop
<1>5. CASE delete_iterate
  BY <1>5, Stutters DEF delete_iterate
<1>6. CASE delete_done
  BY <1>6, Empties DEF delete_done, leave_loop
<1>. QED
  BY <1>1, <1>2, <1>3, <1>4, <1>5, <1>6 DEF QueueLoopNext

LEMMA QueueInvStep == QueueInv /\ [QueueNext]_allVars => QueueInv' /\ FifoStep
<1>. SUFFICES ASSUME QueueInv, [QueueNext]_allVars PROVE QueueInv' /\ FifoStep
  OBVIOUS
<1>1. CASE Next /\ DropInfo /\ DropResult /\ UNCHANGED <<ring, wake>>
  BY <1>1, SchedulerStep, Stutters
<1>2. CASE QueueCallNext
  BY <1>2, QueueCallStep
<1>3. CASE QueueLoopNext
  BY <1>3, QueueLoopStep, LoopFifo
<1>4. CASE UNCHANGED allVars
  <2>1. Inv'
    BY <1>4, InvStutter DEF QueueInv, allVars
  <2>2. /\ UNCHANGED queueVars
        /\ handler' = handler /\ item_sch_q' = item_sch_q /\ p_schinfo' = p_schinfo
    BY <1>4 DEF allVars, vars, schVars, itemVars
  <2>3. QueueInv'
    BY <2>1, <2>2
    DEF QueueInv, QueueTypes, LoopInv, WaiterInv, WaitsRightly, InfoOf, queueVars
  <2>. QED
    BY <2>2, <2>3, Stutters DEF queueVars
<1>. QED
  BY <1>1, <1>2, <1>3, <1>4 DEF QueueNext

-----------------------------------------------------------------------------
(* The theorems *)

\* The ring keeps its indices inside the buffer and nothing but bytes in it, the
\* requests have the sizes of their messages, and the variables of a loop are
\* there exactly while it runs.
THEOREM QueueTypeCorrect == QueueSpec => []QueueTypeOK
<1>1. QueueInv /\ [QueueNext]_allVars => QueueInv'
  BY QueueInvStep
<1>. QED
  BY <1>1, QueueInvInit, QueueInvImplies, PTL DEF QueueSpec

\* queue_unlock_threads dereferences the request of the first waiter of each
\* queue: it is there, and of the kind that the queue is for.
THEOREM RequestsSound == QueueSpec => []RequestsValid
<1>1. QueueInv /\ [QueueNext]_allVars => QueueInv'
  BY QueueInvStep
<1>. QED
  BY <1>1, QueueInvInit, QueueInvImplies, PTL DEF QueueSpec

\* The message queue implements the Fifo: whatever the calls, the interrupts and
\* the waiters do, messages enter whole and in order or ahead of all others, and
\* readers get exactly the first bytes (queue_write, queue_write_ahead,
\* queue_read, queue_peek, queue_unlock_threads).
THEOREM ImplementsFifo == QueueSpec => QueueIsFifo
<1>1. QueueInit => F!FifoInit
  BY DEF QueueInit, F!FifoInit, Bytes
<1>2. QueueInv /\ [QueueNext]_allVars => QueueInv'
  BY QueueInvStep
<1>3. QueueInv /\ [QueueNext]_allVars => [F!FifoNext]_F!fifoVars
  BY QueueInvStep DEF FifoStep, F!fifoVars, Out
<1>. QED
  BY <1>1, <1>2, <1>3, QueueInvInit, PTL DEF QueueSpec, QueueIsFifo, F!FifoSpec

-----------------------------------------------------------------------------
(* What a call that waited returns *)

Moved(t) ==
    IF ~result'[t] THEN 0
    ELSE IF item_sch_q[t] = q_wait_write THEN info[t].size
    ELSE IF info[t].flag THEN 0
    ELSE 0 - info[t].size

\* If t stops waiting, its result says what has become of its bytes.
Outcome(t) ==
    Waits(t) /\ ~Waits(t)' =>
        /\ Len(Bytes') = Len(Bytes) + Moved(t)
        /\ result'[t] => t = Head(q_items[item_sch_q[t]])

LEMMA BytesType == QueueInv => Bytes \in Seq(Byte) /\ Len(Bytes) \in Nat
<1>. SUFFICES ASSUME QueueInv PROVE Bytes \in Seq(Byte)
  OBVIOUS
<1>1. CASE ring = NULL
  BY <1>1 DEF Bytes
<1>2. CASE ring # NULL
  <2>1. PICK n \in BufferSizes : n \in Nat \ {0} /\ ring \in RingOf(n, Byte)
    BY <1>2, RingSize DEF QueueInv, QueueTypes
  <2>. QED
    BY <1>2, <2>1, ContentsType DEF Bytes
<1>. QED
  BY <1>1, <1>2

\* Whoever fails leaves the bytes as they are.
LEMMA FailedOutcome ==
    ASSUME QueueInv, NEW t \in Thread, ring' = ring, Waits(t) => ~result'[t]
    PROVE  Outcome(t)
BY BytesType DEF Outcome, Moved, Bytes

LEMMA QuietOutcome ==
    ASSUME QueueInv, Next, DropResult, UNCHANGED ring, NEW t \in Thread
    PROVE  Outcome(t)
<1>1. Waits(t) => ~result[t]
  BY DEF QueueInv, WaiterInv, WaitsRightly, Waits
<1>2. Waits(t) => ~result'[t]
  BY <1>1 DEF DropResult
<1>. QED
  BY <1>2, FailedOutcome

\* A call makes its caller wait, or leaves the wait queues alone.
LEMMA CallOutcome ==
    ASSUME QueueInv, QueueCallNext, NEW t \in Thread PROVE Outcome(t)
<1>1. ASSUME NEW r, NEW out, unlock_after(r, out) PROVE item_sch_q' = item_sch_q
  BY <1>1 DEF unlock_after, itemVars
<1>2. ASSUME NEW q \in WaitQ, NEW request, NEW n, queue_block(q, request, n)
      PROVE  item_sch_q' = [item_sch_q EXCEPT ![p_current] = q]
  BY <1>2 DEF queue_block, thd_block_current
<1>3. q_wait_read \in WaitQ /\ q_wait_write \in WaitQ
  BY QueueAssumption
<1>4. ASSUME NEW c \in Context,
             \/ \E size \in BufferSizes : os_queue_create(c, size)
             \/ os_queue_reset(c) \/ os_queue_delete(c)
             \/ \E d \in Message : os_queue_send_nb(c, d) \/ os_queue_send_ahead_nb(c, d)
             \/ \E size \in Sizes : os_queue_receive_nb(c, size)
      PROVE  item_sch_q' = item_sch_q
  BY <1>1, <1>4 DEF os_queue_create, os_queue_reset, os_queue_delete, os_queue_send_nb,
     os_queue_send_ahead_nb, send_nb, os_queue_receive_nb, itemVars
<1>5. ASSUME NEW n \in Timeouts \cup {0},
             \/ \E d \in Message : os_queue_send(d, n) \/ os_queue_send_ahead(d, n)
             \/ \E size \in Sizes : os_queue_receive(size, n) \/ os_queue_peek(size, n)
      PROVE  \/ item_sch_q' = item_sch_q
             \/ \E q \in WaitQ : item_sch_q' = [item_sch_q EXCEPT ![p_current] = q]
  BY <1>1, <1>2, <1>3, <1>5 DEF os_queue_send, os_queue_send_ahead, send,
     os_queue_receive, os_queue_peek
<1>6. \/ item_sch_q' = item_sch_q
      \/ \E q \in WaitQ : item_sch_q' = [item_sch_q EXCEPT ![p_current] = q]
  BY <1>4, <1>5 DEF QueueCallNext
<1>7. Waits(t) => Waits(t)'
  BY <1>6 DEF Waits, QueueInv, Inv, ThreadInv
<1>. QED
  BY <1>7 DEF Outcome

\* Only the thread that a loop readies stops waiting.
LEMMA ReadiedLeaves ==
    ASSUME QueueInv, NEW h \in Thread, thd_ready(h), NEW t \in Thread,
           Waits(t), ~Waits(t)'
    PROVE  t = h
BY DEF thd_ready, Waits, QueueInv, Inv, ThreadInv

LEMMA WriteOutcome ==
    ASSUME QueueInv, unlock_write, NEW t \in Thread PROVE Outcome(t)
<1>. SUFFICES ASSUME Waits(t), ~Waits(t)'
              PROVE  /\ Len(Bytes') = Len(Bytes) + Moved(t)
                     /\ result'[t] => t = Head(q_items[item_sch_q[t]])
  BY DEF Outcome
<1>1. /\ WriterFits /\ Writers # <<>> /\ serve(Head(Writers))
      /\ ring' = write_to_ring(info[Head(Writers)].data, info[Head(Writers)].flag)
  BY DEF unlock_write, WriterFits
<1>2. ring \in Rings /\ ring # NULL /\ ring' # NULL
  BY UnlockWriteStep, QueueAssumption DEF QueueInv, LoopInv
<1>3. /\ Head(Writers) \in Thread /\ item_sch_q[Head(Writers)] = q_wait_write
      /\ info[Head(Writers)] \in WriteInfo
  BY <1>1, HeadWaits, QueueAssumption DEF Writers, WaitsRightly, InfoOf
<1>4. t = Head(Writers) /\ result'[t]
  <2>1. t = Head(Writers)
    BY <1>1, <1>3, ReadiedLeaves DEF serve
  <2>. QED
    BY <1>1, <1>3, <2>1 DEF serve, QueueInv, QueueTypes
<1>5. PICK d \in Message, f \in BOOLEAN :
         info[t] = [size |-> Len(d), data |-> d, flag |-> f]
  BY <1>3, <1>4 DEF WriteInfo
<1>6. Len(d) <= queue_get_free_size(ring) /\ ring' = write_to_ring(d, f)
  BY <1>1, <1>2, <1>4, <1>5, ServedWriter
<1>7. Bytes = Contents(ring) /\ Bytes' = Contents(ring')
  BY <1>2 DEF Bytes
<1>8. Bytes' = d \o Bytes \/ Bytes' = Bytes \o d
  BY <1>2, <1>6, <1>7, RingWrite DEF write_to_ring
<1>9. Len(Bytes') = Len(Bytes) + Len(d)
  BY <1>8, BytesType, MessageType
<1>10. Moved(t) = Len(d)
  BY <1>3, <1>4, <1>5 DEF Moved
<1>. QED
  BY <1>3, <1>4, <1>9, <1>10 DEF Writers

LEMMA ReadOutcome ==
    ASSUME QueueInv, unlock_read, NEW t \in Thread PROVE Outcome(t)
<1>. SUFFICES ASSUME Waits(t), ~Waits(t)'
              PROVE  /\ Len(Bytes') = Len(Bytes) + Moved(t)
                     /\ result'[t] => t = Head(q_items[item_sch_q[t]])
  BY DEF Outcome
<1>1. /\ ReaderFits /\ Readers # <<>> /\ serve(Head(Readers))
      /\ ring' = IF info[Head(Readers)].flag THEN ring
                 ELSE queue_read(ring, info[Head(Readers)].size)
  BY DEF unlock_read, ReaderFits
<1>2. ring \in Rings /\ ring # NULL /\ ring' # NULL
  BY UnlockReadStep, QueueAssumption DEF QueueInv, LoopInv
<1>3. Head(Readers) \in Thread /\ item_sch_q[Head(Readers)] = q_wait_read
  BY <1>1, HeadWaits, QueueAssumption DEF Readers
<1>4. t = Head(Readers) /\ result'[t]
  <2>1. t = Head(Readers)
    BY <1>1, <1>3, ReadiedLeaves DEF serve
  <2>. QED
    BY <1>1, <1>3, <2>1 DEF serve, QueueInv, QueueTypes
<1>5. /\ info[t].size \in Sizes /\ info[t].flag \in BOOLEAN
      /\ info[t].size <= queue_get_used_size(ring)
  BY <1>1, <1>2, <1>4, ServedReader
<1>6. Bytes = Contents(ring) /\ Bytes' = Contents(ring')
  BY <1>2 DEF Bytes
<1>7. Moved(t) = IF info[t].flag THEN 0 ELSE 0 - info[t].size
  BY <1>3, <1>4, QueueAssumption DEF Moved
<1>8. CASE info[t].flag
  <2>1. Len(Bytes') = Len(Bytes) + Moved(t)
    BY <1>1, <1>4, <1>6, <1>7, <1>8, BytesType
  <2>. QED
    BY <1>3, <1>4, <2>1 DEF Readers
<1>9. CASE ~info[t].flag
  <2>. DEFINE k == info[t].size
  <2>1. ring' = queue_read(ring, k)
    BY <1>1, <1>4, <1>9
  <2>2. k \in 1 .. (MaxSize - 1) /\ k <= Len(Bytes)
        /\ Bytes' = SubSeq(Bytes, k + 1, Len(Bytes))
    BY <1>2, <1>5, <1>6, <2>1, RingRead
  <2>3. k \in Nat /\ MaxSize \in Nat
    BY <1>5, QueueAssumption
  <2>. HIDE DEF k
  <2>4. Len(Bytes') = Len(Bytes) - k
    BY <2>2, <2>3, BytesType
  <2>5. Moved(t) = 0 - k
    BY <1>7, <1>9 DEF k
  <2>. QED
    BY <2>3, <2>4, <2>5, BytesType, <1>3, <1>4 DEF Readers
<1>. QED
  BY <1>3, <1>4, <1>5, <1>8, <1>9 DEF Readers

LEMMA StepOutcome ==
    ASSUME QueueInv, [QueueNext]_allVars, NEW t \in Thread PROVE Outcome(t)
<1>1. CASE Next /\ DropInfo /\ DropResult /\ UNCHANGED <<ring, wake>>
  BY <1>1, QuietOutcome
<1>2. CASE QueueCallNext
  BY <1>2, CallOutcome
<1>3. CASE \/ unlock_write_stop \/ unlock_read_stop \/ unlock_done \/ delete_done
           \/ UNCHANGED allVars
  <2>1. item_sch_q' = item_sch_q
    BY <1>3 DEF unlock_write_stop, unlock_read_stop, unlock_done, delete_done, leave_loop,
       allVars, vars, itemVars
  <2>. QED
    BY <2>1 DEF Outcome, Waits
<1>4. CASE delete_iterate
  <2>1. ring' = ring /\ result' = result
    BY <1>4 DEF delete_iterate
  <2>2. Waits(t) => ~result[t]
    BY DEF QueueInv, WaiterInv, WaitsRightly, Waits
  <2>. QED
    BY <2>1, <2>2, FailedOutcome
<1>. QED
  BY <1>1, <1>2, <1>3, <1>4, WriteOutcome, ReadOutcome DEF QueueNext, QueueLoopNext

\* A blocked call returns a success exactly if its bytes were transferred, and
\* only to the first waiter: whoever leaves by a timeout, a resume, a suspension
\* or the deletion of the queue finds the contents untouched and fails.
THEOREM TransfersSettled == QueueSpec => TransferOutcome
<1>. DEFINE Settles == \A t \in Thread :
          Waits(t) /\ ~Waits(t)' =>
             LET moved == IF ~result'[t] THEN 0
                          ELSE IF item_sch_q[t] = q_wait_write THEN info[t].size
                          ELSE IF info[t].flag THEN 0
                          ELSE 0 - info[t].size
             IN  /\ Len(Bytes') = Len(Bytes) + moved
                 /\ result'[t] => t = Head(q_items[item_sch_q[t]])
<1>1. QueueInv /\ [QueueNext]_allVars => [Settles]_allVars
  BY StepOutcome DEF Outcome, Moved
<1>2. QueueInv /\ [QueueNext]_allVars => QueueInv'
  BY QueueInvStep
<1>3. QueueSpec => []QueueInv
  BY <1>2, QueueInvInit, PTL DEF QueueSpec
<1>4. QueueSpec => [][Settles]_allVars
  BY <1>1, <1>3, PTL DEF QueueSpec
<1>. QED
  BY <1>4 DEF TransferOutcome

-----------------------------------------------------------------------------
(* A waiter that sleeps although it fits *)

\* What the loop of queue_unlock_threads has found out.
TurnInv ==
    Unlocking => /\ ~wake.can_write => ~WriterFits
                 /\ ~wake.can_read => ~ReaderFits

Fits(q) ==
    /\ q_items[q] # <<>>
    /\ info[Head(q_items[q])].size <= IF q = q_wait_write THEN queue_get_free_size(ring)
                                      ELSE queue_get_used_size(ring)

LEMMA FitsIs == WriterFits = Fits(q_wait_write) /\ ReaderFits = Fits(q_wait_read)
BY QueueAssumption DEF Fits, WriterFits, ReaderFits, Writers, Readers

LEMMA FitSleepsIs ==
    /\ FitSleeps <=> ring # NULL /\ handler # "wake" /\ \E q \in WaitQ : Fits(q)
    /\ FitSleeps' <=> ring' # NULL /\ handler' # "wake" /\ \E q \in WaitQ : Fits(q)'
BY QueueAssumption
DEF FitSleeps, Fits, WriterFits, ReaderFits, Writers, Readers

\* A wait queue that keeps its waiters and their requests fits as before.
LEMMA FitsKept ==
    ASSUME NEW q \in WaitQ, q_items'[q] = q_items[q], ring' = ring,
           q_items[q] # <<>> => info'[Head(q_items[q])] = info[Head(q_items[q])]
    PROVE  Fits(q)' <=> Fits(q)
BY DEF Fits

\* A thread leaves its wait queue and fails, or is given a priority there.
Departs(t) ==
    /\ Waits(t)
    /\ \/ ~Waits(t)' /\ ~result'[t]
       \/ \E c \in Context, prio \in Prio : os_thread_set_priority(c, t, prio)

FitsFirst == ~FitSleeps /\ FitSleeps' => \E t \in Thread : Departs(t)

\* A call or an interrupt of the scheduler.
LEMMA QuietFits ==
    ASSUME QueueInv, Next, DropInfo, DropResult, UNCHANGED <<ring, wake>>
    PROVE  FitsFirst
<1>. SUFFICES ASSUME ~\E t \in Thread : Departs(t), FitSleeps' PROVE FitSleeps
  BY DEF FitsFirst
<1>1. KeepsWaiters /\ handler # "wake" /\ handler' # "wake"
  BY NextKeeps DEF QueueInv
<1>2. ASSUME NEW t \in Thread, Waits(t) PROVE Waits(t)'
  <2>1. ~result'[t]
    BY <1>2 DEF QueueInv, WaiterInv, WaitsRightly, Waits, DropResult
  <2>. QED
    BY <1>2, <2>1 DEF Departs
<1>3. PICK q \in WaitQ : Fits(q)'
  BY FitSleepsIs
<1>4. q_items'[q] = q_items[q]
  <2>1. \A t \in Thread : item_sch_q[t] = q => item_sch_q'[t] \in WaitQ
    BY <1>2 DEF Waits
  <2>2. \A c \in Context, t \in Thread, prio \in Prio :
           os_thread_set_priority(c, t, prio) => item_sch_q[t] # q
    BY DEF Departs, Waits
  <2>. QED
    BY <2>1, <2>2, WaitQueueStays DEF QueueInv
<1>5. q_items[q] # <<>> => info'[Head(q_items[q])] = info[Head(q_items[q])]
  <2>. SUFFICES ASSUME q_items[q] # <<>>
                PROVE  info'[Head(q_items[q])] = info[Head(q_items[q])]
    OBVIOUS
  <2>. DEFINE h == Head(q_items[q])
  <2>1. h \in Thread /\ item_sch_q[h] = q /\ p_schinfo[h]
    BY HeadWaits DEF WaitsRightly
  <2>2. item_sch_q'[h] \in WaitQ
    BY <1>2, <2>1 DEF Waits
  <2>. QED
    BY <1>1, <2>1, <2>2, DropKeeps DEF QueueInv
<1>6. Fits(q)
  BY <1>3, <1>4, <1>5, FitsKept
<1>. QED
  BY <1>1, <1>6, FitSleepsIs

\* A thread blocks only with a request that does not fit.
LEMMA BlockFits ==
    ASSUME QueueInv, NEW api, MayCall("thread", api), NEW q \in WaitQ, NEW request, NEW n,
           queue_block(q, request, n),
           ~(request.size <= IF q = q_wait_write THEN queue_get_free_size(ring)
                             ELSE queue_get_used_size(ring))
    PROVE  FitsFirst
<1>. SUFFICES ASSUME FitSleeps' PROVE FitSleeps
  BY DEF FitsFirst
<1>1. p_current \in Thread \ {Idle}
  BY CallingThread DEF QueueInv
<1>2. /\ info' = [info EXCEPT ![p_current] = request]
      /\ thd_block_current(q, TRUE, n)
      /\ ring' = ring /\ handler' = handler
  BY DEF queue_block, thd_block_current
<1>3. /\ q_items'[q] = sch_qitem_enq_prio(q_items[q], p_current, item_sch_tag)
      /\ \A m \in WaitQ \ {q} : q_items'[m] = q_items[m]
      /\ Queue(q_items[q], Thread) /\ p_current \notin Range(q_items[q])
      /\ item_sch_q[p_current] \notin WaitQ
  BY <1>1, <1>2, BlockInserts DEF QueueInv
<1>4. info'[p_current] = request /\ \A t \in Thread \ {p_current} : info'[t] = info[t]
  BY <1>1, <1>2 DEF QueueInv, QueueTypes
<1>5. \A m \in WaitQ : q_items[m] # <<>> =>
         Head(q_items[m]) \in Thread \ {p_current}
  BY <1>3, HeadWaits
<1>6. PICK m \in WaitQ : Fits(m)'
  BY FitSleepsIs
<1>7. CASE m # q
  <2>1. Fits(m)
    BY <1>2, <1>3, <1>4, <1>5, <1>6, <1>7, FitsKept
  <2>. QED
    BY <1>2, <2>1, FitSleepsIs
<1>8. CASE m = q
  <2>. DEFINE h == Head(q_items'[q])
  <2>1. h = p_current \/ (q_items[q] # <<>> /\ h = Head(q_items[q]))
    <3>1. item_sch_tag \in [Thread -> Nat]
      BY Constants DEF QueueInv, Inv, ThreadInv
    <3>. QED
      BY <1>1, <1>3, <3>1, EnqPrioHead
  <2>2. info'[h].size <= IF q = q_wait_write THEN queue_get_free_size(ring)
                         ELSE queue_get_used_size(ring)
    BY <1>2, <1>6, <1>8 DEF Fits
  <2>3. h # p_current
    BY <1>4, <2>2
  <2>4. Fits(q)
    BY <1>4, <1>5, <2>1, <2>2, <2>3 DEF Fits
  <2>. QED
    BY <1>2, <2>4, FitSleepsIs
<1>. QED
  BY <1>7, <1>8

\* A call that leaves the ring to queue_unlock_threads or to the deletion.
LEMMA LoopFits ==
    ASSUME handler' = "wake" \/ ring' = NULL PROVE FitsFirst
BY FitSleepsIs DEF FitsFirst

LEMMA CreateFits ==
    ASSUME QueueInv, NEW c, NEW size, os_queue_create(c, size) PROVE FitsFirst
<1>1. /\ q_items' = [q_items EXCEPT ![q_wait_read] = <<>>, ![q_wait_write] = <<>>]
      /\ WaitQ = {q_wait_read, q_wait_write} /\ WaitQ \subseteq SchQ
  BY QueueAssumption, WaitQNames DEF os_queue_create
<1>2. \A q \in WaitQ : q_items'[q] = <<>>
  BY <1>1 DEF QueueInv, Inv, ItemInv, Queues
<1>3. \A q \in WaitQ : ~Fits(q)'
  BY <1>2 DEF Fits
<1>. QED
  BY <1>3, FitSleepsIs DEF FitsFirst

LEMMA SendFits ==
    ASSUME QueueInv, NEW d \in Message, NEW n, os_queue_send(d, n) \/ os_queue_send_ahead(d, n)
    PROVE  FitsFirst
<1>1. PICK ahead \in BOOLEAN, api \in {"queue_send", "queue_send_ahead"} :
         MayCall("thread", api) /\ send(d, ahead, n)
  BY DEF os_queue_send, os_queue_send_ahead
<1>2. CASE unlock_after(write_to_ring(d, ahead), <<>>)
  BY <1>2, LoopFits DEF unlock_after
<1>3. CASE /\ queue_get_free_size(ring) < Len(d)
           /\ queue_block(q_wait_write, [size |-> Len(d), data |-> d, flag |-> ahead], n)
  <2>1. ring # NULL
    BY <1>1 DEF send
  <2>2. PICK k \in BufferSizes : k \in Nat \ {0} /\ ring \in RingOf(k, Byte)
    BY <2>1, RingSize DEF QueueInv, QueueTypes
  <2>3. ~(Len(d) <= queue_get_free_size(ring))
    BY <1>3, <2>2, UsedFree, MessageType
  <2>4. q_wait_write \in WaitQ
    BY QueueAssumption
  <2>. QED
    BY <1>1, <1>3, <2>3, <2>4, BlockFits
<1>. QED
  BY <1>1, <1>2, <1>3 DEF send

LEMMA ReceiveFits ==
    ASSUME QueueInv, NEW k \in Sizes, NEW n, os_queue_receive(k, n) \/ os_queue_peek(k, n)
    PROVE  FitsFirst
<1>1. PICK api : MayCall("thread", api)
  BY DEF os_queue_receive, os_queue_peek
<1>2. CASE unlock_after(queue_read(ring, k), queue_peek(ring, k))
  BY <1>2, LoopFits DEF unlock_after
<1>3. ASSUME NEW peek \in BOOLEAN, queue_get_used_size(ring) < k, ring # NULL,
             queue_block(q_wait_read, [size |-> k, data |-> <<>>, flag |-> peek], n)
      PROVE  FitsFirst
  <2>1. PICK m \in BufferSizes : m \in Nat \ {0} /\ ring \in RingOf(m, Byte)
    BY <1>3, RingSize DEF QueueInv, QueueTypes
  <2>2. ~(k <= queue_get_used_size(ring))
    BY <1>3, <2>1, UsedFree, QueueAssumption
  <2>3. q_wait_read \in WaitQ /\ q_wait_read # q_wait_write
    BY QueueAssumption
  <2>. QED
    BY <1>1, <1>3, <2>2, <2>3, BlockFits
<1>. QED
  BY <1>2, <1>3 DEF os_queue_receive, os_queue_peek

LEMMA CallFits == QueueInv /\ QueueCallNext => FitsFirst
<1>. SUFFICES ASSUME QueueInv, QueueCallNext PROVE FitsFirst
  OBVIOUS
<1>1. ASSUME NEW c \in Context,
             \/ os_queue_reset(c) \/ os_queue_delete(c)
             \/ \E d \in Message : os_queue_send_nb(c, d) \/ os_queue_send_ahead_nb(c, d)
             \/ \E size \in Sizes : os_queue_receive_nb(c, size)
      PROVE  FitsFirst
  <2>1. handler' = "wake"
    BY <1>1 DEF os_queue_reset, os_queue_delete, os_queue_send_nb,
       os_queue_send_ahead_nb, send_nb, os_queue_receive_nb, unlock_after
  <2>. QED
    BY <2>1, LoopFits
<1>. QED
  BY <1>1, CreateFits, SendFits, ReceiveFits DEF QueueCallNext

\* The loop of queue_unlock_threads ends when nobody fits.
LEMMA DoneFits ==
    ASSUME QueueInv, TurnInv, unlock_done PROVE FitsFirst
<1>1. /\ ~WriterFits /\ ~ReaderFits /\ ring' = ring /\ info' = info
      /\ sch_set_next_thread(q_items) \/ q_items' = q_items
  BY DEF unlock_done, TurnInv, leave_loop, sch_reschedule_req
<1>2. \A q \in WaitQ : q_items'[q] = q_items[q]
  BY <1>1, IdleQueued, ChoosesElsewhere DEF QueueInv, Inv, ItemInv
<1>3. \A q \in WaitQ : ~Fits(q)
  BY <1>1, FitsIs, QueueAssumption
<1>4. \A q \in WaitQ : ~Fits(q)'
  BY <1>1, <1>2, <1>3, FitsKept
<1>. QED
  BY <1>4, FitSleepsIs DEF FitsFirst

LEMMA StepFits ==
    ASSUME QueueInv, TurnInv, [QueueNext]_allVars PROVE [FitsFirst]_allVars
<1>1. CASE Next /\ DropInfo /\ DropResult /\ UNCHANGED <<ring, wake>>
  BY <1>1, QuietFits
<1>2. CASE QueueCallNext
  BY <1>2, CallFits
<1>3. CASE unlock_write \/ unlock_write_stop \/ unlock_read \/ unlock_read_stop \/ delete_iterate
  <2>1. handler = "wake" /\ handler' = handler
    BY <1>3 DEF unlock_write, unlock_write_stop, unlock_read, unlock_read_stop,
       delete_iterate, WriteTurn, ReadTurn, Unlocking, serve, vars, schVars
  <2>. QED
    BY <2>1, LoopFits
<1>4. CASE unlock_done
  BY <1>4, DoneFits
<1>5. CASE delete_done
  BY <1>5, LoopFits DEF delete_done
<1>. QED
  BY <1>1, <1>2, <1>3, <1>4, <1>5 DEF QueueNext, QueueLoopNext

\* A turn that fails ends the turns of its kind until the other kind succeeds.
LEMMA TurnStep ==
    ASSUME QueueInv, TurnInv, [QueueNext]_allVars PROVE TurnInv'
<1>1. CASE Next /\ DropInfo /\ DropResult /\ UNCHANGED <<ring, wake>>
  <2>1. handler' # "wake"
    BY <1>1, NextKeeps DEF QueueInv
  <2>. QED
    BY <2>1 DEF TurnInv, Unlocking
<1>2. CASE QueueCallNext
  <2>1. ASSUME NEW r, NEW out, unlock_after(r, out) PROVE TurnInv'
    BY <2>1 DEF unlock_after, TurnInv
  <2>2. ASSUME NEW api, MayCall("thread", api), NEW q, NEW request, NEW n,
               queue_block(q, request, n)
        PROVE  TurnInv'
    BY <2>2 DEF MayCall, queue_block, thd_block_current, TurnInv, Unlocking
  <2>3. ASSUME NEW c \in Context,
               \/ \E size \in BufferSizes : os_queue_create(c, size)
               \/ os_queue_delete(c)
        PROVE  TurnInv'
    BY <2>3 DEF MayCall, os_queue_create, os_queue_delete, schVars, TurnInv, Unlocking
  <2>4. ASSUME NEW c \in Context,
               \/ os_queue_reset(c)
               \/ \E d \in Message : os_queue_send_nb(c, d) \/ os_queue_send_ahead_nb(c, d)
               \/ \E size \in Sizes : os_queue_receive_nb(c, size)
        PROVE  TurnInv'
    BY <2>1, <2>4 DEF os_queue_reset, os_queue_send_nb, os_queue_send_ahead_nb, send_nb,
       os_queue_receive_nb
  <2>5. ASSUME NEW n \in Timeouts \cup {0},
               \/ \E d \in Message : os_queue_send(d, n) \/ os_queue_send_ahead(d, n)
               \/ \E size \in Sizes : os_queue_receive(size, n) \/ os_queue_peek(size, n)
        PROVE  TurnInv'
    BY <2>1, <2>2, <2>5 DEF os_queue_send, os_queue_send_ahead, send, os_queue_receive,
       os_queue_peek
  <2>. QED
    BY <1>2, <2>3, <2>4, <2>5 DEF QueueCallNext
<1>3. Unlocking => wake \in UnlockLoop
  BY DEF Unlocking, QueueInv, QueueTypes, LoopInv, DeleteLoop
<1>4. CASE unlock_write
  <2>1. wake.can_write /\ wake \in UnlockLoop
    BY <1>3, <1>4 DEF unlock_write, WriteTurn
  <2>2. wake' = [wake EXCEPT !.can_read = TRUE, !.turn = "read", !.out = <<>>]
    BY <1>4 DEF unlock_write
  <2>3. wake'.can_read /\ wake'.can_write
    BY <2>1, <2>2 DEF UnlockLoop
  <2>. QED
    BY <2>3 DEF TurnInv
<1>5. CASE unlock_read
  <2>1. wake.can_read /\ wake \in UnlockLoop
    BY <1>3, <1>5 DEF unlock_read, ReadTurn
  <2>2. wake' = [wake EXCEPT !.can_write = TRUE, !.turn = "write",
                             !.out = queue_peek(ring, info[Head(Readers)].size)]
    BY <1>5 DEF unlock_read
  <2>3. wake'.can_read /\ wake'.can_write
    BY <2>1, <2>2 DEF UnlockLoop
  <2>. QED
    BY <2>3 DEF TurnInv
<1>6. CASE unlock_write_stop \/ unlock_read_stop \/ UNCHANGED allVars
  <2>1. /\ UNCHANGED <<handler, q_items, info, ring>>
        /\ \/ wake' = wake
           \/ ~WriterFits /\ wake' = [wake EXCEPT !.can_write = FALSE, !.turn = "read", !.out = <<>>]
           \/ ~ReaderFits /\ wake' = [wake EXCEPT !.can_read = FALSE, !.turn = "write", !.out = <<>>]
    BY <1>6 DEF unlock_write_stop, unlock_read_stop, allVars, vars, queueVars, schVars,
       itemVars
  <2>2. WriterFits' = WriterFits /\ ReaderFits' = ReaderFits
    BY <2>1 DEF WriterFits, ReaderFits, Writers, Readers
  <2>3. Unlocking' => Unlocking
    BY <1>6, <2>1 DEF Unlocking, unlock_write_stop, unlock_read_stop, WriteTurn, ReadTurn,
       allVars, queueVars
  <2>4. Unlocking' => /\ ~wake'.can_write => ~wake.can_write \/ ~WriterFits
                      /\ ~wake'.can_read => ~wake.can_read \/ ~ReaderFits
    BY <1>3, <2>1, <2>3 DEF UnlockLoop
  <2>. QED
    BY <2>2, <2>3, <2>4 DEF TurnInv
<1>7. CASE unlock_done \/ delete_done
  BY <1>7 DEF unlock_done, delete_done, leave_loop, TurnInv, Unlocking
<1>8. CASE delete_iterate
  BY <1>8 DEF delete_iterate, TurnInv, Unlocking
<1>. QED
  BY <1>1, <1>2, <1>4, <1>5, <1>6, <1>7, <1>8 DEF QueueNext, QueueLoopNext

\* No call and no turn of queue_unlock_threads leaves the first waiter asleep with
\* a request that fits: that only comes about when a waiter leaves without a
\* transfer or is given a priority.
THEOREM SleepsFitByDeparture == QueueSpec => FitOnlyByDeparture
<1>1. QueueInv /\ TurnInv /\ [QueueNext]_allVars => (QueueInv /\ TurnInv)'
  BY QueueInvStep, TurnStep
<1>2. QueueInit => QueueInv /\ TurnInv
  BY QueueInvInit DEF QueueInit, Init, TurnInv, Unlocking
<1>3. QueueSpec => [](QueueInv /\ TurnInv)
  BY <1>1, <1>2, PTL DEF QueueSpec
<1>4. QueueInv /\ TurnInv /\ [QueueNext]_allVars => [FitsFirst]_allVars
  BY StepFits
<1>5. QueueSpec => [][FitsFirst]_allVars
  BY <1>3, <1>4, PTL DEF QueueSpec
<1>. QED
  BY <1>5 DEF FitOnlyByDeparture, FitsFirst, Departs
=============================================================================
