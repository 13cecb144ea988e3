------------------------------- MODULE MsgQueue -------------------------------
(***************************************************************************)
(* Message queues, source/queue.c, on top of the scheduler: one queue with *)
(* its two wait queues.                                                    *)
(*                                                                         *)
(* queue_unlock_threads and queue_delete_static ready threads in a loop    *)
(* with interrupts disabled: one action per turn of the loop, with `wake'  *)
(* the loop's variables.  os_queue_peek_nb and the functions that return a *)
(* size only read, and have no action.                                     *)
(***************************************************************************)
EXTENDS Scheduler, Ring

CONSTANTS
    q_wait_read,     \* the wait queue of the readers
    q_wait_write,    \* the wait queue of the writers
    Byte,            \* what a byte can be
    BufferSizes,     \* the sizes callers pass to os_queue_create
    MaxSize,         \* the largest of them
    Sizes            \* the sizes of the messages callers send and receive

Rings == UNION {RingOf(n, Byte) : n \in BufferSizes}
Message == UNION {[1 .. n -> Byte] : n \in Sizes}

\* The local variables of the loops, and what the last turn gave to a reader.
UnlockLoop == [loop : {"unlock"}, can_read : BOOLEAN, can_write : BOOLEAN,
               turn : {"read", "write"}, out : {<<>>} \cup Message]
DeleteLoop == [loop : {"delete"}, out : {<<>>}]

\* A queue without a buffer has no valid index (queue_write asserts).  What is
\* computed from sizes stays below the size of a buffer, so that the width of
\* os_uint_t, UintMod, only matters for the time.
ASSUME QueueAssumption ==
    /\ WaitQ = {q_wait_read, q_wait_write} /\ q_wait_read # q_wait_write
    /\ MaxSize \in Nat \ {0} /\ BufferSizes \subseteq 1 .. MaxSize
    /\ Sizes \subseteq Nat \ {0}
    /\ NULL \notin Rings \cup UnlockLoop \cup DeleteLoop
    /\ IsrCalls \cap {"queue_send", "queue_send_ahead", "queue_receive", "queue_peek"} = {}

VARIABLES
    ring,      \* p_buffer, size, read and write; NULL: no control block
    info,      \* what p_schinfo points to: the request of a blocked thread
    result,    \* the result field a blocked call returns
    wake       \* the variables of the loop that is running

queueVars == <<ring, info, result, wake>>
allVars == <<vars, queueVars>>

\* The requests of readers, flag for peek, and of writers, flag for ahead.
ReadInfo == [size : Sizes, data : {<<>>}, flag : BOOLEAN]
WriteInfo == {[size |-> Len(d), data |-> d, flag |-> f] : d \in Message, f \in BOOLEAN}

QueueTypeOK ==
    /\ TypeOK
    /\ ring \in Rings \cup {NULL}
    /\ info \in [Thread -> ReadInfo \cup WriteInfo \cup {NULL}]
    /\ result \in [Thread -> BOOLEAN]
    /\ wake \in UnlockLoop \cup DeleteLoop \cup {NULL}
    /\ handler = "wake" <=> wake # NULL

QueueInit ==
    /\ Init
    /\ ring = NULL
    /\ info = [t \in Thread |-> NULL]
    /\ result = [t \in Thread |-> FALSE]
    /\ wake = NULL

\* Request and result lie on the stack of the thread that blocks: the request
\* means nothing once p_schinfo is NULL, the result once the call has returned.
DropInfo == info' = [t \in Thread |-> IF p_schinfo'[t] THEN info[t] ELSE NULL]

InCall(t) == (IF t = p_current THEN cpu ELSE ctx[t]) \in {"unload", "resume"}
DropResult == result' = [t \in Thread |-> result[t] /\ InCall(t)']

-----------------------------------------------------------------------------
\* queue_init; the buffer holds whatever was there before.
os_queue_create(c, size) ==
    /\ MayCall(c, "queue_create")
    /\ ring = NULL
    /\ \E b \in Byte :
          ring' = [size |-> size, read |-> 0, write |-> 0,
                   buf |-> [i \in 0 .. (size - 1) |-> b]]
    /\ q_items' = [q_items EXCEPT ![q_wait_read] = <<>>, ![q_wait_write] = <<>>]
    /\ UNCHANGED <<state, item_sch_tag, item_sch_q, delayVars, p_schinfo,
                   timeVars, schVars, info, result, wake>>

\* Leave r in the ring, give out to the caller, and call queue_unlock_threads.
unlock_after(r, out) ==
    /\ ring' = r
    /\ handler' = "wake"
    /\ wake' = [loop |-> "unlock", can_read |-> TRUE, can_write |-> TRUE,
                turn |-> "write", out |-> out]
    /\ UNCHANGED <<state, p_schinfo, itemVars, delayVars, timeVars, p_current,
                   p_next, pending, cpu, ctx, info, result>>

os_queue_reset(c) ==
    /\ MayCall(c, "queue_reset") /\ Started
    /\ ring # NULL
    /\ unlock_after([ring EXCEPT !.read = 0, !.write = 0], <<>>)

os_queue_delete(c) ==
    /\ MayCall(c, "queue_delete") /\ Started
    /\ ring # NULL
    /\ handler' = "wake"
    /\ wake' = [loop |-> "delete", out |-> <<>>]
    /\ UNCHANGED <<state, p_schinfo, itemVars, delayVars, timeVars, p_current,
                   p_next, pending, cpu, ctx, ring, info, result>>

\* Mutant: the result is not initialised.
BlockWithoutInit(q, request, timeout) ==
    /\ info' = [info EXCEPT ![p_current] = request]
    /\ \E r \in BOOLEAN : result' = [result EXCEPT ![p_current] = r]
    /\ thd_block_current(q, TRUE, timeout)
    /\ UNCHANGED <<ring, wake>>

\* Block with a fresh request.
queue_block(q, request, timeout) ==
    /\ info' = [info EXCEPT ![p_current] = request]
    /\ result' = [result EXCEPT ![p_current] = FALSE]
    /\ thd_block_current(q, TRUE, timeout)
    /\ UNCHANGED <<ring, wake>>

write_to_ring(d, ahead) ==
    IF ahead THEN queue_write_ahead(ring, d) ELSE queue_write(ring, d)

send(d, ahead, timeout) ==
    /\ ring # NULL
    /\ \/ /\ queue_get_free_size(ring) >= Len(d)
          /\ unlock_after(write_to_ring(d, ahead), <<>>)
       \/ /\ queue_get_free_size(ring) < Len(d)
          /\ queue_block(q_wait_write, [size |-> Len(d), data |-> d, flag |-> ahead],
                         timeout)

os_queue_send(d, timeout) ==
    /\ MayCall("thread", "queue_send")
    /\ send(d, FALSE, timeout)

os_queue_send_ahead(d, timeout) ==
    /\ MayCall("thread", "queue_send_ahead")
    /\ send(d, TRUE, timeout)

\* The calls that do not wait fail when d does not fit.
send_nb(d, ahead) ==
    /\ Started
    /\ ring # NULL
    /\ queue_get_free_size(ring) >= Len(d)
    /\ unlock_after(write_to_ring(d, ahead), <<>>)

os_queue_send_nb(c, d) ==
    /\ MayCall(c, "queue_send_nb")
    /\ send_nb(d, FALSE)

os_queue_send_ahead_nb(c, d) ==
    /\ MayCall(c, "queue_send_ahead_nb")
    /\ send_nb(d, TRUE)

os_queue_receive(size, timeout) ==
    /\ MayCall("thread", "queue_receive")
    /\ ring # NULL
    /\ \/ /\ queue_get_used_size(ring) >= size
          /\ unlock_after(queue_read(ring, size), queue_peek(ring, size))
       \/ /\ queue_get_used_size(ring) < size
          /\ queue_block(q_wait_read, [size |-> size, data |-> <<>>, flag |-> FALSE],
                         timeout)

os_queue_receive_nb(c, size) ==
    /\ MayCall(c, "queue_receive_nb") /\ Started
    /\ ring # NULL
    /\ queue_get_used_size(ring) >= size
    /\ unlock_after(queue_read(ring, size), queue_peek(ring, size))

\* With enough data there it only reads, and changes nothing.
os_queue_peek(size, timeout) ==
    /\ MayCall("thread", "queue_peek")
    /\ ring # NULL
    /\ queue_get_used_size(ring) < size
    /\ queue_block(q_wait_read, [size |-> size, data |-> <<>>, flag |-> TRUE], timeout)

-----------------------------------------------------------------------------
(* The loop of queue_unlock_threads: writers and readers take turns as long *)
(* as one of them may go on.                                                *)

Unlocking == handler = "wake" /\ wake.loop = "unlock"
WriteTurn == Unlocking /\ wake.can_write /\ (wake.turn = "write" \/ ~wake.can_read)
ReadTurn == Unlocking /\ wake.can_read /\ (wake.turn = "read" \/ ~wake.can_write)

Readers == q_items[q_wait_read]
Writers == q_items[q_wait_write]

WriterFits == Writers # <<>> /\ info[Head(Writers)].size <= queue_get_free_size(ring)
ReaderFits == Readers # <<>> /\ info[Head(Readers)].size <= queue_get_used_size(ring)

\* The first waiter t is served.
serve(t) ==
    /\ result' = [result EXCEPT ![t] = TRUE]
    /\ thd_ready(t)
    /\ q_items' = ReadyItems(t)
    /\ DropInfo
    /\ UNCHANGED <<timeVars, schVars>>

unlock_write ==
    /\ WriteTurn
    /\ WriterFits
    /\ LET w == info[Head(Writers)] IN ring' = write_to_ring(w.data, w.flag)
    /\ wake' = [wake EXCEPT !.can_read = TRUE, !.turn = "read", !.out = <<>>]
    /\ serve(Head(Writers))

unlock_write_stop ==
    /\ WriteTurn
    /\ ~WriterFits
    /\ wake' = [wake EXCEPT !.can_write = FALSE, !.turn = "read", !.out = <<>>]
    /\ UNCHANGED <<vars, ring, info, result>>

\* Mutant: the writers do not get another turn.
ReadEndsWrites ==
    /\ ReadTurn
    /\ ReaderFits
    /\ LET r == info[Head(Readers)]
       IN  /\ ring' = IF r.flag THEN ring ELSE queue_read(ring, r.size)
           /\ wake' = [wake EXCEPT !.turn = "write", !.out = queue_peek(ring, r.size)]
    /\ serve(Head(Readers))

\* Mutant: a reader that peeks takes its data away.
ReadTakesAlways ==
    /\ ReadTurn
    /\ ReaderFits
    /\ LET r == info[Head(Readers)]
       IN  /\ ring' = queue_read(ring, r.size)
           /\ wake' = [wake EXCEPT !.can_write = TRUE, !.turn = "write",
                                   !.out = queue_peek(ring, r.size)]
    /\ serve(Head(Readers))

unlock_read ==
    /\ ReadTurn
    /\ ReaderFits
    /\ LET r == info[Head(Readers)]
       IN  /\ ring' = IF r.flag THEN ring ELSE queue_read(ring, r.size)
           /\ wake' = [wake EXCEPT !.can_write = TRUE, !.turn = "write",
                                   !.out = queue_peek(ring, r.size)]
    /\ serve(Head(Readers))

unlock_read_stop ==
    /\ ReadTurn
    /\ ~ReaderFits
    /\ wake' = [wake EXCEPT !.can_read = FALSE, !.turn = "write", !.out = <<>>]
    /\ UNCHANGED <<vars, ring, info, result>>

\* Both loops end with a reschedule request.
leave_loop ==
    /\ sch_reschedule_req(q_items, item_sch_tag)
    /\ handler' = "none"
    /\ wake' = NULL
    /\ UNCHANGED <<state, item_sch_tag, item_sch_q, delayVars, p_schinfo, timeVars,
                   p_current, cpu, ctx, info, result>>

unlock_done ==
    /\ Unlocking
    /\ ~wake.can_read /\ ~wake.can_write
    /\ UNCHANGED ring
    /\ leave_loop

\* The loops of queue_delete_static: first the readers, then the writers, fail.
delete_iterate ==
    /\ handler = "wake" /\ wake.loop = "delete"
    /\ LET s == IF Readers # <<>> THEN Readers ELSE Writers
       IN  /\ s # <<>>
           /\ thd_ready(Head(s))
           /\ q_items' = ReadyItems(Head(s))
    /\ DropInfo
    /\ UNCHANGED <<timeVars, schVars, ring, result, wake>>

delete_done ==
    /\ handler = "wake" /\ wake.loop = "delete"
    /\ Readers = <<>> /\ Writers = <<>>
    /\ ring' = NULL
    /\ leave_loop

-----------------------------------------------------------------------------
QueueCallNext ==
    \/ \E c \in Context :
          \/ \E size \in BufferSizes : os_queue_create(c, size)
          \/ os_queue_reset(c)
          \/ os_queue_delete(c)
          \/ \E d \in Message : os_queue_send_nb(c, d) \/ os_queue_send_ahead_nb(c, d)
          \/ \E size \in Sizes : os_queue_receive_nb(c, size)
    \/ \E timeout \in Timeouts \cup {0} :
          \/ \E d \in Message :
                os_queue_send(d, timeout) \/ os_queue_send_ahead(d, timeout)
          \/ \E size \in Sizes : os_queue_receive(size, timeout) \/ os_queue_peek(size, timeout)

QueueLoopNext ==
    \/ unlock_write \/ unlock_write_stop
    \/ unlock_read \/ unlock_read_stop
    \/ unlock_done
    \/ delete_iterate \/ delete_done

QueueNext ==
    \/ Next /\ DropInfo /\ DropResult /\ UNCHANGED <<ring, wake>>
    \/ QueueCallNext
    \/ QueueLoopNext

QueueSpec == QueueInit /\ [][QueueNext]_allVars

-----------------------------------------------------------------------------
(* Properties *)

Bytes == IF ring = NULL THEN <<>> ELSE Contents(ring)

F == INSTANCE Fifo WITH
        Capacity <- MaxSize - 1,
        contents <- Bytes,
        out <- IF wake = NULL THEN <<>> ELSE wake.out

\* The queue is a sequence of bytes, whichever way the ring wraps around:
\* messages of running and of blocked senders enter whole and in order, or
\* ahead of all others, and readers get exactly the first bytes (queue_write,
\* queue_write_ahead, queue_read, queue_peek, queue_unlock_threads).
QueueIsFifo == F!FifoSpec

\* A queued waiter is blocked in the wait queue of its kind with a request that
\* queue_unlock_threads may dereference, and has not been told of a success.
RequestsValid ==
    \A q \in WaitQ : \A t \in Range(q_items[q]) :
        /\ ring # NULL
        /\ state[t] = "BLOCKED" /\ p_schinfo[t] /\ ~result[t]
        /\ info[t] \in IF q = q_wait_read THEN ReadInfo ELSE WriteInfo

\* A waiter sleeps although its request could be served at once.
FitSleeps == ring # NULL /\ handler # "wake" /\ (WriterFits \/ ReaderFits)

Waits(t) == item_sch_q[t] \in WaitQ

\* No call leaves the first waiter asleep with a request that fits: that only
\* comes about when a waiter in front leaves without a transfer or is given a
\* priority, after which queue_unlock_threads does not run.
FitOnlyByDeparture ==
    [][~FitSleeps /\ FitSleeps' =>
          \E t \in Thread :
             /\ Waits(t)
             /\ \/ ~Waits(t)' /\ ~result'[t]
                \/ \E c \in Context, prio \in Prio : os_thread_set_priority(c, t, prio)]_allVars

\* A blocked call returns a success exactly if its bytes were transferred: who
\* leaves by a timeout, a resume, a suspension or the deletion of the queue
\* finds the contents untouched and fails.
TransferOutcome ==
    [][\A t \in Thread :
          Waits(t) /\ ~Waits(t)' =>
             LET moved == IF ~result'[t] THEN 0
                          ELSE IF item_sch_q[t] = q_wait_write THEN info[t].size
                          ELSE IF info[t].flag THEN 0
                          ELSE 0 - info[t].size
             IN  /\ Len(Bytes') = Len(Bytes) + moved
                 /\ result'[t] => t = Head(q_items[item_sch_q[t]])]_allVars

\* A waiter whose request fits is served: it does not sleep until the next call
\* for the queue, "until the resource becomes available".
NoSleepOnFit == ~FitSleeps
=============================================================================
