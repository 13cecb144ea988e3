# Verification of mRTOS

TLA+ models of [mRTOS](../src/README.md), a fixed-priority preemptive kernel for
single-core microcontrollers, with TLC runs and TLAPS proofs. `PROJECT.json` maps
every definition to the lines it models and lists the runs, the mutants that show
what each property notices, the findings, the hazards and the theorems.

## The system

| component | state | operations | interacts with |
|---|---|---|---|
| scheduler and threads (`thread.c`, parts of `global.c`) | `p_current`, `p_next`, one ready queue per priority, two delay queues and their roles, `timestamp`; per thread `state`, `item_sch`, `item_delay`, `p_schinfo` | create, delete, return from a thread, yield, delay, suspend, resume, set priority, heartbeat, start | the port's context switcher; every resource blocks and readies threads through `thd_block_current` and `thd_ready` |
| interrupt lock (`sch_lock_int`, `sch_unlock_int`, `util.c`, critical sections of `global.c`) | `lock_depth`, the CPU's interrupt mask | lock, unlock, the preemption point of `sch_unload_current` | makes every API function one step |
| semaphores (`semaphore.c`) | `counter`, `q_wait`; `result` and `wait_flag` on the waiter's stack | create, delete, reset, post, wait, peek, non-blocking wait | scheduler |
| mutexes (`mutex.c`) | `lock_depth`, `p_owner`, `q_wait` | create, delete, lock, unlock, peek, non-blocking lock | scheduler |
| message queues (`queue.c`) | ring buffer (`p_buffer`, `size`, `read`, `write`), two wait queues; request and `result` on the waiter's stack | create, delete, reset, send, send ahead, receive, peek, each waiting or not; `queue_unlock_threads` after every transfer | scheduler, memory |
| memory pool (`memory.c`) | free blocks in address order, `p_alloc_head`, a list of blocks for each thread and one for the kernel | allocate (next fit, split), free (insert, merge), release at the end of a thread | creation and deletion of everything else |
| lists (`list.c`) | `p_prev`, `p_next` | initialise, prepend, remove (no code calls `lstitem_append`) | queues, memory |
| portable layer | outside the repository | context switcher, interrupt mask, heartbeat timer | everything |

What makes it hard:

* `sch_unload_current` enables interrupts *before* it requests the context switch.
  In that window the current thread has blocked and is still loaded; the heartbeat
  and interrupt service routines call the kernel meanwhile.
* Choosing a thread (`p_next`) and loading it (the lowest-priority interrupt) are two
  steps; whatever happens in between may make the choice stale.
* Times are `os_uint_t` and wrap; two delay queues change roles when they do.
* A waiting thread has many ways out (token, timeout, resume, suspension, deletion,
  end of the resource), each of which must undo the same bookkeeping.
* A thread that deletes itself frees the control block and the stack it runs on.
* A transfer through a message queue may let a waiter of the other kind go on, whose
  transfer lets one of the first kind go on, and so forth; a waiter in front that does
  not fit holds back those behind it.
* The pool is shaped by every creation, deletion and failure there has been; one list
  that is out of order, or one header that is wrong, shows much later.

## Modules

| module | models |
|---|---|
| `Scheduler` | `thread.c`, and `os_init`, `os_start`, `os_handle_heartbeat` |
| `Semaphore` (extends `Scheduler`) | `semaphore.c` |
| `Counting` | what semaphores promise: tokens that every call adds, hands out or takes at once; `Semaphore` implements it |
| `Mutex` (extends `Scheduler`) | `mutex.c` |
| `Locking` | what recursive mutexes promise: a last unlock hands the mutex over at once; `Mutex` implements it |
| `Ring` | the ring buffer of `queue.c`, as operators on a record |
| `MsgQueue` (extends `Scheduler`, `Ring`) | the rest of `queue.c` |
| `Fifo` | what a message queue promises: a bounded sequence of bytes; `MsgQueue` implements it |
| `List` | `list.c`, as operators on a record of pointers |
| `Memory` (extends `List`) | `memory.c`, and what the other components take from the pool and give back |
| `IntLock` | the interrupt lock, at the grain of single memory accesses |
| `MCScheduler`, `MCSemaphore`, `MCMutex`, `MCMsgQueue`, `MCMemory` | constants and symmetry for TLC |
| `QueueLemmas`, `SchedulerProofs`, `SemaphoreProofs`, `MutexProofs`, `RingProofs`, `MsgQueueProofs`, `IntLockProofs`, `MemoryProofs` | proofs |

### Correspondence

*Queues.* A circular list with a head pointer is the sequence of its items from the
head. `sch_qitem_enq_fifo` appends, moving the head pointer on is `Rotate`.
`q_items` holds the queues of `item_sch` items: the ready queues, named by their
priority, and the wait queues, named by a member of `WaitQ`. `item_sch_q` and
`item_delay_q` are the `p_q` pointers of the items, kept separately from the
sequences as they are in the code.

*Atomicity.* An API function runs between `UTIL_LOCK_EVERYTHING` and
`UTIL_UNLOCK_EVERYTHING` and is one action; `IntLock` is about whether that is
justified (it is, as long as critical sections are not nested). A function that readies threads in a
loop takes one action per iteration; `handler` names the running loop and disables
everything else.

*The context switch.* `pending` is the request made by `OSPORT_CONTEXTSW_REQ`.
`cpu` is where the loaded code stands and `ctx` where the saved threads stand: `run`
(application code), `unload` (in the window), `resume` (behind the request), and
`exit`, `gone` for a thread that has deleted itself. `context_switch` saves `cpu` in
`ctx[p_current]`, also if that control block has been given to another thread. A
thread executes nothing while a request is pending and interrupts are enabled: the
port's switcher runs first.

*Assertions.* An `UTIL_ASSERT` about arguments is a guard. The assertions the
scheduler makes about itself (the normal delay queue is empty at a wrap; a thread
that returns from `sch_unload_current` is ready; a deleted thread does not come back)
set `handler` to `breakpoint`, which stops the model as `OSPORT_BREAKPOINT` stops the
system. They are checked in builds with `OSPORT_ENABLE_DEBUG`; in other builds the
code goes on in the state that the assertion excludes. `Scheduler` also treats the
return of a thread that called `os_thread_delete(0)` itself, where the code has no
assertion, as a stop.

*Callers.* `main` before `os_start`, the loaded thread, or an interrupt service
routine, whenever interrupts are enabled. `Calls` and `IsrCalls` say which functions
they use, so that a run can ask what holds for a given use of the API. Threads make no
calls on the idle thread, and interrupts pass explicit handles.

*Allocation.* In the modules on top of `Scheduler`, an allocation is the choice of an
address that is free (`state = "FREE"`, `~sem_live`, `~mutex_live`, `ring = NULL`), so a
control block can be used again at once, as the next-fit pool allows. Running out of
memory changes no other state there. `Memory` is about the pool itself.

*The ring.* The loops of `queue_write`, `queue_write_ahead` and `queue_read` copy byte by
byte and are given by what the whole loop does (`Copied`, `Behind`, `Wrap`). One byte of
the buffer stays free: that is how the code tells a full ring from an empty one.

*Message queues.* There is one queue. `os_queue_send`, `os_queue_receive` and the others
either transfer and start the loop of `queue_unlock_threads`, or block. A turn of the loop
is an action: `unlock_write` and `unlock_read` serve the first waiter, the `_stop` actions
find that it does not fit, `unlock_done` reschedules. `wake` holds the loop's variables
(`can_read`, `can_write`, whose turn it is) and, as a ghost, the bytes handed out in the
last step. `queue_delete_static` is a loop of its own. `info` is what `p_schinfo` points
to; it is dropped when `p_schinfo` is `NULL`, and `result` when the call has returned,
since both are on a stack that goes on. `os_queue_peek_nb` and the functions that return a
size only read. Bytes are members of a set; what is computed from sizes stays
below the buffer size, and `UintMod` is only about time.

*Lists and the pool.* A heap is a record of `p_prev`, `p_next`, the block sizes and owners,
the heads and the allocation head, so that a function that calls others is a composition
of operators; everything runs with interrupts disabled, and an API function is one action. An address
is the offset of a block header in the pool. `Circle` follows `p_next`, as the loops of
the code do. `release` gives back the blocks of a thread one by one *without* merging, as
`thd_delete_static` does. The size of a request plus its header wraps with `UintMod`
(`mblk_size`). `kind` and `part` are what the owners of the blocks know: what a block is used
for, and the second block of a thread or a queue. A buffer that `os_queue_delete` forgets is
`"lost"`.

*Results.* In `Semaphore`, `result` and `wait_peek` are the fields of the
`sem_schinfo_t` on the waiter's stack. In `Mutex` the ghost variable `held` counts the
locks that were reported to a thread as successful and that it has not undone: what
the threads believe, against what the control block says.

*Abstract semaphores and mutexes.* `sem_reset` and the loop in `os_mutex_unlock` wake their
waiters one by one, with interrupts disabled. The refinement mappings show the resource
as it will be when the loop ends: `TokensKept`, `Waiting` and `Passed` of `Semaphore` count
the waiters that the loop's tokens reach (`Reached`) as served, and `Owner`, `Depth` and
`Waiting` of `Mutex` name the first waiter that does not peek as the owner (`Wanting`,
`Served`). So the call itself is the abstract step and the turns of the loop are stutters. Waiters
that leave by a timeout, a resume, a suspension or a deletion are `GiveUp`, which may
change priorities as well, and never tokens, owners or depths.

Left out of the modules above: functions that only read; interrupts nested in the window of an
interrupt service routine that itself called `sch_unload_current` (the request is made
in the same step); heartbeats before `os_start` (the port starts the timer with the
system, see "How to port" in the repository's README).

## Runs

Bounds of the runs on top of `Scheduler`: two or three application threads and the idle
thread, two or three priorities, `UintMod` 2 to 4 (time stamps of a few ticks), timeouts up to
`UintMod - 1`. Two threads are
enough for each to interrupt the other's window and for one to wait for the other;
the third one is there where the order of queue items matters. Such a time stamp
wraps every few ticks, so that every combination of two sleeping threads and a wrap is
reached; nothing in the code depends on the width except through the wrap. Deadlock is
checked in every run.

| run | shows |
|---|---|
| `scheduler_queues` | every call by threads, `resume` and `set_priority` by interrupts: queues and states agree (`QueueOwnership`, `ThreadStateInv`), no self-assertion fails (`NoBreakpoint`), only ready threads run (`RunningReady`), the delay queues stay in order (`DelayOrder`), a delay of n ticks ends at the n-th heartbeat (`TimeoutExact`) |
| `scheduler_preempt` | the calls that reschedule, made by threads: `RunsHighest`, and under fairness `DelayEnds` and `SharesCpu` |
| `semaphore_wait` | no lost wake-up (`NoSleepOnTokens`), a wait succeeds exactly with a token (`WaitOutcome`), the result pointer is valid (`WaiterInfo`); posts, resets, deletion of the semaphore and resumes by interrupts, counters that wrap; the semaphore implements `Counting` (`SemaphoreCounts`) |
| `mutex_locks` | the depth counts what was granted (`DepthCounts`), no lost wake-up and no self-deadlock (`NoSleepOnFree`) |
| `mutex_passes` | three threads, deletion of owners and waiters and reuse of their control blocks: `MutexExclusive`; the mutex goes to the most important waiter that wants it (`PassedToHighest`); the mutex implements `Locking` (`MutexLocks`) |
| `intlock` | `CriticalExclusive`, `LockBalanced` without nesting, and the inductive invariant `LockInv` |
| `msgqueue_fifo` | the queue implements `Fifo` (`QueueIsFifo`); a queued waiter has a request that may be served (`RequestsValid`); a request that fits is left asleep only by a waiter in front that leaves (`FitOnlyByDeparture`); a blocked call succeeds exactly if its bytes have moved (`TransferOutcome`) |
| `memory_pool` | lists are linked and ordered (`ListsSound`), blocks tile the pool (`BlocksTile`), every block is in the list of who uses it (`ListsHoldUses`), next fit finds a block if there is one (`AllocFindsFit`), only the end of a thread leaves free neighbours (`OnlyDeletionFragments`) |

`msgqueue_fifo`: a buffer of 3 bytes holds 2, and messages have 1 or 2, so that a message
can fit beside another one, fill the ring, or have to wait, and both indices wrap at every place;
two values of a byte tell a wrong order from a right one. There are no timeouts in this
run: a waiter leaves without a transfer when an interrupt resumes it, through the same
`thd_ready`; timeouts of waits are in `semaphore_wait` and in `queue_stuck`.

`semaphore_wait` has one priority for its application threads: that tokens go to the waiters in
the order of their priorities, a part of `SemaphoreCounts`, is shown by the proof only. `mutex_passes` has two priorities
for its threads and changes them while they wait.

`memory_pool`: blocks have at least 4 bytes and the pool 20, so that up to five lie in it
and one can be freed between, before and behind others; the requests and the control
blocks give blocks of 4 and 6 bytes, so that some are split with and some without a rest,
and an allocation that needs two blocks can fail at the first, at the second, or not at
all. Sizes stay below the width (`UintMod` 32); the wrap of a request is not reached.

Which calls interrupts make is bounded in `scheduler_queues`, because others fail assertions
or leave the choice stale (below). That types, queues, thread states and the delay queues
stay right for *every* set of calls by threads and interrupts is proved.

Runs that end in a violation, each a disagreement of the code with its documentation
(details under `findings`):

| run | the code |
|---|---|
| `isr_delete` | loads a deleted thread: `p_next` is stale when an interrupt deletes the thread it points to |
| `isr_create` | leaves a lower-priority thread chosen, because `sch_reschedule_req` compares with the thread that is leaving |
| `lock_nested` | ends the outer critical section when a nested one ends |
| `queue_stuck` | leaves a reader asleep whose bytes are there, when the reader in front of it times out |

Disagreements and oddities without a run of their own (those about threads show as
violations of `NoBreakpoint` or `RunsHighest` when `Calls` and `IsrCalls` allow them):

* `os_thread_delete` of the caller itself frees the control block before the window of
  `sch_unload_current`; if an interrupt creates a thread there, the context switcher
  saves the deleted thread into the new one, which goes on behind "Should not come back
  here" (`thread.c:1023`).
* `os_thread_suspend` of the current thread by an interrupt, and `os_thread_yield` by an
  interrupt in the window, fail their own assertion (`thread.c:1195`, `1044`), although
  both are documented for interrupts.
* `os_thread_resume` moves a ready thread to the end of its queue; its comment says it
  has no effect (`thread.c:1208`). It never reschedules, so a resumed thread of higher
  priority does not preempt (the repository's README, line 6, says it always does).
* `os_semaphore_post` at the largest counter wraps it to zero and all tokens are lost
  (`semaphore.c:273`).
* A deleted thread's memory is not merged (`thread.c:844`, `991`), so an allocation may
  fail although enough adjacent memory is free; `OnlyDeletionFragments` says that nothing
  else has this effect.
* `os_queue_create` allocates the size of a pointer for the control block
  (`queue.c:444`); when its buffer cannot be allocated it returns the handle it has just
  freed (`queue.c:451`-`457`); `os_queue_delete` does not free the buffer (`queue.c:477`).
* A message as large as the buffer never fits, and its sender waits for ever.
  `os_queue_create(0)` makes the free size wrap.
* A request close to the largest `os_uint_t` wraps when the header is added and gets a
  small block (`memory.c:464`).

### Fairness

`FairSpec` assumes that the heartbeat timer keeps running (weak fairness of
`heartbeat_tick`; the port must call `os_handle_heartbeat` periodically), that an
interrupt service routine in progress ends (weak fairness of the eviction loop), and
that code which is again and again able to go on, between interrupts, does so (strong
fairness of the request, the switch and the return: interrupts suspend them for a while
only). Application threads are under no obligation. `SharesCpu` has two more premises in
its statement: from some time on the threads only compute, and a context switch
completes within a heartbeat period. Without them a heartbeat, or a yielding thread, that
falls into the window at every opportunity can turn the rotation against one thread for
ever; the README's sentence on sharing is about threads that compete for CPU time.

## Proofs

`SchedulerProofs`, for any set of threads, static threads and wait queues, any number of
priorities and any width:

* `TypeCorrect`: `Spec => []TypeOK`
* `Ownership`: `Spec => []QueueOwnership`
* `ThreadStates`: `Spec => []ThreadStateInv`
* `DelaysOrdered`: `Spec => []DelayOrder`
* `DelaysExact`: `Spec => TimeoutExact`
* `NoFailedAssertion`: `Spec => []NoBreakpoint`, and `RunnerReady`: `Spec => []RunningReady`,
  if `IsrsSpareThreads`
* `HighestRuns`: `Spec => []RunsHighest`, if `OnlyPreemptingCalls`

The first three rest on one inductive invariant `Inv`. None of them is inductive alone. That
removing an item leaves the queues right needs ownership (the item *is* in the queue
its pointer names); that choosing the next thread is defined needs a non-empty ready
queue, hence that the idle thread is ready at the lowest priority (`IdleInv`), hence
ownership and the thread states; that a call acts on a thread needs that a thread has
been chosen once the kernel runs (`StartInv`). One lemma per action shows that it keeps
`Inv`; `QueueLemmas` has the facts on appending, inserting, removing and rotating
sequences without repetition. Assumptions: `SchedulerAssumption` (the idle thread
exists, at least two priorities, timeouts below the width) and `NamesAssumption` (names
of queues are distinct).

`DelayOrder` is inductive together with `Inv`: `enq_prio` puts a thread behind those due
no later, so a queue stays sorted by tag; the queue a delay goes to is decided by whether
its end wraps; and at a wrap the normal queue is empty, because all that was in it was due
and has been evicted, so the overflow queue, all of whose tags are ahead of time zero,
can take its place. `DelaysExact` turns this into ticks: `TicksLeft` of a sleeper counts
down by one with each heartbeat, and the eviction loop, which looks at the head only, stops
exactly when nobody has zero left.

`NoFailedAssertion` and `RunnerReady` need `SwitchInv`, which says how `p_next`,
`p_current`, the code points and a pending request go together between the choice of a
thread and its loading. It holds for the interrupts that `IsrsSpareThreads` admits: they
make no call that takes a thread out of the ready queues (delete, suspend, yield), and
where threads may delete themselves they create none. The condition is
needed: with the calls it excludes the assertions do fail (run `isr_delete`, and the list
above). `HighestRuns` adds `TopInv`: no ready thread has a higher priority than `p_next`.
`OnlyPreemptingCalls` also excludes creation by interrupts (run `isr_create`) and the two calls
that do not reschedule, `os_thread_resume` and `os_thread_set_priority`. The runs
`scheduler_queues` and `scheduler_preempt` satisfy these conditions.

The modules on resources build on `SchedulerProofs`: a step of theirs is a step of the
scheduler's operators (`ReadyStep`, `BlockStep`, `RescheduleReq`), so each proves `Inv`
again together with what it adds. What they need of every other step of the scheduler is
one fact, `KeepsWaiters`: whoever is in a wait queue afterwards was in it before, with the
same scheduling information (`NextKeeps`). Each is for any number of threads and
resources, any choice of `Calls` and `IsrCalls`, any width.

* `SemaphoreProofs`: `SemTypeCorrect`, `NoLostWakeup` (`NoSleepOnTokens`) and
  `WaitersInformed` (`WaiterInfo`). `SemInv` adds what holds of every waiter: its
  semaphore exists, has no token unless a loop is serving it, and has told it nothing yet.
  `WaitsSettled`, the action property `WaitOutcome`, follows step by step: a step in which a
  waiter leaves its queue is a turn of `sem_reset`, and then it is the head and a token goes
  with it unless it peeks, or it writes no result.
  `ImplementsCounting`, `SemSpec => SemaphoreCounts`: every step is a step of `Counting` or a
  stutter. It adds that wait queues are sorted by priority (`WaitersByPriority`). With n tokens
  the loop serves a first part of the queue (`ReachedPart`), so nobody behind is more important, and
  either all tokens are taken or nobody is left. After a turn the tokens that are left reach
  exactly the others of that part (`ReachedTail`), which makes the turn a stutter.
* `MutexProofs`: `MutexTypeCorrect`, `MutualExclusion` (`MutexExclusive`) and
  `NoLostWakeup` (`NoSleepOnFree`), with owners and waiters that time out, are resumed,
  suspended or deleted, and whose control blocks are used again. Exclusion needs that a
  thread in a wait queue does not execute its own code (`AsleepOffCpu`, proved in
  `SchedulerProofs` from the code points): otherwise the lock could be granted to a caller
  that still stands in a wait queue and would be granted another one there.
  `PassesToHighest` (`PassedToHighest`) adds `PassInv`: wait queues are sorted by priority
  (`WaitersByPriority`, kept by every insertion and by a change of priority, which
  inserts the item again) and a mutex is at depth zero exactly if it has no owner. The loop skips waiters that peek, and
  the first that does not peek in a sorted queue is one of the most important.
  `DepthsCount` (`DepthCounts`) adds `CountInv`: outside the loops the depth is the number of locks
  granted to the owner. It is stated for systems in which no thread is deleted
  (`NothingDeleted`, as in the run `mutex_locks`): the code does not release the mutexes of a deleted
  thread, and a new thread in its control block is an owner that was granted nothing.
  `ImplementsLocking`, `MutexSpec => MutexLocks`, rests on the same invariant: the new owner is known
  when the loop begins (`FirstIsHighest`), a turn that readies one who peeks does not change
  it (`WantingTail`), and a thread is made to wait only for a mutex that somebody else owns.
* `MsgQueueProofs`: `QueueTypeCorrect`, `RequestsSound` (`RequestsValid`), and
  `ImplementsFifo`, `QueueSpec => QueueIsFifo`: every step of the queue, the calls, the
  turns of its loops and whatever the scheduler does in between, is a step of `Fifo` or a
  stutter. `QueueInv` says that a waiter's request is there and of the right kind, which
  is what a turn of the loop hands to the ring; the data half is `RingProofs`, below.
  `TransfersSettled` (`TransferOutcome`) follows from `QueueInv` action by action.
  `SleepsFitByDeparture` (`FitOnlyByDeparture`) adds `TurnInv`: when the loop has noted that
  it cannot write, or cannot read, the first waiter of that side does not fit, and stays so until
  a transfer of the other side, which makes the note void.

They assume that the parameters have the ranges the code gives them
(`SemaphoreAssumption`, `MutexAssumption`, `QueueAssumption`), that interrupts make no
call that waits, and that `NULL` is none of the values it is used in place of. `MaxSize`
of `MsgQueue` only gives `Fifo` its capacity.

`IntLockProofs`, for any number of threads and interrupts:

* `TypeCorrect`, for any nesting;
* if critical sections are not nested (`MaxNest = 1`): `LockInvariant`, `Spec => []LockInv`;
  `Exclusion`, `Spec => []CriticalExclusive`; `Balance`, `Spec => []LockBalanced`.
  `LockInv` is inductive together with the types. It says where a context that is not on
  the CPU can stand, and that the depth it read before it was preempted is still right
  when it goes on; without it, exclusion says nothing about who is about to write a stale depth.

`RingProofs`, for any size of the buffer, any bytes and any valid indices (`r \in
RingOf(n)`, `n >= 1`), messages that fit and requests that are there:

* `UsedFree`: used and free bytes add up to the size less one;
* `WriteAppends`: `Contents` after `queue_write` is `Contents \o d`;
* `AheadPrepends`: after `queue_write_ahead` it is `d \o Contents`;
* `ReadTakes`: `queue_peek` gives the first bytes and `queue_read` leaves the others.

They are the data half of `ImplementsFifo`: each step of `Fifo` uses one of them. The
argument turns every index into its distance behind the read index: `Behind` and `Wrap`
undo each other, so bytes written at distances `used .. used + Len(d) - 1` are disjoint
from the contents and are read back in order, wherever the buffer ends.

`MemoryProofs`, for any pool size, alignment, sizes of headers and control blocks, set of
requests, threads and order of calls:

* `MemTypes`: `MemSpec => []MemTypeOK`
* `ListsSoundAlways`: `MemSpec => []ListsSound`
* `BlocksAlwaysTile`: `MemSpec => []BlocksTile`
* `ListsHoldExactlyUses`: `MemSpec => []ListsHoldUses`
* `AllocAlwaysFindsFit`: `MemSpec => []AllocFindsFit`, if no request wraps around when
  its header is added (`NoWrap`; the code does not prevent it, see the last oddity above)
* `DeletionAloneFragments`: `MemSpec => OnlyDeletionFragments`

All rest on `PoolInvariant`, `MemSpec => []MemInv`. The invariant does not speak of what a
loop over `p_next` sees but of what it should see: there *is* a sequence of different
blocks, in ascending order, whose neighbours are linked both ways, with `head` as its first
item (`ListAt`, `Increasing`), and one for each memory list. Insertion and removal are
then proved once for such a chain (`ChainInsert`, `ChainRemove`), with the fact that they
touch no link outside it, which keeps the other lists. `FollowChain` goes the other way:
the n-th pointer from the head leads to the n-th item, by induction over n, so `Circle` is
that sequence (`ItemsOf`).

No operation of the pool keeps the invariant by itself: `mpool_remove` leaves a block that is
in no list, `mpool_insert` takes one, and `mpool_split` makes one. `Whole(h, F, D)` is
the statement in between: the blocks `F` are free, those in `D` in no list, and both tile
the pool together with the blocks in use (`Tiles`). `Split`, `Absorb`, `Merge`, `Alloc`
and `Freed` follow the code from one such state to the next. A
sum of sizes stays an address because every size is a multiple of the alignment
(`TileSizes`, `AlignUp`). The loop of `release` is a recursive function; `ReleaseEmpties`
counts its rounds against the length of the list. `UsesOK` is about the owners:
a thread and its stack, a queue and its buffer belong to each other alone, so a deletion
gives back blocks that are in use and that no one else remembers. For fragments, a
merge is shown to leave no more pairs of free neighbours than there were without the freed block:
a free block right behind another one is the next one of the pool (`NextIsBehind`), so
the two comparisons of `mpool_merge` miss no neighbour.

Assumptions: `MemoryAssumption` (what `os_init` asserts of the pool, and a width that is a
multiple of the alignment) and `MemoryNamesAssumption` (threads in static memory
and the kernel's list are not addresses of the pool).

Every invariant and action property that a run checks is proved. Only model-checked:
liveness under fairness (`DelayEnds`, `SharesCpu`), which like `ENABLED` is outside the
prover's reach, and whether the system can deadlock.

## Not modelled

* The portable layer (context switcher, interrupt mask, timer) is not in the repository;
  it is modelled as the code uses it, inside `Scheduler` and `IntLock`.
* Initialisation of stacks (`osport_init_stack`), the arguments of thread functions,
  and the functions that only read (`os_thread_get_*`, `os_memory_get_*`, `os_queue_get_*`,
  `*_is_locked`, `os_get_time`). `os_memory_get_thread_info` reads `p_current` before it
  locks, which changes no state.
* Application code that writes outside its memory or passes a handle that is no longer
  valid: the code checks neither.

## Plan

Liveness of waits with timeouts, of semaphores, mutexes and message queues, in runs with
fairness: a wait with a timeout returns.
