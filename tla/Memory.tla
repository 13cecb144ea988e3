-------------------------------- MODULE Memory --------------------------------
(***************************************************************************)
(* The dynamic memory pool, source/memory.c, and the functions of          *)
(* thread.c, semaphore.c, mutex.c and queue.c that take memory from it and *)
(* give it back.                                                           *)
(*                                                                         *)
(* An address is that of a block header, in bytes from the beginning of    *)
(* the pool; the pointer an application gets is a header further on.  The  *)
(* heap is a record, so that a function that calls several others is the   *)
(* composition of operators.  Everything here runs with interrupts         *)
(* disabled: a function of the API is one action.                          *)
(***************************************************************************)
EXTENDS List, FiniteSets

CONSTANTS
    NULL,
    g_mlst,           \* the list of the kernel's own blocks
    StaticThread,     \* threads in static memory that allocate
    PoolSize,         \* os_config_t.pool_size
    MemAlign,         \* OSPORT_MEM_ALIGN
    MemSmallest,      \* OSPORT_MEM_SMALLEST
    MblkSize,         \* sizeof(mblk_t)
    ThdSize,          \* sizeof(thd_cblk_t)
    ObjSize,          \* sizeof(sem_cblk_t), sizeof(mutex_cblk_t)
    PtrSize,          \* sizeof(queue_cblk_t*)
    UintMod,          \* 2^w for the w bits of os_uint_t
    Requests          \* the sizes callers ask for

MPOOL_ALIGN(val) ==
    IF (val % MemAlign) # 0 THEN val + MemAlign - (val % MemAlign) ELSE val

MBLK_HEADER_SIZE == MPOOL_ALIGN(MblkSize)
MBLK_SMALLEST_SIZE == MPOOL_ALIGN(MBLK_HEADER_SIZE + MemSmallest)

\* os_init asserts an aligned pool that holds a block (mblk_init).
ASSUME MemoryAssumption ==
    /\ MemAlign \in Nat \ {0} /\ MblkSize \in Nat \ {0} /\ MemSmallest \in Nat \ {0}
    /\ PoolSize \in Nat /\ (PoolSize % MemAlign) = 0 /\ PoolSize >= MBLK_SMALLEST_SIZE
    /\ UintMod \in Nat /\ (UintMod % MemAlign) = 0 /\ PoolSize < UintMod
    /\ {ThdSize, ObjSize, PtrSize} \cup Requests \subseteq 1 .. (UintMod - 1)

Addr == {a \in 0 .. (PoolSize - 1) : (a % MemAlign) = 0}

\* A memory list is named by its thread, a dynamic one by its control block.
Mlst == Addr \cup StaticThread \cup {g_mlst}

\* A static control block does not lie in the pool.
ASSUME MemoryNamesAssumption ==
    /\ NULL \notin Mlst
    /\ g_mlst \notin Addr \cup StaticThread
    /\ Addr \cap StaticThread = {}

VARIABLES
    heap,      \* the pool, the lists and the headers of all blocks
    kind,      \* what a block is used for
    part,      \* p_stack of a thread, p_buffer of a queue, by its control block
    statics    \* the static threads that have been created

memVars == <<heap, kind, part, statics>>

Kind == {"none", "memory", "thread", "stack", "object", "queue", "buffer", "lost"}

-----------------------------------------------------------------------------
(* Memory lists: the blocks of one thread, or of the kernel *)

mlst_init(h, l) == [h EXCEPT !.mlst[l] = NULL]

mlst_insert(h, b, l) ==
    LET g == [h EXCEPT !.p_mlst[b] = l]
    IN  IF h.mlst[l] = NULL
        THEN [g EXCEPT !.mlst[l] = b]
        ELSE lstitem_prepend(g, b, h.mlst[l])

mlst_remove(h, b) ==
    LET l == h.p_mlst[b]
        g == [h EXCEPT !.p_mlst[b] = NULL]
    IN  IF h.next[b] = b
        THEN [g EXCEPT !.mlst[l] = NULL]
        ELSE lstitem_remove([g EXCEPT !.mlst[l] = IF b = @ THEN h.next[b] ELSE @], b)

-----------------------------------------------------------------------------
(* The pool: the free blocks, by address *)

Circle(h, b) == IF b = NULL THEN <<>> ELSE Items(h, b, Cardinality(Addr))

mpool_init(h) == [h EXCEPT !.head = NULL, !.alloc_head = NULL]

mblk_init(h, b, size) ==
    [lstitem_init(h, b) EXCEPT !.size[b] = size, !.p_mlst[b] = NULL]

\* Mutant: the block becomes the last one wherever it lies.
InsertLast(h, b) ==
    IF h.head = NULL
    THEN [h EXCEPT !.head = b, !.alloc_head = b]
    ELSE lstitem_prepend(h, b, h.head)

\* Insert b before the first block with a larger address.
mpool_insert(h, b) ==
    IF h.head = NULL
    THEN [h EXCEPT !.head = b, !.alloc_head = b]
    ELSE IF b < h.head
    THEN [lstitem_prepend(h, b, h.head) EXCEPT !.head = b]
    ELSE IF b > h.prev[h.head]
    THEN lstitem_prepend(h, b, h.head)
    ELSE LET s == Circle(h, h.head)
         IN  lstitem_prepend(h, b, s[SelectInSeq(s, LAMBDA i : b < i)])

mpool_remove(h, b) ==
    LET behind(i) == IF b = i THEN h.next[b] ELSE i
    IN  IF h.next[b] = b
        THEN [h EXCEPT !.head = NULL, !.alloc_head = NULL]
        ELSE lstitem_remove([h EXCEPT !.head = behind(@), !.alloc_head = behind(@)], b)

\* Mutant: the second part gets the size of the whole.
SplitWhole(h, b, size) ==
    LET g == mblk_init(h, b + size, h.size[b])
    IN  mpool_insert([g EXCEPT !.size[b] = size], b + size)

mpool_split(h, b, size) ==
    LET g == mblk_init(h, b + size, h.size[b] - size)
    IN  mpool_insert([g EXCEPT !.size[b] = size], b + size)

\* Take b, which follows a in the pool and in memory, into a.  What is left of
\* the header of b means nothing from now on.
absorb(h, a, b) ==
    mpool_remove([h EXCEPT !.size[a] = @ + h.size[b], !.size[b] = 0], b)

\* Mutant: a freed block is not merged with the one before it.
MergeForward(h, b) ==
    IF b + h.size[b] = h.next[b] THEN absorb(h, b, h.next[b]) ELSE h

mpool_merge(h, b) ==
    LET g == IF b + h.size[b] = h.next[b] THEN absorb(h, b, h.next[b]) ELSE h
        a == g.prev[b]
    IN  IF b = a + g.size[a] THEN absorb(g, a, b) ELSE g

\* The size of a block for a request.
mblk_size(size) ==
    LET n == MPOOL_ALIGN(size + MBLK_HEADER_SIZE) % UintMod
    IN  IF n < MBLK_SMALLEST_SIZE THEN MBLK_SMALLEST_SIZE ELSE n

\* Mutant: the search ends at the end of the pool.
SearchStops(h, n) ==
    LET s == Circle(h, h.alloc_head)
        i == SelectInSeq(s, LAMBDA b : b >= h.alloc_head /\ n <= h.size[b])
    IN  IF i = 0 THEN NULL ELSE s[i]

\* The first free block from the allocation head on that is large enough.
next_fit(h, n) ==
    LET s == Circle(h, h.alloc_head)
        i == SelectInSeq(s, LAMBDA b : n <= h.size[b])
    IN  IF i = 0 THEN NULL ELSE s[i]

\* Next fit: the new heap and the block, or NULL.
mpool_alloc(h, size, l) ==
    LET n == mblk_size(size)
        b == next_fit(h, n)
        g == [h EXCEPT !.alloc_head = h.next[b]]
        s == IF n + MBLK_SMALLEST_SIZE <= h.size[b] THEN mpool_split(g, b, n) ELSE g
    IN  [block |-> b,
         heap |-> IF b = NULL THEN h ELSE mlst_insert(mpool_remove(s, b), b, l)]

mpool_free(h, b) == mpool_merge(mpool_insert(mlst_remove(h, b), b), b)

-----------------------------------------------------------------------------
(* Memory of the application *)

LiveThread(t) == IF t \in StaticThread THEN t \in statics ELSE kind[t] = "thread"

os_memory_allocate(t, size) ==
    /\ LiveThread(t)
    /\ LET a == mpool_alloc(heap, size, t)
       IN  /\ heap' = a.heap
           /\ kind' = IF a.block = NULL THEN kind
                      ELSE [kind EXCEPT ![a.block] = "memory"]
    /\ UNCHANGED <<part, statics>>

\* Any thread or interrupt may free what a thread has allocated.
os_memory_free(b) ==
    /\ kind[b] = "memory"
    /\ heap' = mpool_free(heap, b)
    /\ kind' = [kind EXCEPT ![b] = "none"]
    /\ UNCHANGED <<part, statics>>

-----------------------------------------------------------------------------
(* Memory of the kernel *)

\* The first block of a list goes back to the pool, and is not merged.
release_first(h, l) ==
    LET b == h.mlst[l] IN
    IF b = NULL THEN h ELSE mpool_insert(mlst_remove(h, b), b)

\* The loop takes the first block as long as there is one.
release(h, l) ==
    LET after[k \in 0 .. Cardinality(Addr)] ==
          IF k = 0 THEN h ELSE release_first(after[k - 1], l)
    IN  after[Cardinality(Addr)]

\* Mutant: the first block is not given back.
CreateLeaks(size1, size2, use1, use2) ==
    LET a == mpool_alloc(heap, size1, g_mlst)
        b == mpool_alloc(a.heap, size2, g_mlst)
    IN  IF a.block = NULL \/ b.block = NULL
        THEN /\ heap' = a.heap
             /\ UNCHANGED <<kind, part>>
        ELSE /\ heap' = b.heap
             /\ kind' = [kind EXCEPT ![a.block] = use1, ![b.block] = use2]
             /\ part' = IF use1 = "stack" THEN [part EXCEPT ![b.block] = a.block]
                                          ELSE [part EXCEPT ![a.block] = b.block]

\* Take a block for each of two uses; when there is none for the second, give
\* back the first.  A control block remembers the other block.
create_pair(size1, size2, use1, use2) ==
    LET a == mpool_alloc(heap, size1, g_mlst)
        b == mpool_alloc(a.heap, size2, g_mlst)
    IN  IF a.block = NULL \/ b.block = NULL
        THEN /\ heap' = IF a.block = NULL THEN heap ELSE mpool_free(a.heap, a.block)
             /\ UNCHANGED <<kind, part>>
        ELSE /\ heap' = b.heap
             /\ kind' = [kind EXCEPT ![a.block] = use1, ![b.block] = use2]
             /\ part' = IF use1 = "stack" THEN [part EXCEPT ![b.block] = a.block]
                                          ELSE [part EXCEPT ![a.block] = b.block]

\* thd_init begins with an empty memory list, which a new control block has.
os_thread_create(stack_size) ==
    /\ create_pair(stack_size, ThdSize, "stack", "thread")
    /\ UNCHANGED statics

\* The blocks b for which a thread is the owner.
Owned(l) == {b \in Addr : kind[b] = "memory" /\ heap.p_mlst[b] = l}

os_thread_delete(t) ==
    /\ t \in Addr
    /\ kind[t] = "thread"
    /\ heap' = mpool_free(mpool_free(release(heap, t), part[t]), t)
    /\ kind' = [b \in Addr |-> IF b \in Owned(t) \cup {t, part[t]} THEN "none" ELSE kind[b]]
    /\ part' = [part EXCEPT ![t] = NULL]
    /\ UNCHANGED statics

thd_create_static(t) ==
    /\ t \notin statics
    /\ statics' = statics \cup {t}
    /\ heap' = mlst_init(heap, t)
    /\ UNCHANGED <<kind, part>>

thd_delete_static(t) ==
    /\ t \in statics
    /\ statics' = statics \ {t}
    /\ heap' = release(heap, t)
    /\ kind' = [b \in Addr |-> IF b \in Owned(t) THEN "none" ELSE kind[b]]
    /\ UNCHANGED part

\* os_semaphore_create and os_mutex_create.
object_create ==
    /\ LET a == mpool_alloc(heap, ObjSize, g_mlst)
       IN  /\ heap' = a.heap
           /\ kind' = IF a.block = NULL THEN kind ELSE [kind EXCEPT ![a.block] = "object"]
    /\ UNCHANGED <<part, statics>>

\* os_semaphore_delete and os_mutex_delete.
object_delete(b) ==
    /\ kind[b] = "object"
    /\ heap' = mpool_free(heap, b)
    /\ kind' = [kind EXCEPT ![b] = "none"]
    /\ UNCHANGED <<part, statics>>

\* The control block is as large as a pointer to it: sizeof(p_q).
os_queue_create(size) ==
    /\ create_pair(PtrSize, size, "queue", "buffer")
    /\ UNCHANGED statics

\* The buffer stays where it is, and nobody knows it any more.
os_queue_delete(b) ==
    /\ kind[b] = "queue"
    /\ heap' = mpool_free(heap, b)
    /\ kind' = [kind EXCEPT ![b] = "none", ![part[b]] = "lost"]
    /\ part' = [part EXCEPT ![b] = NULL]
    /\ UNCHANGED statics

-----------------------------------------------------------------------------
\* What the headers and the control blocks hold before anything is initialised
\* has no influence.
RawHeap ==
    [prev |-> [b \in Addr |-> b], next |-> [b \in Addr |-> b],
     size |-> [b \in Addr |-> 0], p_mlst |-> [b \in Addr |-> NULL],
     head |-> NULL, alloc_head |-> NULL, mlst |-> [l \in Mlst |-> NULL]]

\* os_init makes the whole pool one free block.
MemInit ==
    /\ LET h == mblk_init(mlst_init(mpool_init(RawHeap), g_mlst), 0, PoolSize)
       IN  heap = mpool_insert(h, 0)
    /\ kind = [b \in Addr |-> "none"]
    /\ part = [b \in Addr |-> NULL]
    /\ statics = {}

MemNext ==
    \/ \E size \in Requests :
          \/ \E t \in Addr \cup StaticThread : os_memory_allocate(t, size)
          \/ os_thread_create(size)
          \/ os_queue_create(size)
    \/ object_create
    \/ \E b \in Addr : os_memory_free(b) \/ os_thread_delete(b)
                       \/ object_delete(b) \/ os_queue_delete(b)
    \/ \E t \in StaticThread : thd_create_static(t) \/ thd_delete_static(t)

MemSpec == MemInit /\ [][MemNext]_memVars

-----------------------------------------------------------------------------
(* Properties *)

\* Type correctness of the pool, its lists and the uses of its blocks.
MemTypeOK ==
    /\ DOMAIN heap = {"prev", "next", "size", "p_mlst", "head", "alloc_head", "mlst"}
    /\ heap.prev \in [Addr -> Addr] /\ heap.next \in [Addr -> Addr]
    /\ heap.size \in [Addr -> 0 .. PoolSize]
    /\ heap.p_mlst \in [Addr -> Mlst \cup {NULL}]
    /\ {heap.head, heap.alloc_head} \subseteq Addr \cup {NULL}
    /\ heap.mlst \in [Mlst -> Addr \cup {NULL}]
    /\ kind \in [Addr -> Kind]
    /\ part \in [Addr -> Addr \cup {NULL}]
    /\ statics \subseteq StaticThread

CircleOK(b) == b # NULL => Linked(heap, b, Cardinality(Addr))
Free == Range(Circle(heap, heap.head))
Used == {b \in Addr : kind[b] # "none"}

\* Every list is a circle linked in both directions, whatever is inserted and
\* removed; the pool is in the order of the addresses and a search of it starts
\* at a free block.
ListsSound ==
    /\ \A b \in {heap.head} \cup Range(heap.mlst) : CircleOK(b)
    /\ (heap.head = NULL) = (heap.alloc_head = NULL)
    /\ heap.head # NULL =>
          /\ heap.alloc_head \in Free
          /\ \A i, j \in DOMAIN Circle(heap, heap.head) :
                i < j => Circle(heap, heap.head)[i] < Circle(heap, heap.head)[j]

\* The blocks of the pool and of the lists tile the pool: no two overlap, no
\* byte is lost and each is large enough to be a block, whatever split, merge
\* and undone allocation has shaped them.
BlocksTile ==
    LET heads == Free \cup Used
        limit(b) == b + heap.size[b]
    IN  /\ Free \cap Used = {}
        /\ 0 \in heads
        /\ \A b \in heads : /\ heap.size[b] >= MBLK_SMALLEST_SIZE
                            /\ limit(b) \in heads \cup {PoolSize}
                            /\ \A c \in heads : c <= b \/ c >= limit(b)

\* A block in use is in the list of the thread that allocated it, which lives,
\* or in the kernel's; nothing else is in the lists.  So what a deleted thread
\* leaves behind is free, and a block is freed into the list that holds it.
ListsHoldUses ==
    /\ \A l \in Mlst : Range(Circle(heap, heap.mlst[l]))
                         = {b \in Used : heap.p_mlst[b] = l}
    /\ \A b \in Used : IF kind[b] = "memory"
                       THEN heap.p_mlst[b] # g_mlst /\ LiveThread(heap.p_mlst[b])
                       ELSE heap.p_mlst[b] = g_mlst
    /\ \A b \in Addr \ Used : heap.p_mlst[b] = NULL

\* A request finds a block exactly if the pool has one that is large enough,
\* wherever the last search has left the allocation head.
AllocFindsFit ==
    \A size \in Requests \cup {ThdSize} :
        LET b == mpool_alloc(heap, size, g_mlst).block
            enough(i) == heap.size[i] >= MBLK_HEADER_SIZE + size
        IN  IF b = NULL THEN \A i \in Free : ~enough(i) ELSE b \in Free /\ enough(b)

\* Two free blocks with nothing between them.
Fragments == {b \in Free : b + heap.size[b] \in Free}

\* Free neighbours come from the deletion of a thread that leaves memory
\* behind, and from nothing else: every other operation merges what it frees.
OnlyDeletionFragments ==
    [][Cardinality(Fragments') > Cardinality(Fragments)
       => \E t \in Addr \cup StaticThread : Owned(t) # {} /\ LiveThread(t) /\ ~LiveThread(t)']_memVars
=============================================================================
