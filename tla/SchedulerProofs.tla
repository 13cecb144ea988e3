--------------------------- MODULE SchedulerProofs ---------------------------
(***************************************************************************)
(* Proofs about Scheduler, for any number of threads, priorities and wait  *)
(* queues, any width of os_uint_t and any choice of calls.                 *)
(***************************************************************************)
EXTENDS Scheduler, QueueLemmas, TLAPS

-----------------------------------------------------------------------------
(* Families of queues *)

\* q is a family of queues, owner says which of them each thread is in.
Queues(q, owner, K) ==
    /\ q \in [K -> Seq(Thread)]
    /\ owner \in [Thread -> K \cup {NULL}]
    /\ Owned(q, owner, K)

LEMMA OneQueue ==
    ASSUME NEW K, NEW q, NEW owner, Queues(q, owner, K), NEW k \in K
    PROVE  Queue(q[k], Thread)
BY DEF Queues, Owned, Queue

\* Replacing one queue by one that holds a thread less or more.
LEMMA ReplaceQueue ==
    ASSUME NEW K, NULL \notin K, NEW q, NEW owner, Queues(q, owner, K),
           NEW k \in K, NEW s, Queue(s, Thread), NEW t \in Thread,
           NEW o \in K \cup {NULL},
           \/ o = k /\ owner[t] = NULL /\ Range(s) = Range(q[k]) \cup {t}
           \/ o = NULL /\ owner[t] = k /\ Range(s) = Range(q[k]) \ {t}
           \/ o = owner[t] /\ Range(s) = Range(q[k])
    PROVE  Queues([q EXCEPT ![k] = s], [owner EXCEPT ![t] = o], K)
<1>. DEFINE r == [q EXCEPT ![k] = s]
            w == [owner EXCEPT ![t] = o]
<1>1. /\ r \in [K -> Seq(Thread)] /\ w \in [Thread -> K \cup {NULL}]
      /\ r[k] = s /\ \A j \in K \ {k} : r[j] = q[j]
      /\ w[t] = o /\ \A u \in Thread \ {t} : w[u] = owner[u]
  BY DEF Queues, Queue
<1>. HIDE DEF r, w
<1>2. \A j \in K : IsInjective(r[j])
  BY <1>1 DEF Queues, Owned, Queue
<1>3. ASSUME NEW j \in K, NEW u \in Thread PROVE u \in Range(r[j]) <=> w[u] = j
  <2>1. \A i \in K, v \in Thread : v \in Range(q[i]) <=> owner[v] = i
    BY DEF Queues, Owned
  <2>2. CASE j = k
    <3>1. CASE u # t
      <4>1. u \in Range(s) <=> u \in Range(q[k])
        BY <3>1
      <4>. QED
        BY <1>1, <2>1, <2>2, <3>1, <4>1
    <3>2. CASE u = t
      <4>1. t \in Range(s) <=> o = k
        BY <2>1
      <4>. QED
        BY <1>1, <2>2, <3>2, <4>1
    <3>. QED
      BY <3>1, <3>2
  <2>3. CASE j # k
    BY <1>1, <2>1, <2>3
  <2>. QED
    BY <2>2, <2>3
<1>4. Queues(r, w, K)
  BY <1>1, <1>2, <1>3 DEF Queues, Owned
<1>. QED
  BY <1>4 DEF r, w

\* The queues without thread t: what sch_qitem_remove makes of them.
Without(q, owner, t) ==
    IF owner[t] = NULL THEN q ELSE [q EXCEPT ![owner[t]] = RemoveFirst(@, t)]

LEMMA RemoveOwned ==
    ASSUME NEW K, NULL \notin K, NEW q, NEW owner, Queues(q, owner, K),
           NEW t \in Thread
    PROVE  Queues(Without(q, owner, t), [owner EXCEPT ![t] = NULL], K)
<1>1. CASE owner[t] = NULL
  <2>1. [owner EXCEPT ![t] = NULL] = owner
    BY <1>1 DEF Queues
  <2>. QED
    BY <1>1, <2>1 DEF Without
<1>2. CASE owner[t] # NULL
  <2>1. owner[t] \in K /\ t \in Range(q[owner[t]])
    BY <1>2 DEF Queues, Owned
  <2>2. /\ Queue(RemoveFirst(q[owner[t]], t), Thread)
        /\ Range(RemoveFirst(q[owner[t]], t)) = Range(q[owner[t]]) \ {t}
    BY <2>1, OneQueue, RemoveQueue
  <2>. QED
    BY <1>2, <2>1, <2>2, ReplaceQueue DEF Without
<1>. QED
  BY <1>1, <1>2

LEMMA AppendOwned ==
    ASSUME NEW K, NULL \notin K, NEW q, NEW owner, Queues(q, owner, K),
           NEW t \in Thread, owner[t] = NULL, NEW k \in K
    PROVE  Queues([q EXCEPT ![k] = Append(@, t)], [owner EXCEPT ![t] = k], K)
<1>1. t \notin Range(q[k])
  BY DEF Queues, Owned
<1>2. /\ Queue(Append(q[k], t), Thread)
      /\ Range(Append(q[k], t)) = Range(q[k]) \cup {t}
  BY <1>1, OneQueue, AppendQueue
<1>. QED
  BY <1>2, ReplaceQueue

\* Where sch_qitem_enq_prio inserts: behind the last item whose tag is not
\* greater.
LEMMA EnqPrioPlace ==
    ASSUME NEW s, Queue(s, Thread), NEW t, NEW tag \in [Thread -> Nat],
           t \in Thread, s # <<>>, ~(tag[t] >= tag[Last(s)])
    PROVE  \E k \in 1 .. Len(s) :
              /\ sch_qitem_enq_prio(s, t, tag) = InsertAt(s, k, t)
              /\ tag[t] < tag[s[k]]
              /\ \A i \in 1 .. (k - 1) : tag[s[i]] <= tag[t]
<1>1. /\ s \in Seq(Thread) /\ Len(s) \in Nat \ {0}
      /\ \A i \in 1 .. Len(s) : s[i] \in Thread
  BY EmptySeq DEF Queue
<1>. DEFINE I == {i \in 1 .. Len(s) : tag[t] < tag[s[i]]}
<1>2. Len(s) \in I
  BY <1>1 DEF Last
<1>3. I \in SUBSET Nat /\ I # {}
  BY <1>2
<1>4. Min(I) \in I /\ \A i \in I : Min(I) <= i
  BY <1>3, MinProperty
<1>5. sch_qitem_enq_prio(s, t, tag) = InsertAt(s, Min(I), t)
  BY <1>3 DEF sch_qitem_enq_prio, SelectInSeq
<1>6. \A i \in 1 .. (Min(I) - 1) : tag[s[i]] <= tag[t]
  BY <1>1, <1>4, SMTT(30)
<1>. QED
  BY <1>4, <1>5, <1>6

LEMMA EnqPrioQueue ==
    ASSUME NEW s, Queue(s, Thread), NEW t \in Thread, t \notin Range(s),
           NEW tag \in [Thread -> Nat]
    PROVE  /\ Queue(sch_qitem_enq_prio(s, t, tag), Thread)
           /\ Range(sch_qitem_enq_prio(s, t, tag)) = Range(s) \cup {t}
<1>1. CASE s = <<>> \/ tag[t] >= tag[Last(s)]
  BY <1>1, AppendQueue, ZenonT(60) DEF sch_qitem_enq_prio
<1>2. CASE ~(s = <<>> \/ tag[t] >= tag[Last(s)])
  BY <1>2, EnqPrioPlace, InsertQueue
<1>. QED
  BY <1>1, <1>2

\* The first item stays the first one, or the new one comes first.
LEMMA EnqPrioHead ==
    ASSUME NEW s, Queue(s, Thread), NEW t \in Thread, t \notin Range(s),
           NEW tag \in [Thread -> Nat]
    PROVE  \/ Head(sch_qitem_enq_prio(s, t, tag)) = t
           \/ s # <<>> /\ Head(sch_qitem_enq_prio(s, t, tag)) = Head(s)
<1>1. s \in Seq(Thread) /\ Len(s) \in Nat
  BY DEF Queue
<1>2. CASE s = <<>> \/ tag[t] >= tag[Last(s)]
  <2>1. sch_qitem_enq_prio(s, t, tag) = Append(s, t)
    BY <1>2 DEF sch_qitem_enq_prio
  <2>2. CASE s = <<>>
    BY <2>1, <2>2
  <2>3. CASE s # <<>>
    BY <1>1, <2>1, <2>3
  <2>. QED
    BY <2>2, <2>3
<1>3. CASE ~(s = <<>> \/ tag[t] >= tag[Last(s)])
  <2>1. PICK k \in 1 .. Len(s) : sch_qitem_enq_prio(s, t, tag) = InsertAt(s, k, t)
    BY <1>3, EnqPrioPlace
  <2>. DEFINE r == InsertAt(s, k, t)
  <2>2. /\ r \in Seq(Thread) /\ Len(r) = Len(s) + 1
        /\ \A i \in 1 .. (Len(s) + 1) :
              r[i] = IF i < k THEN s[i] ELSE IF i = k THEN t ELSE s[i - 1]
    BY InsertQueue DEF Queue
  <2>3. Head(r) = r[1] /\ Head(s) = s[1] /\ s # <<>> /\ 1 \in 1 .. (Len(s) + 1)
    BY <1>1, <1>3, <2>2
  <2>. HIDE DEF r
  <2>4. CASE k = 1
    BY <2>2, <2>3, <2>4, <2>1 DEF r
  <2>5. CASE k # 1
    BY <2>2, <2>3, <2>5, <2>1 DEF r
  <2>. QED
    BY <2>4, <2>5
<1>. QED
  BY <1>2, <1>3

LEMMA EnqPrioOwned ==
    ASSUME NEW K, NULL \notin K, NEW q, NEW owner, Queues(q, owner, K),
           NEW t \in Thread, owner[t] = NULL, NEW k \in K,
           NEW tag \in [Thread -> Nat]
    PROVE  Queues([q EXCEPT ![k] = sch_qitem_enq_prio(@, t, tag)],
                  [owner EXCEPT ![t] = k], K)
<1>1. t \notin Range(q[k])
  BY DEF Queues, Owned
<1>2. /\ Queue(sch_qitem_enq_prio(q[k], t, tag), Thread)
      /\ Range(sch_qitem_enq_prio(q[k], t, tag)) = Range(q[k]) \cup {t}
  BY <1>1, OneQueue, EnqPrioQueue
<1>. QED
  BY <1>2, ReplaceQueue

\* Moving the head pointer of a queue on.
LEMMA RotateOwned ==
    ASSUME NEW K, NULL \notin K, NEW q, NEW owner, Queues(q, owner, K),
           NEW k \in K, q[k] # <<>>
    PROVE  /\ Queues([q EXCEPT ![k] = Rotate(@)], owner, K)
           /\ Head(q[k]) \in Thread /\ owner[Head(q[k])] = k
<1>1. /\ Head(q[k]) \in Thread /\ Head(q[k]) \in Range(q[k])
      /\ Queue(Rotate(q[k]), Thread)
      /\ Range(Rotate(q[k])) = Range(q[k])
  BY OneQueue, RotateQueue DEF Rotate
<1>2. owner[Head(q[k])] = k
  BY <1>1 DEF Queues, Owned
<1>3. owner = [owner EXCEPT ![Head(q[k])] = k]
  BY <1>1, <1>2 DEF Queues
<1>. QED
  BY <1>1, <1>2, <1>3, ReplaceQueue

-----------------------------------------------------------------------------
(* Order in queues *)

LEMMA SortedSame ==
    ASSUME NEW s \in Seq(Thread), NEW tag, NEW u, Sorted(s, tag),
           \A t \in Range(s) : u[t] = tag[t]
    PROVE  Sorted(s, u)
<1>1. \A i \in 1 .. Len(s) : u[s[i]] = tag[s[i]]
  BY DEF Range
<1>. QED
  BY <1>1 DEF Sorted

\* The first item has the least tag.
LEMMA SortedHead ==
    ASSUME NEW s \in Seq(Thread), NEW tag \in [Thread -> Nat], Sorted(s, tag),
           NEW t \in Range(s)
    PROVE  Head(s) \in Thread /\ Head(s) \in Range(s) /\ tag[Head(s)] <= tag[t]
<1>1. PICK i \in 1 .. Len(s) : s[i] = t
  BY DEF Range
<1>2. Len(s) \in Nat /\ 1 \in 1 .. Len(s) /\ s # <<>> /\ Head(s) = s[1] /\ s[1] \in Thread
  BY <1>1
<1>3. CASE i = 1
  BY <1>1, <1>2, <1>3 DEF Range
<1>4. CASE i # 1
  <2>1. 1 < i
    BY <1>1, <1>4
  <2>. QED
    BY <1>1, <1>2, <2>1 DEF Sorted, Range
<1>. QED
  BY <1>3, <1>4

LEMMA SortedRemoved ==
    ASSUME NEW s, Queue(s, Thread), NEW tag, Sorted(s, tag), NEW t \in Range(s)
    PROVE  Sorted(RemoveFirst(s, t), tag)
<1>1. PICK k \in 1 .. Len(s) : RemoveFirst(s, t) = RemoveAt(s, k)
  BY RemoveFirstQueue
<1>. DEFINE r == RemoveAt(s, k)
            at(i) == IF i < k THEN i ELSE i + 1
<1>2. /\ Len(s) \in Nat /\ Len(r) = Len(s) - 1
      /\ \A i \in 1 .. (Len(s) - 1) : at(i) \in 1 .. Len(s) /\ r[i] = s[at(i)]
  <2>1. Len(s) \in Nat
    BY DEF Queue
  <2>2. /\ Len(r) = Len(s) - 1
        /\ \A i \in 1 .. (Len(s) - 1) : r[i] = IF i < k THEN s[i] ELSE s[i + 1]
    BY RemoveAtQueue
  <2>. HIDE DEF r
  <2>. QED
    BY <2>1, <2>2
<1>3. ASSUME NEW i \in 1 .. Len(r), NEW j \in 1 .. Len(r), i < j
      PROVE  tag[r[i]] <= tag[r[j]]
  <2>1. i \in 1 .. (Len(s) - 1) /\ j \in 1 .. (Len(s) - 1)
    BY <1>2
  <2>2. at(i) < at(j) /\ at(i) \in 1 .. Len(s) /\ at(j) \in 1 .. Len(s)
    BY <1>2, <1>3, <2>1
  <2>3. r[i] = s[at(i)] /\ r[j] = s[at(j)]
    BY <1>2, <2>1
  <2>. HIDE DEF r, at
  <2>. QED
    BY <2>2, <2>3 DEF Sorted
<1>. QED
  BY <1>1, <1>3 DEF Sorted

LEMMA SortedEnq ==
    ASSUME NEW s, Queue(s, Thread), NEW t \in Thread, t \notin Range(s),
           NEW tag \in [Thread -> Nat], Sorted(s, tag)
    PROVE  Sorted(sch_qitem_enq_prio(s, t, tag), tag)
<1>1. /\ s \in Seq(Thread) /\ Len(s) \in Nat
      /\ \A i \in 1 .. Len(s) : s[i] \in Thread /\ tag[s[i]] \in Nat
      /\ tag[t] \in Nat
  BY DEF Queue
<1>2. CASE s = <<>> \/ tag[t] >= tag[Last(s)]
  <2>. DEFINE r == Append(s, t)
  <2>1. /\ Len(r) = Len(s) + 1 /\ r[Len(s) + 1] = t
        /\ \A i \in 1 .. Len(s) : r[i] = s[i]
    BY <1>1
  <2>2. ASSUME NEW i \in 1 .. Len(s) PROVE tag[s[i]] <= tag[t]
    <3>1. s # <<>> /\ Last(s) = s[Len(s)] /\ Len(s) \in 1 .. Len(s)
      BY <1>1 DEF Last
    <3>2. tag[s[Len(s)]] <= tag[t]
      BY <1>1, <1>2, <3>1
    <3>3. CASE i = Len(s)
      BY <3>2, <3>3
    <3>4. CASE i < Len(s)
      <4>1. tag[s[i]] <= tag[s[Len(s)]]
        BY <1>1, <3>1, <3>4 DEF Sorted
      <4>. QED
        BY <1>1, <3>1, <3>2, <4>1
    <3>. QED
      BY <1>1, <3>3, <3>4
  <2>. HIDE DEF r
  <2>3. ASSUME NEW i \in 1 .. Len(r), NEW j \in 1 .. Len(r), i < j
        PROVE  tag[r[i]] <= tag[r[j]]
    <3>1. i \in 1 .. Len(s) /\ r[i] = s[i]
      BY <1>1, <2>1, <2>3
    <3>2. CASE j = Len(s) + 1
      BY <2>1, <2>2, <3>1, <3>2
    <3>3. CASE j # Len(s) + 1
      <4>1. j \in 1 .. Len(s) /\ r[j] = s[j]
        BY <1>1, <2>1, <3>3
      <4>. QED
        BY <2>3, <3>1, <4>1 DEF Sorted
    <3>. QED
      BY <3>2, <3>3
  <2>4. sch_qitem_enq_prio(s, t, tag) = r
    BY <1>2 DEF sch_qitem_enq_prio, r
  <2>. QED
    BY <2>3, <2>4 DEF Sorted
<1>3. CASE ~(s = <<>> \/ tag[t] >= tag[Last(s)])
  <2>1. PICK k \in 1 .. Len(s) :
           /\ sch_qitem_enq_prio(s, t, tag) = InsertAt(s, k, t)
           /\ tag[t] < tag[s[k]]
           /\ \A i \in 1 .. (k - 1) : tag[s[i]] <= tag[t]
    BY <1>3, EnqPrioPlace
  <2>. DEFINE r == InsertAt(s, k, t)
  <2>2. /\ Len(r) = Len(s) + 1
        /\ \A i \in 1 .. (Len(s) + 1) :
              r[i] = IF i < k THEN s[i] ELSE IF i = k THEN t ELSE s[i - 1]
    BY InsertQueue
  <2>. HIDE DEF r
  <2>3. ASSUME NEW i \in k .. Len(s) PROVE tag[t] <= tag[s[i]]
    <3>1. CASE i = k
      BY <1>1, <2>1, <3>1
    <3>2. CASE k < i
      <4>1. tag[s[k]] <= tag[s[i]] /\ i \in 1 .. Len(s)
        BY <1>1, <3>2 DEF Sorted
      <4>. QED
        BY <1>1, <2>1, <4>1
    <3>. QED
      BY <1>1, <3>1, <3>2
  <2>4. ASSUME NEW i \in 1 .. Len(r), NEW j \in 1 .. Len(r), i < j
        PROVE  tag[r[i]] <= tag[r[j]]
    <3>0. i \in 1 .. (Len(s) + 1) /\ j \in 1 .. (Len(s) + 1) /\ i \in Nat /\ j \in Nat /\ k \in Nat
      BY <1>1, <2>2
    <3>1. CASE j < k
      <4>1. i < k /\ i \in 1 .. Len(s) /\ j \in 1 .. Len(s)
        BY <1>1, <2>4, <3>0, <3>1
      <4>2. r[i] = s[i] /\ r[j] = s[j]
        BY <2>2, <3>0, <3>1, <4>1
      <4>. QED
        BY <2>4, <4>1, <4>2 DEF Sorted
    <3>2. CASE j = k
      <4>1. r[i] = s[i] /\ r[j] = t /\ i \in 1 .. (k - 1)
        BY <2>2, <2>4, <3>0, <3>2
      <4>. QED
        BY <2>1, <4>1
    <3>3. CASE k < j
      <4>1. r[j] = s[j - 1] /\ j - 1 \in k .. Len(s) /\ j - 1 \in 1 .. Len(s)
        BY <1>1, <2>2, <3>0, <3>3
      <4>2. CASE i < k
        <5>1. r[i] = s[i] /\ i \in 1 .. Len(s) /\ i < j - 1
          BY <1>1, <2>2, <3>0, <3>3, <4>2
        <5>. QED
          BY <4>1, <5>1 DEF Sorted
      <4>3. CASE i = k
        BY <2>2, <2>3, <3>0, <4>1, <4>3
      <4>4. CASE k < i
        <5>1. r[i] = s[i - 1] /\ i - 1 \in 1 .. Len(s) /\ i - 1 < j - 1
          BY <1>1, <2>2, <2>4, <3>0, <4>4
        <5>. QED
          BY <4>1, <5>1 DEF Sorted
      <4>. QED
        BY <3>0, <4>2, <4>3, <4>4
    <3>. QED
      BY <3>0, <3>1, <3>2, <3>3
  <2>. QED
    BY <2>1, <2>4 DEF Sorted, r
<1>. QED
  BY <1>2, <1>3

\* The same for the queues of a family.
LEMMA WithoutSorted ==
    ASSUME NEW K, NEW q, NEW owner, Queues(q, owner, K), NEW t \in Thread,
           NEW k \in K, NEW tag, Sorted(q[k], tag)
    PROVE  /\ Sorted(Without(q, owner, t)[k], tag)
           /\ Range(Without(q, owner, t)[k]) \subseteq Range(q[k])
<1>1. CASE owner[t] = k /\ owner[t] # NULL
  <2>1. t \in Range(q[k]) /\ Queue(q[k], Thread)
    BY <1>1, OneQueue DEF Queues, Owned
  <2>2. Without(q, owner, t)[k] = RemoveFirst(q[k], t)
    BY <1>1 DEF Without, Queues
  <2>. QED
    BY <2>1, <2>2, SortedRemoved, RemoveQueue
<1>2. CASE ~(owner[t] = k /\ owner[t] # NULL)
  <2>1. Without(q, owner, t)[k] = q[k]
    BY <1>2 DEF Without, Queues
  <2>. QED
    BY <2>1
<1>. QED
  BY <1>1, <1>2

LEMMA EnqSorted ==
    ASSUME NEW K, NULL \notin K, NEW q, NEW owner, Queues(q, owner, K),
           NEW t \in Thread, owner[t] = NULL, NEW k \in K,
           NEW tag \in [Thread -> Nat], Sorted(q[k], tag)
    PROVE  /\ Sorted(sch_qitem_enq_prio(q[k], t, tag), tag)
           /\ Range(sch_qitem_enq_prio(q[k], t, tag)) = Range(q[k]) \cup {t}
<1>1. t \notin Range(q[k])
  BY DEF Queues, Owned
<1>2. Queue(q[k], Thread)
  BY OneQueue
<1>. QED
  BY <1>1, <1>2, SortedEnq, EnqPrioQueue

-----------------------------------------------------------------------------
(* Scheduling decisions *)

\* While the idle thread is in its queue the loop over the ready queues finds
\* the first that is not empty.
LEMMA TopPrioExists ==
    ASSUME NEW q, NEW owner, Queues(q, owner, SchQ), owner[Idle] = IdlePrio
    PROVE  /\ TopPrio(q) \in Prio /\ TopPrio(q) \in SchQ
           /\ q[TopPrio(q)] # <<>>
           /\ \A r \in Prio : q[r] # <<>> => TopPrio(q) <= r
<1>. DEFINE T == {p \in Prio : q[p] # <<>>}
<1>1. IdlePrio \in Prio /\ IdlePrio \in SchQ /\ Idle \in Thread
  BY SchedulerAssumption DEF IdlePrio, Prio, SchQ
<1>2. Idle \in Range(q[IdlePrio])
  BY <1>1 DEF Queues, Owned
<1>3. q[IdlePrio] # <<>>
  BY <1>2 DEF Range
<1>4. T \in SUBSET Nat /\ T # {}
  BY <1>1, <1>3 DEF Prio
<1>5. PICK m \in T : \A n \in T : m <= n
  BY <1>4, LeastNat
<1>. QED
  BY <1>5 DEF TopPrio, SchQ

LEMMA NullNotQueue == NULL \notin SchQ /\ NULL \notin DelayQ /\ Prio \subseteq SchQ
BY NamesAssumption DEF SchQ

LEMMA SetNextThread ==
    ASSUME NEW q, NEW owner, Queues(q, owner, SchQ), owner[Idle] = IdlePrio,
           sch_set_next_thread(q)
    PROVE  /\ Queues(q_items', owner, SchQ)
           /\ p_next' \in Thread /\ owner[p_next'] = TopPrio(q)
<1>1. TopPrio(q) \in SchQ /\ q[TopPrio(q)] # <<>>
  BY TopPrioExists
<1>. DEFINE k == TopPrio(q)
<1>2. p_next' = Head(q[k]) /\ q_items' = [q EXCEPT ![k] = Rotate(@)]
  BY DEF sch_set_next_thread
<1>. HIDE DEF k
<1>3. k \in SchQ /\ q[k] # <<>> /\ NULL \notin SchQ
  BY <1>1, NullNotQueue DEF k
<1>4. /\ Queues([q EXCEPT ![k] = Rotate(@)], owner, SchQ)
      /\ Head(q[k]) \in Thread /\ owner[Head(q[k])] = k
  BY <1>3, RotateOwned
<1>. QED
  BY <1>2, <1>4 DEF k

LEMMA RescheduleReq ==
    ASSUME NEW q, NEW owner, Queues(q, owner, SchQ), owner[Idle] = IdlePrio,
           NEW tag, sch_reschedule_req(q, tag), p_next \in Thread,
           pending \in BOOLEAN
    PROVE  /\ Queues(q_items', owner, SchQ)
           /\ p_next' \in Thread
           /\ pending' \in BOOLEAN
<1>1. CASE TopPrio(q) < tag[p_current]
  <2>1. sch_set_next_thread(q) /\ pending' \in BOOLEAN
    BY <1>1 DEF sch_reschedule_req
  <2>. QED
    BY <2>1, SetNextThread
<1>2. CASE ~(TopPrio(q) < tag[p_current])
  <2>1. q_items' = q /\ p_next' = p_next /\ pending' = pending
    BY <1>2 DEF sch_reschedule_req
  <2>. QED
    BY <2>1
<1>. QED
  BY <1>1, <1>2

LEMMA UnloadCurrent ==
    ASSUME NEW q, NEW owner, Queues(q, owner, SchQ), owner[Idle] = IdlePrio,
           NEW c, NEW pc \in CodePoint, sch_unload_current(c, q, pc),
           pending \in BOOLEAN, cpu \in CodePoint
    PROVE  /\ Queues(q_items', owner, SchQ)
           /\ p_next' \in Thread
           /\ pending' \in BOOLEAN
           /\ cpu' \in CodePoint
<1>1. sch_set_next_thread(q)
  BY DEF sch_unload_current
<1>2. pending' \in BOOLEAN /\ cpu' \in CodePoint
  BY DEF sch_unload_current
<1>. QED
  BY <1>1, <1>2, SetNextThread

-----------------------------------------------------------------------------
(* The inductive invariant, in parts: the two families of queues, what is   *)
(* kept per thread, and what is kept once.                                  *)

ItemInv == Queues(q_items, item_sch_q, SchQ)

DelayInv == Queues(q_delay, item_delay_q, DelayQ)

ThreadInv ==
    /\ state \in [Thread -> ThdState]
    /\ item_sch_tag \in [Thread -> Prio]
    /\ item_sch_q \in [Thread -> SchQ \cup {NULL}]
    /\ item_delay_tag \in [Thread -> 0 .. (UintMod - 1)]
    /\ item_delay_q \in [Thread -> DelayQ \cup {NULL}]
    /\ p_schinfo \in [Thread -> BOOLEAN]
    /\ ThreadStateInv
    /\ IdleInv

KernelInv ==
    /\ p_delayq_normal \in DelayQ
    /\ p_delayq_overflow \in DelayQ
    /\ timestamp \in 0 .. (UintMod - 1)
    /\ p_current \in Thread \cup {NULL}
    /\ p_next \in Thread \cup {NULL}
    /\ pending \in BOOLEAN
    /\ cpu \in CodePoint
    /\ ctx \in [Thread -> CodePoint]
    /\ handler \in HandlerName
    /\ StartInv

Inv == ItemInv /\ DelayInv /\ ThreadInv /\ KernelInv

LEMMA InvImplies == Inv => TypeOK /\ QueueOwnership /\ ThreadStateInv
BY DEF Inv, ItemInv, DelayInv, ThreadInv, KernelInv, Queues, TypeOK, QueueOwnership

\* Facts about the constants that the leaves below need.
LEMMA Constants ==
    /\ Idle \in Thread
    /\ IdlePrio \in Prio
    /\ Prio \subseteq Nat
    /\ Prio \subseteq SchQ
    /\ WaitQ \subseteq SchQ
    /\ \A p \in Prio : p \notin WaitQ
    /\ NULL \notin SchQ /\ NULL \notin DelayQ /\ NULL \notin Thread
BY SchedulerAssumption, NamesAssumption DEF IdlePrio, Prio, SchQ

LEMMA IdleQueued == ThreadInv => item_sch_q[Idle] = IdlePrio
BY Constants DEF ThreadInv, ThreadStateInv, IdleInv

\* Readying a thread: out of every queue it is in, and into its ready queue.
LEMMA ReadyQueues ==
    ASSUME ItemInv, DelayInv, ThreadInv, NEW t \in Thread, thd_ready(t)
    PROVE  /\ Queues(ReadyItems(t), item_sch_q', SchQ)
           /\ item_sch_q'[Idle] = IdlePrio
           /\ DelayInv' /\ ThreadInv'
<1>. DEFINE o == [item_sch_q EXCEPT ![t] = NULL]
            p == item_sch_tag[t]
<1>1. p \in Prio /\ p \in SchQ
  BY Constants DEF ThreadInv
<1>2. Queues(sch_qitem_remove(t), o, SchQ) /\ o[t] = NULL
  BY Constants, RemoveOwned DEF ItemInv, ThreadInv, sch_qitem_remove, Without
<1>3. Queues([sch_qitem_remove(t) EXCEPT ![p] = Append(@, t)], [o EXCEPT ![t] = p], SchQ)
  BY <1>1, <1>2, Constants, AppendOwned
<1>4. item_sch_q' = [o EXCEPT ![t] = p]
  BY DEF thd_ready, ThreadInv
<1>5. Queues(ReadyItems(t), item_sch_q', SchQ)
  BY <1>3, <1>4 DEF ReadyItems, sch_qitem_enq_fifo
<1>6. DelayInv'
  BY Constants, RemoveOwned DEF DelayInv, thd_ready, delay_item_remove, Without
<1>7. ThreadInv'
  BY <1>1, Constants DEF ThreadInv, thd_ready, ThreadStateInv, IdleInv, ThdState
<1>8. item_sch_q'[Idle] = IdlePrio
  BY IdleQueued, Constants DEF thd_ready, ThreadInv, IdleInv
<1>. QED
  BY <1>5, <1>6, <1>7, <1>8

LEMMA ReadyStep ==
    ASSUME ItemInv, DelayInv, ThreadInv, NEW t \in Thread,
           thd_ready(t), q_items' = ReadyItems(t)
    PROVE  ItemInv' /\ DelayInv' /\ ThreadInv'
BY ReadyQueues DEF ItemInv

\* Suspending or deleting a thread: out of every queue it is in.
LEMMA WithdrawStep ==
    ASSUME ItemInv, DelayInv, ThreadInv, NEW t \in Thread, t # Idle,
           NEW s \in {"SUSPENDED", "DELETED", "FREE"}, Withdraw(t, s)
    PROVE  /\ Queues(sch_qitem_remove(t), item_sch_q', SchQ)
           /\ item_sch_q'[Idle] = IdlePrio
           /\ DelayInv' /\ ThreadInv'
<1>1. Queues(sch_qitem_remove(t), item_sch_q', SchQ)
  BY Constants, RemoveOwned DEF ItemInv, Withdraw, sch_qitem_remove, Without
<1>2. DelayInv'
  BY Constants, RemoveOwned DEF DelayInv, Withdraw, delay_item_remove, Without
<1>3. ThreadInv'
  BY Constants DEF ThreadInv, Withdraw, ThreadStateInv, IdleInv, ThdState
<1>4. item_sch_q'[Idle] = IdlePrio
  BY IdleQueued, Constants DEF Withdraw, ThreadInv
<1>. QED
  BY <1>1, <1>2, <1>3, <1>4

\* The wake-up time of sch_insert_delay stays within the width of os_uint_t.
LEMMA WakeupRange ==
    ASSUME NEW n \in Nat, timestamp \in 0 .. (UintMod - 1)
    PROVE  (timestamp + n) % UintMod \in 0 .. (UintMod - 1)
BY SchedulerAssumption

LEMMA InsertDelay ==
    ASSUME DelayInv, ThreadInv, KernelInv, NEW t \in Thread, item_delay_q[t] = NULL,
           NEW n \in Nat, sch_insert_delay(t, n)
    PROVE  /\ DelayInv'
           /\ item_delay_tag' \in [Thread -> 0 .. (UintMod - 1)]
           /\ \E q \in DelayQ : item_delay_q' = [item_delay_q EXCEPT ![t] = q]
<1>. DEFINE wakeup == (timestamp + n) % UintMod
            tag == [item_delay_tag EXCEPT ![t] = wakeup]
            q == IF wakeup < timestamp THEN p_delayq_overflow ELSE p_delayq_normal
<1>1. wakeup \in 0 .. (UintMod - 1)
  BY WakeupRange DEF KernelInv
<1>2. tag \in [Thread -> 0 .. (UintMod - 1)] /\ tag \in [Thread -> Nat]
  BY <1>1, SchedulerAssumption DEF ThreadInv
<1>3. q \in DelayQ
  BY DEF KernelInv
<1>4. /\ item_delay_tag' = tag
      /\ item_delay_q' = [item_delay_q EXCEPT ![t] = q]
      /\ q_delay' = [q_delay EXCEPT ![q] = sch_qitem_enq_prio(@, t, tag)]
  BY DEF sch_insert_delay
<1>. HIDE DEF wakeup, tag, q
<1>5. Queues([q_delay EXCEPT ![q] = sch_qitem_enq_prio(@, t, tag)],
             [item_delay_q EXCEPT ![t] = q], DelayQ)
  BY <1>2, <1>3, Constants, EnqPrioOwned DEF DelayInv
<1>. QED
  BY <1>2, <1>3, <1>4, <1>5 DEF DelayInv

\* The item queues once the current thread has gone to the wait queue p_to, or to
\* none, and the next thread is still to be chosen.
BlockedItems(p_to) ==
    IF p_to = NULL THEN sch_qitem_remove(p_current)
    ELSE [sch_qitem_remove(p_current) EXCEPT ![p_to] =
             sch_qitem_enq_prio(@, p_current, item_sch_tag)]

LEMMA BlockQueues ==
    ASSUME ItemInv, ThreadInv, NEW p_to \in WaitQ \cup {NULL}, p_current \in Thread \ {Idle},
           item_sch_q' = [item_sch_q EXCEPT ![p_current] = p_to]
    PROVE  /\ Queues(BlockedItems(p_to), item_sch_q', SchQ)
           /\ item_sch_q'[Idle] = IdlePrio
<1>. DEFINE t == p_current
            o == [item_sch_q EXCEPT ![t] = NULL]
<1>1. Queues(sch_qitem_remove(t), o, SchQ) /\ o[t] = NULL
  BY Constants, RemoveOwned DEF ItemInv, ThreadInv, sch_qitem_remove, Without
<1>2. CASE p_to = NULL
  BY <1>1, <1>2, IdleQueued, Constants DEF BlockedItems, ThreadInv
<1>3. CASE p_to # NULL
  <2>1. p_to \in SchQ /\ item_sch_tag \in [Thread -> Nat]
    BY <1>3, Constants DEF ThreadInv
  <2>2. item_sch_q' = [o EXCEPT ![t] = p_to]
    BY DEF ThreadInv
  <2>3. Queues([sch_qitem_remove(t) EXCEPT ![p_to] =
                   sch_qitem_enq_prio(@, t, item_sch_tag)],
               [o EXCEPT ![t] = p_to], SchQ)
    BY <1>1, <2>1, Constants, EnqPrioOwned
  <2>4. item_sch_q'[Idle] = IdlePrio
    BY IdleQueued, Constants DEF ThreadInv
  <2>. QED
    BY <1>3, <2>2, <2>3, <2>4 DEF BlockedItems
<1>. QED
  BY <1>2, <1>3

\* Blocking the current thread on the wait queue p_to or on nothing, with a
\* timeout or not.
LEMMA BlockStep ==
    ASSUME Inv, NEW p_to \in WaitQ \cup {NULL}, NEW info \in BOOLEAN, NEW n \in Nat,
           p_to # NULL \/ n # 0,
           p_current \in Thread \ {Idle}, thd_block_current(p_to, info, n)
    PROVE  Inv'
<1>. DEFINE t == p_current
            q == BlockedItems(p_to)
<1>1. /\ ItemInv /\ DelayInv /\ ThreadInv /\ KernelInv
      /\ t \in Thread /\ t # Idle
  BY DEF Inv
<1>2. /\ state[t] = "READY" /\ item_delay_q[t] = NULL
      /\ state' = [state EXCEPT ![t] = "BLOCKED"]
      /\ item_sch_q' = [item_sch_q EXCEPT ![t] = p_to]
      /\ p_schinfo' = [p_schinfo EXCEPT ![t] = info]
      /\ IF n # 0 THEN sch_insert_delay(t, n) ELSE UNCHANGED delayVars
      /\ sch_unload_current("thread", q, "unload")
      /\ UNCHANGED <<item_sch_tag, timeVars, p_current, ctx, handler>>
  BY DEF thd_block_current, BlockedItems
<1>3. Queues(q, item_sch_q', SchQ)
  BY <1>1, <1>2, BlockQueues
<1>4. item_sch_q'[Idle] = IdlePrio
  BY <1>1, <1>2, BlockQueues
<1>5. /\ DelayInv'
      /\ item_delay_tag' \in [Thread -> 0 .. (UintMod - 1)]
      /\ item_delay_q' \in [Thread -> DelayQ \cup {NULL}]
      /\ n # 0 => item_delay_q'[t] # NULL
      /\ \A u \in Thread \ {t} : item_delay_q'[u] = item_delay_q[u]
  <2>1. CASE n # 0
    <3>1. /\ DelayInv' /\ item_delay_tag' \in [Thread -> 0 .. (UintMod - 1)]
          /\ \E d \in DelayQ : item_delay_q' = [item_delay_q EXCEPT ![t] = d]
      BY <1>1, <1>2, <2>1, InsertDelay
    <3>. QED
      BY <1>1, <3>1, Constants DEF ThreadInv
  <2>2. CASE n = 0
    BY <1>1, <1>2, <2>2 DEF delayVars, DelayInv, ThreadInv
  <2>. QED
    BY <2>1, <2>2
<1>. HIDE DEF q
<1>6. /\ Queues(q_items', item_sch_q', SchQ)
      /\ p_next' \in Thread /\ pending' \in BOOLEAN /\ cpu' \in CodePoint
  <2>1. "unload" \in CodePoint /\ pending \in BOOLEAN /\ cpu \in CodePoint
    BY <1>1 DEF CodePoint, KernelInv
  <2>. QED
    BY <1>2, <1>3, <1>4, <2>1, UnloadCurrent
<1>7. ThreadInv'
  BY <1>1, <1>2, <1>5, Constants, ZenonT(60) DEF ThreadInv, ThreadStateInv, IdleInv, ThdState
<1>8. KernelInv'
  BY <1>1, <1>2, <1>6, Constants DEF KernelInv, StartInv, Started, timeVars
<1>. QED
  BY <1>5, <1>6, <1>7, <1>8 DEF Inv, ItemInv

-----------------------------------------------------------------------------
(* Every action keeps the invariant *)

\* Creating a thread on a control block that is in no queue.
LEMMA CreateStep ==
    ASSUME Inv, NEW t \in Thread, t # Idle, ~Live(t), NEW prio \in Prio,
           thd_create(t, prio)
    PROVE  Inv'
<1>. DEFINE q == [q_items EXCEPT ![prio] = Append(@, t)]
            tag == [item_sch_tag EXCEPT ![t] = prio]
<1>1. ItemInv /\ DelayInv /\ ThreadInv /\ KernelInv
  BY DEF Inv
<1>2. item_sch_q[t] = NULL /\ item_delay_q[t] = NULL
  BY <1>1 DEF ThreadInv, ThreadStateInv, Live, ThdState
<1>3. /\ state' = [state EXCEPT ![t] = "READY"]
      /\ item_sch_tag' = tag
      /\ item_sch_q' = [item_sch_q EXCEPT ![t] = prio]
      /\ item_delay_tag' = [item_delay_tag EXCEPT ![t] = 0]
      /\ item_delay_q' = [item_delay_q EXCEPT ![t] = NULL]
      /\ p_schinfo' = [p_schinfo EXCEPT ![t] = FALSE]
      /\ ctx' = [ctx EXCEPT ![t] = "run"]
      /\ p_current # NULL => sch_reschedule_req(q, tag)
      /\ p_current = NULL => q_items' = q /\ p_next' = p_next /\ pending' = pending
      /\ UNCHANGED <<q_delay, timeVars, p_current, cpu, handler>>
  BY DEF thd_create, thd_init, sch_qitem_enq_fifo
<1>4. Queues(q, item_sch_q', SchQ)
  BY <1>1, <1>2, <1>3, Constants, AppendOwned DEF ItemInv
<1>5. item_sch_q'[Idle] = IdlePrio
  BY <1>1, <1>3, IdleQueued, Constants DEF ThreadInv
<1>. HIDE DEF q, tag
<1>6. /\ Queues(q_items', item_sch_q', SchQ)
      /\ pending' \in BOOLEAN
      /\ IF Started THEN p_next' \in Thread ELSE p_next' = NULL /\ ~pending'
  <2>1. CASE p_current # NULL
    <3>1. p_next \in Thread /\ pending \in BOOLEAN
      BY <1>1, <2>1 DEF KernelInv, StartInv, Started
    <3>. QED
      BY <1>3, <1>4, <1>5, <2>1, <3>1, RescheduleReq DEF Started
  <2>2. CASE p_current = NULL
    <3>1. q_items' = q /\ p_next' = p_next /\ pending' = pending
      BY <1>3, <2>2
    <3>2. p_next = NULL /\ ~pending /\ pending \in BOOLEAN
      BY <1>1, <2>2 DEF KernelInv, StartInv, Started
    <3>. QED
      BY <1>4, <2>2, <3>1, <3>2 DEF Started
  <2>. QED
    BY <2>1, <2>2
<1>7. DelayInv'
  <2>1. item_delay_q' = item_delay_q /\ q_delay' = q_delay
    BY <1>1, <1>2, <1>3 DEF ThreadInv
  <2>. QED
    BY <1>1, <2>1 DEF DelayInv
<1>8. ThreadInv'
  BY <1>1, <1>3, Constants, SchedulerAssumption
  DEF ThreadInv, ThreadStateInv, IdleInv, ThdState, tag
<1>9. KernelInv'
  BY <1>1, <1>3, <1>6, Constants
  DEF KernelInv, StartInv, Started, timeVars, CodePoint
<1>. QED
  BY <1>6, <1>7, <1>8, <1>9 DEF Inv, ItemInv

\* Suspending and deleting, of the current thread or of another one.  What the
\* handler becomes is left to the caller.
LEMMA WithdrawAndUnload ==
    ASSUME Inv, NEW t \in Thread, t # Idle, NEW s \in {"SUSPENDED", "DELETED", "FREE"},
           Withdraw(t, s), Started, NEW c, NEW pc \in CodePoint,
           \/ sch_unload_current(c, sch_qitem_remove(t), pc)
           \/ q_items' = sch_qitem_remove(t) /\ UNCHANGED <<p_next, pending, cpu>>,
           handler' \in HandlerName, UNCHANGED <<timeVars, p_current, ctx>>
    PROVE  Inv'
<1>1. ItemInv /\ DelayInv /\ ThreadInv /\ KernelInv
  BY DEF Inv
<1>2. /\ Queues(sch_qitem_remove(t), item_sch_q', SchQ)
      /\ item_sch_q'[Idle] = IdlePrio
      /\ DelayInv' /\ ThreadInv'
  BY <1>1, WithdrawStep
<1>3. p_next \in Thread /\ pending \in BOOLEAN /\ cpu \in CodePoint
  BY <1>1 DEF KernelInv, StartInv
<1>4. /\ Queues(q_items', item_sch_q', SchQ)
      /\ p_next' \in Thread /\ pending' \in BOOLEAN /\ cpu' \in CodePoint
  <2>1. CASE sch_unload_current(c, sch_qitem_remove(t), pc)
    BY <1>2, <1>3, <2>1, UnloadCurrent
  <2>2. CASE q_items' = sch_qitem_remove(t) /\ UNCHANGED <<p_next, pending, cpu>>
    <3>1. q_items' = sch_qitem_remove(t) /\ p_next' = p_next /\ pending' = pending
          /\ cpu' = cpu
      BY <2>2
    <3>. QED
      BY <1>2, <1>3, <3>1
  <2>. QED
    BY <2>1, <2>2
<1>5. KernelInv'
  BY <1>1, <1>4 DEF KernelInv, StartInv, Started, timeVars
<1>. QED
  BY <1>2, <1>4, <1>5 DEF Inv, ItemInv

LEMMA DeleteStep ==
    ASSUME Inv, NEW t \in Thread, t # Idle, Started, NEW c, NEW s \in {"DELETED", "FREE"},
           thd_delete(c, t, s)
    PROVE  Inv'
<1>1. "exit" \in CodePoint /\ handler' \in HandlerName
  BY DEF thd_delete, CodePoint, Inv, KernelInv
<1>2. \/ sch_unload_current(c, sch_qitem_remove(t), "exit")
      \/ q_items' = sch_qitem_remove(t) /\ UNCHANGED <<p_next, pending, cpu>>
  BY DEF thd_delete
<1>3. Withdraw(t, s) /\ UNCHANGED <<timeVars, p_current, ctx>>
  BY DEF thd_delete
<1>. QED
  BY <1>1, <1>2, <1>3, WithdrawAndUnload

LEMMA SuspendStep ==
    ASSUME Inv, NEW t \in Thread, t # Idle, NEW c, os_thread_suspend(c, t)
    PROVE  Inv'
<1>1. "unload" \in CodePoint /\ handler' \in HandlerName
  BY DEF os_thread_suspend, assert_resumed, HandlerName, CodePoint, Inv, KernelInv
<1>2. \/ sch_unload_current(c, sch_qitem_remove(t), "unload")
      \/ q_items' = sch_qitem_remove(t) /\ UNCHANGED <<p_next, pending, cpu>>
  BY DEF os_thread_suspend
<1>3. Withdraw(t, "SUSPENDED") /\ UNCHANGED <<timeVars, p_current, ctx>> /\ Started
  BY DEF os_thread_suspend
<1>. QED
  BY <1>1, <1>2, <1>3, WithdrawAndUnload

\* Steps that only choose the next thread.
LEMMA ChooseStep ==
    ASSUME Inv, sch_set_next_thread(q_items),
           UNCHANGED <<state, item_sch_tag, item_sch_q, delayVars, p_schinfo, timeVars>>,
           p_current' \in Thread, pending' \in BOOLEAN, cpu' \in CodePoint,
           ctx' \in [Thread -> CodePoint], handler' \in HandlerName
    PROVE  Inv'
<1>1. ItemInv /\ DelayInv /\ ThreadInv /\ KernelInv
  BY DEF Inv
<1>2. Queues(q_items', item_sch_q, SchQ) /\ p_next' \in Thread
  BY <1>1, IdleQueued, SetNextThread DEF ItemInv
<1>3. ItemInv' /\ DelayInv'
  BY <1>1, <1>2 DEF ItemInv, DelayInv, delayVars
<1>4. ThreadInv'
  BY <1>1 DEF ThreadInv, ThreadStateInv, IdleInv, delayVars
<1>5. KernelInv'
  BY <1>1, <1>2, Constants DEF KernelInv, StartInv, Started, timeVars
<1>. QED
  BY <1>3, <1>4, <1>5 DEF Inv

LEMMA YieldStep == ASSUME Inv, NEW c, os_thread_yield(c) PROVE Inv'
<1>1. /\ sch_unload_current(c, q_items, "unload")
      /\ UNCHANGED <<state, item_sch_tag, item_sch_q, delayVars, p_schinfo, timeVars>>
      /\ UNCHANGED <<p_current, ctx>> /\ Started
  BY DEF os_thread_yield
<1>2. handler' \in HandlerName
  BY DEF os_thread_yield, assert_resumed, HandlerName, Inv, KernelInv
<1>3. /\ pending \in BOOLEAN /\ cpu \in CodePoint /\ "unload" \in CodePoint
      /\ p_current \in Thread /\ ctx \in [Thread -> CodePoint]
      /\ Queues(q_items, item_sch_q, SchQ) /\ item_sch_q[Idle] = IdlePrio
  BY <1>1, IdleQueued DEF Inv, ItemInv, KernelInv, CodePoint, Started
<1>4. pending' \in BOOLEAN /\ cpu' \in CodePoint
  BY <1>1, <1>3, UnloadCurrent
<1>5. sch_set_next_thread(q_items)
  BY <1>1 DEF sch_unload_current
<1>6. p_current' \in Thread /\ ctx' \in [Thread -> CodePoint]
  BY <1>1, <1>3
<1>. QED
  BY <1>1, <1>2, <1>4, <1>5, <1>6, ChooseStep

LEMMA ResumeStep ==
    ASSUME Inv, NEW t \in Thread, NEW c, os_thread_resume(c, t) PROVE Inv'
<1>1. ItemInv' /\ DelayInv' /\ ThreadInv'
  BY ReadyStep DEF Inv, os_thread_resume
<1>2. KernelInv'
  BY DEF Inv, os_thread_resume, KernelInv, StartInv, Started, timeVars, schVars
<1>. QED
  BY <1>1, <1>2 DEF Inv

LEMMA SetPriorityStep ==
    ASSUME Inv, NEW t \in Thread, t # Idle, NEW prio \in Prio, NEW c,
           os_thread_set_priority(c, t, prio)
    PROVE  Inv'
<1>. DEFINE o == [item_sch_q EXCEPT ![t] = NULL]
            tag == [item_sch_tag EXCEPT ![t] = prio]
<1>1. ItemInv /\ DelayInv /\ ThreadInv /\ KernelInv
  BY DEF Inv
<1>2. /\ item_sch_tag' = tag
      /\ UNCHANGED <<state, p_schinfo, delayVars, timeVars, schVars>>
      /\ tag \in [Thread -> Prio] /\ tag \in [Thread -> Nat]
      /\ tag[t] = prio /\ tag[Idle] = IdlePrio /\ prio \in SchQ
      /\ \A u \in Thread \ {t} : tag[u] = item_sch_tag[u]
  BY <1>1, Constants DEF os_thread_set_priority, ThreadInv, IdleInv
<1>3. Queues(sch_qitem_remove(t), o, SchQ) /\ o[t] = NULL
  BY <1>1, Constants, RemoveOwned DEF ItemInv, ThreadInv, sch_qitem_remove, Without
<1>. HIDE DEF tag
<1>4. /\ ItemInv'
      /\ \/ state[t] \in {"DELETED", "SUSPENDED"} /\ item_sch_q' = item_sch_q
         \/ state[t] = "READY" /\ item_sch_q' = [item_sch_q EXCEPT ![t] = prio]
         \/ state[t] = "BLOCKED" /\ item_sch_q' = item_sch_q
  <2>1. CASE state[t] \in {"DELETED", "SUSPENDED"}
    <3>1. item_sch_q' = item_sch_q /\ q_items' = q_items
      BY <2>1 DEF os_thread_set_priority
    <3>. QED
      BY <1>1, <2>1, <3>1 DEF ItemInv
  <2>2. CASE state[t] = "READY"
    <3>1. item_sch_q[t] # NULL
      BY <1>1, <2>2, Constants DEF ThreadInv, ThreadStateInv
    <3>2. /\ item_sch_q' = [item_sch_q EXCEPT ![t] = prio]
          /\ q_items' = [sch_qitem_remove(t) EXCEPT ![prio] = Append(@, t)]
      BY <2>2, <3>1 DEF os_thread_set_priority, sch_qitem_enq_fifo
    <3>3. item_sch_q' = [o EXCEPT ![t] = prio]
      BY <1>1, <3>2 DEF ThreadInv
    <3>4. Queues([sch_qitem_remove(t) EXCEPT ![prio] = Append(@, t)],
                 [o EXCEPT ![t] = prio], SchQ)
      BY <1>2, <1>3, Constants, AppendOwned
    <3>5. ItemInv'
      BY <3>2, <3>3, <3>4 DEF ItemInv
    <3>. QED
      BY <2>2, <3>2, <3>5
  <2>3. CASE state[t] = "BLOCKED"
    <3>1. CASE item_sch_q[t] = NULL
      <4>1. item_sch_q' = item_sch_q /\ q_items' = q_items
        BY <2>3, <3>1 DEF os_thread_set_priority
      <4>. QED
        BY <1>1, <2>3, <4>1 DEF ItemInv
    <3>2. CASE item_sch_q[t] # NULL
      <4>. DEFINE k == item_sch_q[t]
      <4>1. k \in SchQ
        BY <1>1, <3>2 DEF ThreadInv
      <4>2. /\ item_sch_q' = item_sch_q
            /\ q_items' = [sch_qitem_remove(t) EXCEPT ![k] = sch_qitem_enq_prio(@, t, tag)]
        BY <1>2, <2>3, <3>2 DEF os_thread_set_priority
      <4>3. item_sch_q = [o EXCEPT ![t] = k]
        BY <1>1 DEF ThreadInv
      <4>. HIDE DEF k
      <4>4. Queues([sch_qitem_remove(t) EXCEPT ![k] = sch_qitem_enq_prio(@, t, tag)],
                   [o EXCEPT ![t] = k], SchQ)
        BY <1>2, <1>3, <4>1, Constants, EnqPrioOwned
      <4>5. ItemInv'
        BY <4>2, <4>3, <4>4 DEF ItemInv
      <4>. QED
        BY <2>3, <4>2, <4>5
    <3>. QED
      BY <3>1, <3>2
  <2>. QED
    BY <2>1, <2>2, <2>3 DEF os_thread_set_priority
<1>5. DelayInv'
  BY <1>1, <1>2 DEF DelayInv, delayVars
<1>6. ThreadInv'
  BY <1>1, <1>2, <1>4, Constants DEF ThreadInv, ThreadStateInv, IdleInv, delayVars
<1>7. KernelInv'
  BY <1>1, <1>2 DEF KernelInv, StartInv, Started, timeVars, schVars
<1>. QED
  BY <1>4, <1>5, <1>6, <1>7 DEF Inv

LEMMA TickStep == Inv /\ heartbeat_tick => Inv'
<1>. SUFFICES ASSUME Inv, heartbeat_tick PROVE Inv'
  OBVIOUS
<1>1. /\ UNCHANGED <<state, p_schinfo, itemVars, delayVars, p_current, p_next, pending,
                     cpu, ctx>>
      /\ p_delayq_normal' \in DelayQ /\ p_delayq_overflow' \in DelayQ
      /\ handler' \in HandlerName
  BY DEF heartbeat_tick, Inv, KernelInv, HandlerName
<1>2. timestamp' \in 0 .. (UintMod - 1)
  <2>1. timestamp' = (timestamp + 1) % UintMod
    BY DEF heartbeat_tick
  <2>. QED
    BY <2>1, WakeupRange DEF Inv, KernelInv
<1>3. ItemInv' /\ DelayInv'
  BY <1>1 DEF Inv, ItemInv, DelayInv, itemVars, delayVars
<1>4. ThreadInv'
  BY <1>1 DEF Inv, ThreadInv, ThreadStateInv, IdleInv, itemVars, delayVars
<1>5. KernelInv'
  <2>1. Started /\ p_next \in Thread
    BY DEF heartbeat_tick, Inv, KernelInv, StartInv
  <2>2. pending' \in BOOLEAN
    BY <1>1 DEF Inv, KernelInv
  <2>. QED
    BY <1>1, <1>2, <2>1, <2>2 DEF Inv, KernelInv, StartInv, Started
<1>. QED
  BY <1>3, <1>4, <1>5 DEF Inv

LEMMA EvictStep == Inv /\ heartbeat_evict => Inv'
<1>. SUFFICES ASSUME Inv, heartbeat_evict PROVE Inv'
  OBVIOUS
<1>. DEFINE t == Head(q_delay[p_delayq_normal])
<1>1. t \in Thread
  <2>1. q_delay[p_delayq_normal] \in Seq(Thread) /\ q_delay[p_delayq_normal] # <<>>
    BY DEF Inv, DelayInv, Queues, KernelInv, heartbeat_evict, Due
  <2>. QED
    BY <2>1
<1>2. ItemInv' /\ DelayInv' /\ ThreadInv'
  BY <1>1, ReadyStep DEF Inv, heartbeat_evict
<1>3. KernelInv'
  BY DEF Inv, heartbeat_evict, KernelInv, StartInv, Started, timeVars, schVars
<1>. QED
  BY <1>2, <1>3 DEF Inv

LEMMA DoneStep == Inv /\ heartbeat_done => Inv'
<1>. SUFFICES ASSUME Inv, heartbeat_done PROVE Inv'
  OBVIOUS
<1>1. /\ p_current \in Thread /\ cpu \in CodePoint /\ ctx \in [Thread -> CodePoint]
      /\ handler = "heartbeat" /\ handler' = "none"
      /\ UNCHANGED <<p_current, cpu, ctx>>
      /\ sch_set_next_thread(q_items)
      /\ UNCHANGED <<state, item_sch_tag, item_sch_q, delayVars, p_schinfo, timeVars>>
  BY DEF heartbeat_done, Inv, KernelInv, StartInv, Started
<1>2. pending' \in BOOLEAN
  BY DEF heartbeat_done
<1>3. /\ p_current' \in Thread /\ cpu' \in CodePoint /\ ctx' \in [Thread -> CodePoint]
      /\ handler' \in HandlerName
  BY <1>1 DEF HandlerName
<1>. QED
  BY <1>1, <1>2, <1>3, ChooseStep

LEMMA StartStep == Inv /\ os_start => Inv'
<1>. SUFFICES ASSUME Inv, os_start PROVE Inv'
  OBVIOUS
<1>1. /\ sch_set_next_thread(q_items)
      /\ p_current' = p_next' /\ cpu' = ctx[p_next']
      /\ UNCHANGED <<state, item_sch_tag, item_sch_q, delayVars, p_schinfo, timeVars>>
      /\ UNCHANGED <<pending, ctx, handler>>
  BY DEF os_start
<1>2. /\ pending \in BOOLEAN /\ ctx \in [Thread -> CodePoint] /\ handler \in HandlerName
      /\ Queues(q_items, item_sch_q, SchQ) /\ item_sch_q[Idle] = IdlePrio
  BY IdleQueued DEF Inv, ItemInv, KernelInv
<1>3. p_next' \in Thread
  BY <1>1, <1>2, SetNextThread
<1>4. pending' \in BOOLEAN
  BY <1>1, <1>2
<1>5. /\ p_current' \in Thread /\ cpu' \in CodePoint /\ ctx' \in [Thread -> CodePoint]
      /\ handler' \in HandlerName
  BY <1>1, <1>2, <1>3
<1>. QED
  BY <1>1, <1>4, <1>5, ChooseStep

LEMMA SwitchStep ==
    ASSUME Inv, contextsw_req \/ context_switch \/ unload_return PROVE Inv'
<1>1. /\ UNCHANGED <<state, p_schinfo, itemVars, delayVars, timeVars, p_next>>
      /\ Started
  BY DEF contextsw_req, context_switch, unload_return, Inv, KernelInv, StartInv
<1>2. pending' \in BOOLEAN
  BY DEF contextsw_req, context_switch, unload_return, Inv, KernelInv
<1>3. /\ p_current' \in Thread /\ cpu' \in CodePoint /\ ctx' \in [Thread -> CodePoint]
      /\ handler' \in HandlerName
  <2>1. /\ p_current \in Thread /\ p_next \in Thread /\ cpu \in CodePoint
        /\ ctx \in [Thread -> CodePoint] /\ handler \in HandlerName
    BY <1>1 DEF Inv, KernelInv, StartInv, Started
  <2>2. CASE contextsw_req
    BY <2>1, <2>2 DEF contextsw_req, CodePoint
  <2>3. CASE context_switch
    BY <2>1, <2>3 DEF context_switch
  <2>4. CASE unload_return
    BY <2>1, <2>4 DEF unload_return, CodePoint, HandlerName
  <2>. QED
    BY <2>2, <2>3, <2>4
<1>4. ItemInv' /\ DelayInv'
  BY <1>1 DEF Inv, ItemInv, DelayInv, itemVars, delayVars
<1>5. ThreadInv'
  BY <1>1 DEF Inv, ThreadInv, ThreadStateInv, IdleInv, itemVars, delayVars
<1>6. KernelInv'
  BY <1>1, <1>2, <1>3, Constants DEF Inv, KernelInv, StartInv, Started, timeVars
<1>. QED
  BY <1>4, <1>5, <1>6 DEF Inv

-----------------------------------------------------------------------------
(* The theorems *)

LEMMA InvInit == Init => Inv
<1>. SUFFICES ASSUME Init PROVE Inv
  OBVIOUS
<1>1. /\ q_items \in [SchQ -> Seq(Thread)] /\ q_delay \in [DelayQ -> Seq(Thread)]
      /\ \A k \in SchQ \ {IdlePrio} : q_items[k] = <<>>
      /\ q_items[IdlePrio] = <<Idle>>
      /\ \A k \in DelayQ : q_delay[k] = <<>>
  BY Constants DEF Init, sch_init
<1>2. /\ IsInjective(<<>>) /\ Range(<<>>) = {}
      /\ IsInjective(<<Idle>>) /\ Range(<<Idle>>) = {Idle}
  BY DEF IsInjective, Range
<1>3. ItemInv
  BY <1>1, <1>2, Constants DEF Init, sch_init, ItemInv, Queues, Owned
<1>4. DelayInv
  BY <1>1, <1>2, Constants DEF Init, sch_init, DelayInv, Queues, Owned
<1>5. ThreadInv
  BY Constants, SchedulerAssumption
  DEF Init, sch_init, ThreadInv, ThreadStateInv, IdleInv, ThdState, IdlePrio, Prio
<1>6. KernelInv
  <2>1. StartInv /\ pending \in BOOLEAN
    BY DEF Init, sch_init, StartInv, Started
  <2>2. p_delayq_normal \in DelayQ /\ p_delayq_overflow \in DelayQ
    BY DEF Init, sch_init, DelayQ
  <2>3. timestamp \in 0 .. (UintMod - 1) /\ ctx \in [Thread -> CodePoint]
    BY SchedulerAssumption DEF Init, sch_init, CodePoint
  <2>4. /\ p_current \in Thread \cup {NULL} /\ p_next \in Thread \cup {NULL}
        /\ cpu \in CodePoint /\ handler \in HandlerName
    BY DEF Init, sch_init, CodePoint, HandlerName
  <2>. QED
    BY <2>1, <2>2, <2>3, <2>4 DEF KernelInv
<1>. QED
  BY <1>3, <1>4, <1>5, <1>6 DEF Inv

\* A thread that calls the API is the current one and not the idle thread.
LEMMA CallingThread ==
    ASSUME Inv, NEW api, MayCall("thread", api) PROVE p_current \in Thread \ {Idle}
<1>1. p_current \notin {NULL, Idle}
  BY DEF MayCall
<1>. QED
  BY <1>1 DEF Inv, KernelInv

LEMMA InvStep == Inv /\ [Next]_vars => Inv'
<1>. SUFFICES ASSUME Inv, [Next]_vars PROVE Inv'
  OBVIOUS
<1>1. ASSUME NEW c \in Context, NEW t \in Thread \ {Idle}, NEW prio \in Prio,
             os_thread_create(c, t, prio) \/ thd_create_static(c, t, prio)
      PROVE  Inv'
  <2>1. ~Live(t) /\ thd_create(t, prio)
    BY <1>1 DEF os_thread_create, thd_create_static, Live
  <2>. QED
    BY <2>1, CreateStep
<1>2. ASSUME NEW c \in Context, NEW t \in Thread \ {Idle},
             os_thread_delete(c, t) \/ thd_delete_static(c, t)
      PROVE  Inv'
  BY <1>2, DeleteStep DEF os_thread_delete, thd_delete_static
<1>3. ASSUME NEW n \in Timeouts, os_thread_delay(n) PROVE Inv'
  <2>1. MayCall("thread", "delay") /\ thd_block_current(NULL, FALSE, n)
    BY <1>3 DEF os_thread_delay
  <2>2. n \in Nat /\ n # 0
    BY SchedulerAssumption
  <2>3. p_current \in Thread \ {Idle}
    BY <2>1, CallingThread
  <2>. QED
    BY <2>1, <2>2, <2>3, BlockStep
<1>4. CASE CallNext
  BY <1>1, <1>2, <1>3, <1>4, SuspendStep, ResumeStep, SetPriorityStep, YieldStep
  DEF CallNext
<1>5. CASE HeartbeatNext
  BY <1>5, TickStep, EvictStep, DoneStep DEF HeartbeatNext
<1>6. CASE SwitchNext
  BY <1>6, StartStep, SwitchStep DEF SwitchNext
<1>7. CASE UNCHANGED vars
  BY <1>7 DEF vars, Inv, ItemInv, DelayInv, ThreadInv, KernelInv, ThreadStateInv,
     IdleInv, StartInv, Started, itemVars, delayVars, timeVars, schVars
<1>. QED
  BY <1>4, <1>5, <1>6, <1>7 DEF Next

\* Every variable keeps its type: no queue operation is applied to an empty or
\* a wrong queue, the choice of the next thread is always defined, and times
\* stay within the width of os_uint_t.
THEOREM TypeCorrect == Spec => []TypeOK
BY InvInit, InvStep, InvImplies, PTL DEF Spec

\* Queues and items agree in every reachable state.
THEOREM Ownership == Spec => []QueueOwnership
BY InvInit, InvStep, InvImplies, PTL DEF Spec

\* Every thread is queued where its state says, in every reachable state.
THEOREM ThreadStates == Spec => []ThreadStateInv
BY InvInit, InvStep, InvImplies, PTL DEF Spec

-----------------------------------------------------------------------------
(* What the scheduler's own steps do to threads in wait queues, for the     *)
(* modules of the resources.                                                *)

LEMMA WaitQNames == WaitQ \subseteq SchQ /\ NULL \notin WaitQ /\ \A p \in Prio : p \notin WaitQ
BY Constants

\* Whoever is in a wait queue afterwards was in it before, with the same
\* scheduling information.
KeepsWaiters ==
    \A t \in Thread : item_sch_q'[t] \in WaitQ =>
        item_sch_q'[t] = item_sch_q[t] /\ p_schinfo'[t] = p_schinfo[t]

LEMMA UnchangedKeeps == UNCHANGED <<item_sch_q, p_schinfo>> => KeepsWaiters
BY DEF KeepsWaiters

\* One thread goes to a ready queue or to none.
LEMMA MoveKeeps ==
    ASSUME Inv, NEW t \in Thread, NEW k \in Prio \cup {NULL}, NEW b,
           item_sch_q' = [item_sch_q EXCEPT ![t] = k],
           p_schinfo' = [p_schinfo EXCEPT ![t] = b]
    PROVE  KeepsWaiters
BY WaitQNames DEF Inv, ThreadInv, KeepsWaiters

LEMMA ReadyKeeps ==
    ASSUME Inv, NEW t \in Thread, thd_ready(t) PROVE KeepsWaiters
<1>1. item_sch_tag[t] \in Prio
  BY DEF Inv, ThreadInv
<1>. QED
  BY <1>1, MoveKeeps DEF thd_ready

LEMMA WithdrawKeeps ==
    ASSUME Inv, NEW t \in Thread, NEW s, Withdraw(t, s) PROVE KeepsWaiters
BY MoveKeeps DEF Withdraw

LEMMA SetPriorityKeeps ==
    ASSUME Inv, NEW t \in Thread, NEW prio \in Prio, NEW c,
           os_thread_set_priority(c, t, prio)
    PROVE  KeepsWaiters
<1>1. p_schinfo' = p_schinfo
  BY DEF os_thread_set_priority
<1>2. \/ item_sch_q' = item_sch_q
      \/ item_sch_q' = [item_sch_q EXCEPT ![t] = prio]
  BY DEF os_thread_set_priority
<1>3. p_schinfo = [p_schinfo EXCEPT ![t] = p_schinfo[t]]
  BY DEF Inv, ThreadInv
<1>. QED
  BY <1>1, <1>2, <1>3, UnchangedKeeps, MoveKeeps

\* No step of the scheduler runs in a loop of a resource, or enters one.
LEMMA NextKeeps ==
    ASSUME Inv, Next
    PROVE  KeepsWaiters /\ handler # "wake" /\ handler' # "wake"
<1>1. ASSUME NEW c \in Context, NEW t \in Thread \ {Idle}, NEW prio \in Prio,
             os_thread_create(c, t, prio) \/ thd_create_static(c, t, prio)
      PROVE  KeepsWaiters /\ handler = "none" /\ handler' = handler
  <2>1. handler = "none" /\ thd_create(t, prio)
    BY <1>1 DEF os_thread_create, thd_create_static, MayCall
  <2>. QED
    BY <2>1, MoveKeeps DEF thd_create, thd_init
<1>2. ASSUME NEW c \in Context, NEW t \in Thread \ {Idle},
             os_thread_delete(c, t) \/ thd_delete_static(c, t)
      PROVE  KeepsWaiters /\ handler = "none" /\ handler' = handler
  <2>1. PICK s : handler = "none" /\ thd_delete(c, t, s)
    BY <1>2 DEF os_thread_delete, thd_delete_static, MayCall
  <2>. QED
    BY <2>1, WithdrawKeeps DEF thd_delete
<1>3. ASSUME NEW c \in Context, NEW t \in Thread \ {Idle}, os_thread_suspend(c, t)
      PROVE  KeepsWaiters /\ handler = "none" /\ handler' # "wake"
  BY <1>3, WithdrawKeeps DEF os_thread_suspend, MayCall, assert_resumed
<1>4. ASSUME NEW c \in Context, NEW t \in Thread \ {Idle}, os_thread_resume(c, t)
      PROVE  KeepsWaiters /\ handler = "none" /\ handler' = handler
  BY <1>4, ReadyKeeps DEF os_thread_resume, MayCall, schVars
<1>5. ASSUME NEW c \in Context, NEW t \in Thread \ {Idle}, NEW prio \in Prio,
             os_thread_set_priority(c, t, prio)
      PROVE  KeepsWaiters /\ handler = "none" /\ handler' = handler
  BY <1>5, SetPriorityKeeps DEF os_thread_set_priority, MayCall, schVars
<1>6. ASSUME NEW c \in Context, os_thread_yield(c)
      PROVE  KeepsWaiters /\ handler = "none" /\ handler' # "wake"
  BY <1>6, UnchangedKeeps DEF os_thread_yield, MayCall, assert_resumed
<1>7. ASSUME NEW n \in Timeouts, os_thread_delay(n)
      PROVE  KeepsWaiters /\ handler = "none" /\ handler' = handler
  <2>1. /\ handler = "none" /\ handler' = handler
        /\ item_sch_q' = [item_sch_q EXCEPT ![p_current] = NULL]
        /\ p_schinfo' = [p_schinfo EXCEPT ![p_current] = FALSE]
    BY <1>7 DEF os_thread_delay, MayCall, thd_block_current
  <2>2. p_current \in Thread
    BY <1>7, CallingThread DEF os_thread_delay
  <2>. QED
    BY <2>1, <2>2, MoveKeeps
<1>8. CASE CallNext
  BY <1>1, <1>2, <1>3, <1>4, <1>5, <1>6, <1>7, <1>8 DEF CallNext
<1>9. CASE HeartbeatNext
  <2>1. CASE heartbeat_tick
    BY <2>1, UnchangedKeeps DEF heartbeat_tick, itemVars
  <2>2. CASE heartbeat_evict
    <3>. DEFINE t == Head(q_delay[p_delayq_normal])
    <3>1. q_delay[p_delayq_normal] \in Seq(Thread) /\ q_delay[p_delayq_normal] # <<>>
      BY <2>2 DEF Inv, DelayInv, Queues, KernelInv, heartbeat_evict, Due
    <3>2. t \in Thread
      BY <3>1
    <3>3. thd_ready(t) /\ handler = "heartbeat" /\ handler' = handler
      BY <2>2 DEF heartbeat_evict, schVars
    <3>. QED
      BY <3>2, <3>3, ReadyKeeps
  <2>3. CASE heartbeat_done
    BY <2>3, UnchangedKeeps DEF heartbeat_done
  <2>. QED
    BY <1>9, <2>1, <2>2, <2>3 DEF HeartbeatNext
<1>10. CASE SwitchNext
  <2>1. CASE os_start
    <3>1. handler = "none"
      BY <2>1 DEF os_start, Inv, KernelInv, StartInv, Started
    <3>. QED
      BY <2>1, <3>1, UnchangedKeeps DEF os_start
  <2>2. CASE contextsw_req
    BY <2>2, UnchangedKeeps DEF contextsw_req, itemVars
  <2>3. CASE context_switch
    BY <2>3, UnchangedKeeps DEF context_switch, itemVars
  <2>4. CASE unload_return
    BY <2>4, UnchangedKeeps DEF unload_return, itemVars
  <2>. QED
    BY <1>10, <2>1, <2>2, <2>3, <2>4 DEF SwitchNext
<1>. QED
  BY <1>8, <1>9, <1>10 DEF Next

\* The invariant speaks of the scheduler's variables only.
LEMMA InvStutter == Inv /\ UNCHANGED vars => Inv'
BY InvStep

\* A thread in a wait queue does not execute its own code: it has stopped where
\* it blocked.  After a failed assertion nothing is said.
AsleepOffCpu ==
    handler # "breakpoint" =>
        \A t \in Thread : item_sch_q[t] \in WaitQ =>
            IF t = p_current THEN cpu # "run" ELSE ctx[t] # "run"

\* Steps that leave the loaded code and the saved threads alone.
LEMMA AsleepStays ==
    ASSUME AsleepOffCpu, KeepsWaiters, handler # "breakpoint",
           UNCHANGED <<p_current, cpu, ctx>>
    PROVE  AsleepOffCpu'
BY DEF AsleepOffCpu, KeepsWaiters

\* The current thread, if it is unloaded, stops at another place than its code.
LEMMA AsleepUnload ==
    ASSUME AsleepOffCpu, KeepsWaiters, handler # "breakpoint", NEW c, NEW q,
           NEW pc \in {"unload", "exit"}, sch_unload_current(c, q, pc),
           UNCHANGED <<p_current, ctx>>
    PROVE  AsleepOffCpu'
<1>1. cpu' = cpu \/ cpu' # "run"
  BY DEF sch_unload_current
<1>. QED
  BY <1>1 DEF AsleepOffCpu, KeepsWaiters

\* Blocking always unloads: the thread that has blocked is not chosen.
LEMMA AsleepBlock ==
    ASSUME Inv, AsleepOffCpu, handler = "none", NEW s \in WaitQ, NEW info, NEW n,
           p_current \in Thread \ {Idle}, thd_block_current(s, info, n)
    PROVE  AsleepOffCpu'
<1>1. /\ item_sch_q' = [item_sch_q EXCEPT ![p_current] = s]
      /\ sch_unload_current("thread", BlockedItems(s), "unload")
      /\ UNCHANGED <<p_current, ctx, handler>>
  BY WaitQNames DEF thd_block_current, BlockedItems
<1>2. Queues(BlockedItems(s), item_sch_q', SchQ) /\ item_sch_q'[Idle] = IdlePrio
  BY <1>1, BlockQueues DEF Inv
<1>3. item_sch_q'[p_next'] \in Prio
  BY <1>1, <1>2, SetNextThread, TopPrioExists DEF sch_unload_current
<1>4. item_sch_q'[p_current] = s
  BY <1>1 DEF Inv, ThreadInv
<1>5. p_current # p_next'
  BY <1>3, <1>4, WaitQNames
<1>6. cpu' = "unload"
  BY <1>1, <1>5 DEF sch_unload_current
<1>. QED
  BY <1>1, <1>6 DEF AsleepOffCpu, Inv, ThreadInv

LEMMA NextAsleep == Inv /\ AsleepOffCpu /\ Next => AsleepOffCpu'
<1>. SUFFICES ASSUME Inv, AsleepOffCpu, Next PROVE AsleepOffCpu'
  OBVIOUS
<1>1. KeepsWaiters
  BY NextKeeps
<1>2. ASSUME NEW c \in Context, NEW t \in Thread \ {Idle}, NEW prio \in Prio,
             os_thread_create(c, t, prio) \/ thd_create_static(c, t, prio)
      PROVE  AsleepOffCpu'
  <2>1. handler = "none" /\ thd_create(t, prio)
    BY <1>2 DEF os_thread_create, thd_create_static, MayCall
  <2>2. /\ item_sch_q' = [item_sch_q EXCEPT ![t] = prio]
        /\ ctx' = [ctx EXCEPT ![t] = "run"]
        /\ UNCHANGED <<p_current, cpu, handler>>
    BY <2>1 DEF thd_create, thd_init
  <2>3. item_sch_q'[t] \notin WaitQ
    BY <2>2, WaitQNames DEF Inv, ThreadInv
  <2>. QED
    BY <1>1, <2>1, <2>2, <2>3 DEF AsleepOffCpu, KeepsWaiters, Inv, KernelInv
<1>3. ASSUME NEW c \in Context, NEW t \in Thread \ {Idle},
             \/ os_thread_delete(c, t) \/ thd_delete_static(c, t)
             \/ os_thread_suspend(c, t)
      PROVE  AsleepOffCpu'
  <2>1. /\ handler = "none" /\ UNCHANGED <<p_current, ctx>>
        /\ \/ sch_unload_current(c, sch_qitem_remove(t), "exit")
           \/ sch_unload_current(c, sch_qitem_remove(t), "unload")
           \/ cpu' = cpu
    BY <1>3 DEF os_thread_delete, thd_delete_static, thd_delete, os_thread_suspend, MayCall
  <2>. QED
    BY <1>1, <2>1, AsleepUnload, AsleepStays
<1>4. ASSUME NEW c \in Context, os_thread_yield(c) PROVE AsleepOffCpu'
  BY <1>1, <1>4, AsleepUnload DEF os_thread_yield, MayCall
<1>5. ASSUME NEW n \in Timeouts, os_thread_delay(n) PROVE AsleepOffCpu'
  <2>1. \E q : sch_unload_current("thread", q, "unload")
    BY <1>5 DEF os_thread_delay, thd_block_current
  <2>2. handler = "none" /\ UNCHANGED <<p_current, ctx>>
    BY <1>5 DEF os_thread_delay, thd_block_current, MayCall
  <2>. QED
    BY <1>1, <2>1, <2>2, AsleepUnload
<1>6. ASSUME NEW c \in Context, NEW t \in Thread \ {Idle},
             \/ os_thread_resume(c, t)
             \/ \E prio \in Prio : os_thread_set_priority(c, t, prio)
      PROVE  AsleepOffCpu'
  <2>1. handler = "none" /\ UNCHANGED <<p_current, cpu, ctx>>
    BY <1>6 DEF os_thread_resume, os_thread_set_priority, MayCall, schVars
  <2>. QED
    BY <1>1, <2>1, AsleepStays
<1>7. CASE CallNext
  BY <1>2, <1>3, <1>4, <1>5, <1>6, <1>7 DEF CallNext
<1>8. CASE HeartbeatNext
  <2>1. handler # "breakpoint" /\ UNCHANGED <<p_current, cpu, ctx>>
    BY <1>8 DEF HeartbeatNext, heartbeat_tick, heartbeat_evict, heartbeat_done, schVars
  <2>. QED
    BY <1>1, <2>1, AsleepStays
<1>9. CASE os_start
  <2>1. /\ p_current = NULL /\ cpu' = ctx[p_next'] /\ p_current' = p_next'
        /\ UNCHANGED <<ctx, handler>>
    BY <1>9 DEF os_start
  <2>2. handler # "breakpoint"
    BY <2>1 DEF Inv, KernelInv, StartInv, Started
  <2>. QED
    BY <1>1, <2>1, <2>2, Constants DEF AsleepOffCpu, KeepsWaiters
<1>10. CASE contextsw_req
  <2>1. cpu' # "run" /\ UNCHANGED <<p_current, ctx, handler>> /\ handler = "none"
    BY <1>10 DEF contextsw_req
  <2>. QED
    BY <1>1, <2>1 DEF AsleepOffCpu, KeepsWaiters
<1>11. CASE context_switch
  <2>1. /\ handler = "none"
        /\ ctx' = [ctx EXCEPT ![p_current] = cpu]
        /\ cpu' = ctx'[p_next] /\ p_current' = p_next
    BY <1>11 DEF context_switch
  <2>2. ctx \in [Thread -> CodePoint]
    BY DEF Inv, KernelInv
  <2>3. \A t \in Thread : item_sch_q'[t] \in WaitQ => ctx'[t] # "run"
    BY <1>1, <2>1, <2>2 DEF AsleepOffCpu, KeepsWaiters
  <2>. QED
    BY <2>1, <2>3 DEF AsleepOffCpu
<1>12. CASE unload_return
  <2>. SUFFICES ASSUME handler' # "breakpoint" PROVE AsleepOffCpu'
    BY DEF AsleepOffCpu
  <2>1. /\ handler = "none" /\ state[p_current] = "READY"
        /\ UNCHANGED <<item_sch_q, p_current, ctx>>
    BY <1>12 DEF unload_return, ResumeAsserts, itemVars
  <2>2. \A t \in Thread : item_sch_q[t] \in WaitQ => t # p_current
    BY <2>1, WaitQNames DEF Inv, ThreadInv, ThreadStateInv
  <2>. QED
    BY <2>1, <2>2 DEF AsleepOffCpu
<1>. QED
  BY <1>7, <1>8, <1>9, <1>10, <1>11, <1>12 DEF Next, SwitchNext

-----------------------------------------------------------------------------
(* The order of the delay queues *)

\* The arithmetic of os_uint_t: a sum wraps around at most once.
LEMMA WrapAround ==
    ASSUME NEW a \in 0 .. (UintMod - 1), NEW n \in 0 .. (UintMod - 1)
    PROVE  (a + n) % UintMod = IF a + n < UintMod THEN a + n ELSE a + n - UintMod
<1>1. UintMod \in Nat /\ UintMod > 0 /\ a \in Nat /\ n \in Nat
  BY SchedulerAssumption
<1>2. CASE a + n < UintMod
  BY <1>1, <1>2
<1>3. CASE ~(a + n < UintMod)
  <2>. DEFINE b == a + n - UintMod
  <2>1. b \in 0 .. (UintMod - 1) /\ a + n = b + UintMod
    BY <1>1, <1>3
  <2>. HIDE DEF b
  <2>2. (b + UintMod) % UintMod = b
    BY <1>1, <2>1
  <2>. QED
    BY <1>3, <2>1, <2>2 DEF b
<1>. QED
  BY <1>2, <1>3

\* Steps that take items out of the delay queues, or leave them alone.
LEMMA OrderKept ==
    ASSUME Inv, DelayOrder, UNCHANGED timeVars, handler' = handler \/ handler = "none",
           \A q \in DelayQ : /\ Sorted(q_delay'[q], item_delay_tag')
                             /\ Range(q_delay'[q]) \subseteq Range(q_delay[q]),
           \A q \in DelayQ : \A t \in Range(q_delay[q]) :
              item_delay_tag'[t] = item_delay_tag[t]
    PROVE  DelayOrder'
BY DEF DelayOrder, timeVars, Inv, KernelInv

LEMMA OrderUnchanged ==
    ASSUME Inv, DelayOrder, UNCHANGED <<delayVars, timeVars>>,
           handler' = handler \/ handler = "none"
    PROVE  DelayOrder'
BY OrderKept DEF delayVars, DelayOrder

LEMMA OrderRemoval ==
    ASSUME Inv, DelayOrder, NEW t \in Thread, q_delay' = delay_item_remove(t),
           UNCHANGED <<item_delay_tag, timeVars>>,
           handler' = handler \/ handler = "none"
    PROVE  DelayOrder'
<1>1. q_delay' = Without(q_delay, item_delay_q, t)
  BY DEF delay_item_remove, Without
<1>2. ASSUME NEW q \in DelayQ
      PROVE  /\ Sorted(q_delay'[q], item_delay_tag)
             /\ Range(q_delay'[q]) \subseteq Range(q_delay[q])
  BY <1>1, WithoutSorted DEF Inv, DelayInv, DelayOrder
<1>. QED
  BY <1>2, OrderKept

\* A control block in no delay queue gets another wake-up time.
LEMMA OrderFresh ==
    ASSUME Inv, DelayOrder, NEW t \in Thread, item_delay_q[t] = NULL, NEW n,
           item_delay_tag' = [item_delay_tag EXCEPT ![t] = n],
           UNCHANGED <<q_delay, timeVars, handler>>
    PROVE  DelayOrder'
<1>1. ASSUME NEW q \in DelayQ
      PROVE  /\ Sorted(q_delay[q], item_delay_tag')
             /\ \A u \in Range(q_delay[q]) : item_delay_tag'[u] = item_delay_tag[u]
  <2>1. /\ t \notin Range(q_delay[q]) /\ q_delay[q] \in Seq(Thread)
        /\ Sorted(q_delay[q], item_delay_tag)
    BY Constants DEF Inv, DelayInv, Queues, Owned, DelayOrder
  <2>2. Range(q_delay[q]) \subseteq Thread
    BY <2>1 DEF Range
  <2>3. \A u \in Range(q_delay[q]) : item_delay_tag'[u] = item_delay_tag[u]
    BY <2>1, <2>2 DEF Inv, ThreadInv
  <2>. QED
    BY <2>1, <2>3, SortedSame
<1>. QED
  BY <1>1, OrderKept

\* The wake-up time that sch_insert_delay computes is behind the time stamp or,
\* if it wraps around, before it; either way it is n ticks away.
LEMMA WakeupSide ==
    ASSUME timestamp \in 0 .. (UintMod - 1), NEW n \in 1 .. (UintMod - 1),
           NEW w, w = (timestamp + n) % UintMod
    PROVE  /\ w \in 0 .. (UintMod - 1) /\ w # timestamp
           /\ IF w < timestamp THEN UintMod + w - timestamp = n ELSE w - timestamp = n
<1>1. w = IF timestamp + n < UintMod THEN timestamp + n ELSE timestamp + n - UintMod
  BY WrapAround
<1>. QED
  BY <1>1, SchedulerAssumption

LEMMA OrderInsert ==
    ASSUME Inv, DelayOrder, NEW t \in Thread, item_delay_q[t] = NULL,
           NEW n \in 1 .. (UintMod - 1), sch_insert_delay(t, n),
           UNCHANGED <<timeVars, handler>>
    PROVE  DelayOrder'
<1>. DEFINE w == (timestamp + n) % UintMod
            tag == [item_delay_tag EXCEPT ![t] = w]
            d == IF w < timestamp THEN p_delayq_overflow ELSE p_delayq_normal
            e == sch_qitem_enq_prio(q_delay[d], t, tag)
<1>1. /\ w \in 0 .. (UintMod - 1)
      /\ w < timestamp \/ w > timestamp
  <2>1. timestamp \in 0 .. (UintMod - 1) /\ UintMod \in Nat
    BY SchedulerAssumption DEF Inv, KernelInv
  <2>2. w \in 0 .. (UintMod - 1) /\ w # timestamp
    BY <2>1, WakeupSide
  <2>. QED
    BY <2>1, <2>2
<1>2. /\ d \in DelayQ /\ d = IF w < timestamp THEN p_delayq_overflow ELSE p_delayq_normal
      /\ tag \in [Thread -> Nat] /\ tag[t] = w
      /\ \A u \in Thread \ {t} : tag[u] = item_delay_tag[u]
      /\ item_delay_tag' = tag
      /\ q_delay' = [q_delay EXCEPT ![d] = e]
  BY <1>1, SchedulerAssumption DEF Inv, ThreadInv, KernelInv, sch_insert_delay
<1>. HIDE DEF w, tag, d
<1>3. ASSUME NEW q \in DelayQ
      PROVE  /\ Sorted(q_delay[q], tag)
             /\ \A u \in Range(q_delay[q]) : u # t /\ tag[u] = item_delay_tag[u]
  <2>1. t \notin Range(q_delay[q]) /\ q_delay[q] \in Seq(Thread)
    BY Constants DEF Inv, DelayInv, Queues, Owned
  <2>2. Range(q_delay[q]) \subseteq Thread
    BY <2>1 DEF Range
  <2>3. \A u \in Range(q_delay[q]) : u # t /\ tag[u] = item_delay_tag[u]
    BY <1>2, <2>1, <2>2
  <2>. QED
    BY <2>1, <2>3, SortedSame DEF DelayOrder
<1>4. Sorted(e, tag) /\ Range(e) = Range(q_delay[d]) \cup {t}
  <2>1. Queues(q_delay, item_delay_q, DelayQ) /\ NULL \notin DelayQ
    BY Constants DEF Inv, DelayInv
  <2>. QED
    BY <1>2, <1>3, <2>1, EnqSorted
<1>. HIDE DEF e
<1>5. /\ q_delay'[d] = e /\ \A q \in DelayQ \ {d} : q_delay'[q] = q_delay[q]
  BY <1>2 DEF Inv, DelayInv, Queues
<1>6. \A q \in DelayQ : Sorted(q_delay'[q], item_delay_tag')
  BY <1>2, <1>3, <1>4, <1>5
<1>7. p_delayq_normal' # p_delayq_overflow' /\ UNCHANGED timeVars
  BY DEF DelayOrder, timeVars
<1>8. \A u \in Range(q_delay'[p_delayq_normal]) :
         \/ tag[u] > timestamp
         \/ handler # "none" /\ tag[u] = timestamp
  <2>1. CASE d = p_delayq_normal
    <3>1. w > timestamp
      BY <1>1, <1>2, <2>1 DEF DelayOrder
    <3>. QED
      BY <1>2, <1>3, <1>4, <1>5, <2>1, <3>1 DEF DelayOrder
  <2>2. CASE d # p_delayq_normal
    BY <1>3, <1>5, <2>2 DEF DelayOrder, Inv, KernelInv
  <2>. QED
    BY <2>1, <2>2
<1>9. \A u \in Range(q_delay'[p_delayq_overflow]) : tag[u] < timestamp
  <2>1. CASE d = p_delayq_overflow
    <3>1. w < timestamp
      BY <1>2, <2>1 DEF DelayOrder
    <3>. QED
      BY <1>2, <1>3, <1>4, <1>5, <2>1, <3>1 DEF DelayOrder
  <2>2. CASE d # p_delayq_overflow
    BY <1>3, <1>5, <2>2 DEF DelayOrder, Inv, KernelInv
  <2>. QED
    BY <2>1, <2>2
<1>. QED
  BY <1>2, <1>6, <1>7, <1>8, <1>9 DEF DelayOrder, timeVars

LEMMA OrderBlock ==
    ASSUME Inv, DelayOrder, NEW p_to, NEW info, NEW n \in 0 .. (UintMod - 1),
           p_current \in Thread, thd_block_current(p_to, info, n)
    PROVE  DelayOrder'
<1>1. /\ item_delay_q[p_current] = NULL /\ UNCHANGED <<timeVars, handler>>
      /\ IF n # 0 THEN sch_insert_delay(p_current, n) ELSE UNCHANGED delayVars
  BY DEF thd_block_current
<1>2. CASE n = 0
  BY <1>1, <1>2, OrderUnchanged
<1>3. CASE n # 0
  <2>1. n \in 1 .. (UintMod - 1)
    BY <1>3, SchedulerAssumption
  <2>. QED
    BY <1>1, <1>3, <2>1, OrderInsert
<1>. QED
  BY <1>2, <1>3

\* The heartbeat: every tag in the normal queue is at most one tick behind the
\* new time stamp; when the time stamp wraps that queue is empty, and every tag
\* in the other one lies before the wrap.
LEMMA OrderTick == Inv /\ DelayOrder /\ heartbeat_tick => DelayOrder' /\ handler' = "heartbeat"
<1>. SUFFICES ASSUME Inv, DelayOrder, heartbeat_tick
              PROVE  DelayOrder' /\ handler' = "heartbeat"
  OBVIOUS
<1>1. /\ timestamp \in 0 .. (UintMod - 1) /\ UintMod \in Nat /\ UintMod >= 2
      /\ 1 \in 0 .. (UintMod - 1)
      /\ item_delay_tag \in [Thread -> 0 .. (UintMod - 1)]
      /\ q_delay \in [DelayQ -> Seq(Thread)]
      /\ p_delayq_normal \in DelayQ /\ p_delayq_overflow \in DelayQ
  BY SchedulerAssumption DEF Inv, KernelInv, ThreadInv, DelayInv, Queues
<1>2. timestamp' = IF timestamp + 1 < UintMod THEN timestamp + 1 ELSE timestamp + 1 - UintMod
  BY <1>1, WrapAround DEF heartbeat_tick
<1>3. /\ handler = "none" /\ q_delay' = q_delay /\ item_delay_tag' = item_delay_tag
  BY DEF heartbeat_tick, delayVars
<1>4. \A q \in DelayQ : \A t \in Range(q_delay[q]) : item_delay_tag[t] \in 0 .. (UintMod - 1)
  BY <1>1 DEF Range
<1>5. CASE timestamp + 1 < UintMod
  <2>1. timestamp' = timestamp + 1 /\ timestamp' # 0
    BY <1>1, <1>2, <1>5
  <2>2. /\ p_delayq_normal' = p_delayq_normal /\ p_delayq_overflow' = p_delayq_overflow
        /\ handler' = "heartbeat"
    BY <2>1 DEF heartbeat_tick
  <2>3. \A t \in Range(q_delay[p_delayq_normal]) :
           item_delay_tag[t] > timestamp' \/ item_delay_tag[t] = timestamp'
    BY <1>1, <1>3, <1>4, <2>1 DEF DelayOrder
  <2>4. \A t \in Range(q_delay[p_delayq_overflow]) : item_delay_tag[t] < timestamp'
    BY <1>1, <1>4, <2>1 DEF DelayOrder
  <2>. QED
    BY <1>3, <2>2, <2>3, <2>4 DEF DelayOrder
<1>6. CASE ~(timestamp + 1 < UintMod)
  <2>1. timestamp' = 0 /\ timestamp = UintMod - 1
    BY <1>1, <1>2, <1>6
  <2>2. Range(q_delay[p_delayq_normal]) = {}
    BY <1>1, <1>3, <1>4, <2>1 DEF DelayOrder
  <2>3. q_delay[p_delayq_normal] = <<>>
    BY <1>1, <2>2, EmptyRange
  <2>4. /\ p_delayq_normal' = p_delayq_overflow /\ p_delayq_overflow' = p_delayq_normal
        /\ handler' = "heartbeat"
    BY <2>1, <2>3 DEF heartbeat_tick
  <2>5. \A t \in Range(q_delay[p_delayq_overflow]) :
           item_delay_tag[t] > 0 \/ item_delay_tag[t] = 0
    BY <1>1, <1>4
  <2>. QED
    BY <1>3, <2>1, <2>2, <2>4, <2>5 DEF DelayOrder
<1>. QED
  BY <1>5, <1>6

\* When the eviction loop has ended nobody in the normal queue is due, because
\* its first item is not.
LEMMA OrderDone == Inv /\ DelayOrder /\ heartbeat_done => DelayOrder'
<1>. SUFFICES ASSUME Inv, DelayOrder, heartbeat_done PROVE DelayOrder'
  OBVIOUS
<1>. DEFINE s == q_delay[p_delayq_normal]
<1>1. /\ timestamp \in 0 .. (UintMod - 1)
      /\ item_delay_tag \in [Thread -> Nat]
      /\ s \in Seq(Thread) /\ Sorted(s, item_delay_tag)
      /\ ~Due /\ UNCHANGED <<delayVars, timeVars>>
  BY SchedulerAssumption
  DEF Inv, KernelInv, ThreadInv, DelayInv, Queues, DelayOrder, heartbeat_done
<1>2. ASSUME NEW t \in Range(s) PROVE item_delay_tag[t] > timestamp
  <2>. HIDE DEF s
  <2>1. Head(s) \in Thread /\ item_delay_tag[Head(s)] <= item_delay_tag[t]
    BY <1>1, SortedHead
  <2>2. t \in Thread /\ s # <<>>
    BY <1>1 DEF Range
  <2>. USE DEF s
  <2>3. ~(timestamp >= item_delay_tag[Head(s)])
    BY <1>1, <2>2 DEF Due
  <2>4. timestamp \in Nat /\ item_delay_tag[t] \in Nat /\ item_delay_tag[Head(s)] \in Nat
    BY <1>1, <2>1, <2>2, SchedulerAssumption
  <2>. QED
    BY <2>1, <2>3, <2>4
<1>. QED
  BY <1>1, <1>2 DEF DelayOrder, delayVars, timeVars

LEMMA NextOrder == Inv /\ DelayOrder /\ Next => DelayOrder'
<1>. SUFFICES ASSUME Inv, DelayOrder, Next PROVE DelayOrder'
  OBVIOUS
<1>1. ASSUME NEW c \in Context, NEW t \in Thread \ {Idle}, NEW prio \in Prio,
             os_thread_create(c, t, prio) \/ thd_create_static(c, t, prio)
      PROVE  DelayOrder'
  <2>1. ~Live(t) /\ thd_create(t, prio)
    BY <1>1 DEF os_thread_create, thd_create_static, Live
  <2>2. item_delay_q[t] = NULL
    BY <2>1 DEF Inv, ThreadInv, ThreadStateInv, Live, ThdState
  <2>3. /\ item_delay_tag' = [item_delay_tag EXCEPT ![t] = 0]
        /\ UNCHANGED <<q_delay, timeVars, handler>>
    BY <2>1 DEF thd_create, thd_init
  <2>. QED
    BY <2>2, <2>3, OrderFresh
<1>2. ASSUME NEW c \in Context, NEW t \in Thread \ {Idle},
             \/ os_thread_delete(c, t) \/ thd_delete_static(c, t)
             \/ os_thread_suspend(c, t) \/ os_thread_resume(c, t)
      PROVE  DelayOrder'
  <2>1. /\ handler = "none" /\ q_delay' = delay_item_remove(t)
        /\ UNCHANGED <<item_delay_tag, timeVars>>
    BY <1>2 DEF os_thread_delete, thd_delete_static, thd_delete, os_thread_suspend,
       os_thread_resume, MayCall, Withdraw, thd_ready
  <2>. QED
    BY <2>1, OrderRemoval
<1>3. ASSUME NEW c \in Context,
             \/ os_thread_yield(c)
             \/ \E t \in Thread, prio \in Prio : os_thread_set_priority(c, t, prio)
      PROVE  DelayOrder'
  <2>1. handler = "none" /\ UNCHANGED <<delayVars, timeVars>>
    BY <1>3 DEF os_thread_yield, os_thread_set_priority, MayCall
  <2>. QED
    BY <2>1, OrderUnchanged
<1>4. ASSUME NEW n \in Timeouts, os_thread_delay(n) PROVE DelayOrder'
  <2>1. n \in 0 .. (UintMod - 1) /\ p_current \in Thread
    BY <1>4, CallingThread, SchedulerAssumption DEF os_thread_delay
  <2>. QED
    BY <1>4, <2>1, OrderBlock DEF os_thread_delay
<1>5. CASE CallNext
  BY <1>1, <1>2, <1>3, <1>4, <1>5 DEF CallNext
<1>6. CASE heartbeat_evict
  <2>. DEFINE t == Head(q_delay[p_delayq_normal])
  <2>1. q_delay[p_delayq_normal] \in Seq(Thread) /\ q_delay[p_delayq_normal] # <<>>
    BY <1>6 DEF Inv, DelayInv, Queues, KernelInv, heartbeat_evict, Due
  <2>2. t \in Thread
    BY <2>1
  <2>3. /\ q_delay' = delay_item_remove(t)
        /\ UNCHANGED <<item_delay_tag, timeVars, handler>>
    BY <1>6 DEF heartbeat_evict, thd_ready, schVars
  <2>. QED
    BY <2>2, <2>3, OrderRemoval
<1>7. CASE SwitchNext
  <2>1. UNCHANGED <<delayVars, timeVars>> /\ (handler' = handler \/ handler = "none")
    BY <1>7 DEF SwitchNext, os_start, contextsw_req, context_switch, unload_return
  <2>. QED
    BY <2>1, OrderUnchanged
<1>. QED
  BY <1>5, <1>6, <1>7, OrderTick, OrderDone DEF Next, HeartbeatNext

LEMMA OrderInit == Init => DelayOrder
BY DEF Init, sch_init, DelayOrder, DelayQ, Sorted, Range

\* The delay queues are in the order in which their threads are due, and the
\* normal one holds exactly what is due before the time stamp wraps, whatever
\* delays threads ask for and whoever leaves the queues early.
THEOREM DelaysOrdered == Spec => []DelayOrder
<1>1. Inv /\ DelayOrder /\ [Next]_vars => (Inv /\ DelayOrder)'
  <2>1. Inv /\ DelayOrder /\ UNCHANGED vars => DelayOrder'
    BY OrderUnchanged DEF vars, schVars
  <2>. QED
    BY <2>1, InvStep, NextOrder
<1>. QED
  BY <1>1, InvInit, OrderInit, PTL DEF Spec

-----------------------------------------------------------------------------
(* Timeouts end at the right heartbeat *)

\* The first thread in the normal delay queue.
LEMMA HeadDelayed ==
    ASSUME Inv, q_delay[p_delayq_normal] # <<>>
    PROVE  /\ Head(q_delay[p_delayq_normal]) \in Thread
           /\ item_delay_q[Head(q_delay[p_delayq_normal])] = p_delayq_normal
<1>1. Queues(q_delay, item_delay_q, DelayQ) /\ p_delayq_normal \in DelayQ
  BY DEF Inv, DelayInv, KernelInv
<1>2. Queue(q_delay[p_delayq_normal], Thread)
  BY <1>1, OneQueue
<1>3. /\ Head(q_delay[p_delayq_normal]) \in Thread
      /\ Head(q_delay[p_delayq_normal]) \in Range(q_delay[p_delayq_normal])
  BY <1>2, RotateQueue
<1>. QED
  BY <1>1, <1>3 DEF Queues, Owned

\* Where a sleeping thread is, and what its tag says there.
LEMMA TicksSides ==
    ASSUME Inv, DelayOrder, NEW t \in Thread, item_delay_q[t] # NULL
    PROVE  /\ timestamp \in 0 .. (UintMod - 1) /\ item_delay_tag[t] \in 0 .. (UintMod - 1)
           /\ UintMod \in Nat /\ UintMod >= 2
           /\ \/ /\ item_delay_q[t] = p_delayq_normal
                 /\ t \in Range(q_delay[p_delayq_normal])
                 /\ TicksLeft(t) = item_delay_tag[t] - timestamp
                 /\ \/ item_delay_tag[t] > timestamp
                    \/ handler # "none" /\ item_delay_tag[t] = timestamp
              \/ /\ item_delay_q[t] = p_delayq_overflow
                 /\ item_delay_q[t] # p_delayq_normal
                 /\ TicksLeft(t) = UintMod + item_delay_tag[t] - timestamp
                 /\ item_delay_tag[t] < timestamp
<1>1. /\ timestamp \in 0 .. (UintMod - 1) /\ item_delay_tag[t] \in 0 .. (UintMod - 1)
      /\ UintMod \in Nat /\ UintMod >= 2
  BY SchedulerAssumption DEF Inv, KernelInv, ThreadInv
<1>2. /\ item_delay_q[t] \in DelayQ /\ t \in Range(q_delay[item_delay_q[t]])
      /\ p_delayq_normal \in DelayQ /\ p_delayq_overflow \in DelayQ
      /\ p_delayq_normal # p_delayq_overflow
  BY DEF Inv, DelayInv, Queues, Owned, KernelInv, DelayOrder
<1>3. CASE item_delay_q[t] = p_delayq_normal
  BY <1>1, <1>2, <1>3 DEF DelayOrder, TicksLeft
<1>4. CASE item_delay_q[t] # p_delayq_normal
  <2>1. item_delay_q[t] = p_delayq_overflow
    BY <1>2, <1>4 DEF DelayQ
  <2>. QED
    BY <1>1, <1>2, <1>4, <2>1 DEF DelayOrder, TicksLeft
<1>. QED
  BY <1>3, <1>4

LEMMA TickTakesOne ==
    ASSUME Inv, DelayOrder, heartbeat_tick, NEW t \in Thread, item_delay_q[t] # NULL
    PROVE  TicksLeft(t)' = TicksLeft(t) - 1
<1>1. /\ handler = "none" /\ item_delay_q' = item_delay_q
      /\ item_delay_tag' = item_delay_tag
      /\ timestamp' = (timestamp + 1) % UintMod
      /\ IF timestamp' = 0
         THEN /\ p_delayq_normal' = p_delayq_overflow
              /\ p_delayq_overflow' = p_delayq_normal
         ELSE UNCHANGED <<p_delayq_normal, p_delayq_overflow>>
  BY DEF heartbeat_tick, delayVars
<1>2. /\ timestamp \in 0 .. (UintMod - 1) /\ item_delay_tag[t] \in 0 .. (UintMod - 1)
      /\ UintMod \in Nat /\ UintMod >= 2
      /\ \/ /\ item_delay_q[t] = p_delayq_normal
            /\ TicksLeft(t) = item_delay_tag[t] - timestamp
            /\ item_delay_tag[t] > timestamp
         \/ /\ item_delay_q[t] = p_delayq_overflow
            /\ item_delay_q[t] # p_delayq_normal
            /\ TicksLeft(t) = UintMod + item_delay_tag[t] - timestamp
            /\ item_delay_tag[t] < timestamp
  BY <1>1, TicksSides
<1>3. timestamp' = IF timestamp + 1 < UintMod THEN timestamp + 1 ELSE timestamp + 1 - UintMod
  BY <1>1, <1>2, WrapAround
<1>. DEFINE n == timestamp
            a == item_delay_tag[t]
<1>4. TicksLeft(t)' = IF item_delay_q[t] = p_delayq_normal' THEN a - timestamp'
                      ELSE UintMod + a - timestamp'
  BY <1>1 DEF TicksLeft
<1>5. CASE n + 1 < UintMod
  <2>1. timestamp' = n + 1 /\ timestamp' # 0 /\ p_delayq_normal' = p_delayq_normal
    BY <1>1, <1>2, <1>3, <1>5
  <2>. QED
    BY <1>2, <1>4, <2>1
<1>6. CASE ~(n + 1 < UintMod)
  <2>1. timestamp' = 0 /\ n = UintMod - 1 /\ p_delayq_normal' = p_delayq_overflow
    BY <1>1, <1>2, <1>3, <1>6
  <2>2. item_delay_q[t] = p_delayq_normal'
    BY <1>2, <2>1
  <2>3. TicksLeft(t)' = a /\ TicksLeft(t) = UintMod + a - n
    BY <1>2, <1>4, <2>1, <2>2
  <2>. QED
    BY <1>2, <2>1, <2>3
<1>. QED
  BY <1>5, <1>6

LEMMA EvictsWhenDue ==
    ASSUME Inv, DelayOrder, heartbeat_evict, NEW t \in Thread, item_delay_q[t] # NULL,
           item_delay_q'[t] = NULL
    PROVE  TicksLeft(t) = 0
<1>. DEFINE u == Head(q_delay[p_delayq_normal])
<1>1. /\ handler = "heartbeat" /\ q_delay[p_delayq_normal] # <<>>
      /\ timestamp >= item_delay_tag[u]
      /\ item_delay_q' = [item_delay_q EXCEPT ![u] = NULL]
  BY DEF heartbeat_evict, Due, thd_ready
<1>2. t = u
  BY <1>1 DEF Inv, ThreadInv
<1>3. item_delay_q[t] = p_delayq_normal
  BY <1>1, <1>2, HeadDelayed
<1>4. /\ timestamp \in 0 .. (UintMod - 1) /\ item_delay_tag[t] \in 0 .. (UintMod - 1)
      /\ UintMod \in Nat
      /\ TicksLeft(t) = item_delay_tag[t] - timestamp
      /\ item_delay_tag[t] > timestamp \/ item_delay_tag[t] = timestamp
  BY <1>3, TicksSides
<1>. QED
  BY <1>1, <1>2, <1>4

LEMMA DoneLeavesNoneDue ==
    ASSUME Inv, DelayOrder, heartbeat_done, NEW t \in Thread, item_delay_q[t] # NULL
    PROVE  TicksLeft(t) > 0
<1>1. DelayOrder'
  BY OrderDone
<1>2. /\ handler' = "none" /\ q_delay' = q_delay /\ item_delay_tag' = item_delay_tag
      /\ timestamp' = timestamp /\ p_delayq_normal' = p_delayq_normal
  BY DEF heartbeat_done, delayVars, timeVars
<1>3. t \in Range(q_delay[p_delayq_normal]) => item_delay_tag[t] > timestamp
  BY <1>1, <1>2 DEF DelayOrder
<1>. QED
  BY <1>3, TicksSides

LEMMA DelayStartsFull ==
    ASSUME Inv, DelayOrder, NEW n \in Timeouts, os_thread_delay(n)
    PROVE  TicksLeft(p_current)' = n
<1>. DEFINE t == p_current
            w == (timestamp + n) % UintMod
            d == IF w < timestamp THEN p_delayq_overflow ELSE p_delayq_normal
<1>1. /\ n \in 1 .. (UintMod - 1) /\ n # 0 /\ t \in Thread
      /\ thd_block_current(NULL, FALSE, n)
  BY CallingThread, SchedulerAssumption DEF os_thread_delay
<1>2. /\ p_current' = t /\ timestamp' = timestamp
      /\ p_delayq_normal' = p_delayq_normal
      /\ item_delay_tag' = [item_delay_tag EXCEPT ![t] = w]
      /\ item_delay_q' = [item_delay_q EXCEPT ![t] = d]
  BY <1>1 DEF thd_block_current, sch_insert_delay, timeVars
<1>3. item_delay_tag'[t] = w /\ item_delay_q'[t] = d
  BY <1>1, <1>2 DEF Inv, ThreadInv
<1>4. /\ w \in 0 .. (UintMod - 1)
      /\ IF w < timestamp THEN UintMod + w - timestamp = n ELSE w - timestamp = n
  BY <1>1, WakeupSide DEF Inv, KernelInv
<1>5. (d = p_delayq_normal) <=> ~(w < timestamp)
  BY DEF DelayOrder
<1>. HIDE DEF w, d
<1>6. TicksLeft(p_current)' = IF d = p_delayq_normal THEN w - timestamp
                              ELSE UintMod + w - timestamp
  BY <1>2, <1>3 DEF TicksLeft
<1>. QED
  BY <1>4, <1>5, <1>6

\* A delay of n ticks takes n heartbeats, also across the wrap of the time stamp:
\* it starts with n ticks left, each heartbeat takes one, and the eviction loop
\* wakes exactly the threads with none left.
THEOREM DelaysExact == Spec => TimeoutExact
<1>. DEFINE Exact ==
        /\ \A t \in Thread :
              item_delay_q[t] # NULL =>
                 /\ heartbeat_tick => TicksLeft(t)' = TicksLeft(t) - 1
                 /\ heartbeat_evict /\ item_delay_q'[t] = NULL => TicksLeft(t) = 0
                 /\ heartbeat_done => TicksLeft(t) > 0
        /\ \A n \in Timeouts : os_thread_delay(n) => TicksLeft(p_current)' = n
<1>1. Inv /\ DelayOrder => [Exact]_vars
  BY TickTakesOne, EvictsWhenDue, DoneLeavesNoneDue, DelayStartsFull
<1>2. Spec => []Inv
  BY InvInit, InvStep, PTL DEF Spec
<1>3. Spec => [][Exact]_vars
  BY <1>1, <1>2, DelaysOrdered, PTL
<1>. QED
  BY <1>3 DEF TimeoutExact

-----------------------------------------------------------------------------
(* The scheduler's assertions about itself *)

\* What the theorems below ask of interrupt service routines: they do not take
\* threads out of the ready queues, and where threads may delete themselves they
\* do not create threads, which could be given the control block of a thread
\* that has still to be unloaded.
IsrsSpareThreads ==
    /\ IsrCalls \cap {"delete", "suspend", "yield"} = {}
    /\ "create" \notin IsrCalls \/ "delete" \notin Calls

\* The next thread is ready.  The current one is the next one, or is on its way
\* out: a switch is pending, or will be requested behind the preemption point.  A
\* thread that has deleted itself is not loaded again.
SwitchInv ==
    /\ handler # "breakpoint"
    /\ IF Started
       THEN /\ state[p_next] = "READY"
            /\ cpu \in {"run", "resume"} /\ ~pending => p_current = p_next
            /\ cpu \in {"exit", "gone"} => ~Live(p_current) /\ "delete" \in Calls
            /\ cpu = "gone" => pending
            /\ \A t \in Thread : Live(t) /\ t # p_current => ctx[t] \notin {"exit", "gone"}
       ELSE \A t \in Thread : ctx[t] = "run"

\* The first ready queue that is not empty bounds the priorities of the threads
\* that are ready.
LEMMA ReadyBelow ==
    ASSUME NEW q, Queues(q, item_sch_q', SchQ), ThreadInv'
    PROVE  /\ TopPrio(q) \in Prio
           /\ \A t \in Thread : state'[t] = "READY" => TopPrio(q) <= item_sch_tag'[t]
<1>1. item_sch_q'[Idle] = IdlePrio
  BY Constants DEF ThreadInv, ThreadStateInv, IdleInv
<1>2. /\ TopPrio(q) \in Prio
      /\ \A r \in Prio : q[r] # <<>> => TopPrio(q) <= r
  BY <1>1, TopPrioExists
<1>3. ASSUME NEW t \in Thread, state'[t] = "READY"
      PROVE  TopPrio(q) <= item_sch_tag'[t]
  <2>. DEFINE p == item_sch_tag'[t]
  <2>1. p \in Prio /\ p \in SchQ /\ item_sch_q'[t] = p
    BY <1>3, Constants DEF ThreadInv, ThreadStateInv
  <2>2. t \in Range(q[p])
    BY <2>1 DEF Queues, Owned
  <2>3. q[p] # <<>>
    BY <2>2 DEF Range
  <2>. QED
    BY <1>2, <2>1, <2>3
<1>. QED
  BY <1>2, <1>3

\* The thread that sch_set_next_thread chooses is ready and has the highest
\* priority of those that are.
LEMMA ChosenReady ==
    ASSUME NEW q, Queues(q, item_sch_q', SchQ), ThreadInv', sch_set_next_thread(q)
    PROVE  /\ p_next' \in Thread /\ state'[p_next'] = "READY"
           /\ \A t \in Thread :
                 state'[t] = "READY" => item_sch_tag'[p_next'] <= item_sch_tag'[t]
<1>1. item_sch_q'[Idle] = IdlePrio
  BY Constants DEF ThreadInv, ThreadStateInv, IdleInv
<1>2. p_next' \in Thread /\ item_sch_q'[p_next'] = TopPrio(q)
  BY <1>1, SetNextThread
<1>3. state'[p_next'] = "READY" /\ item_sch_tag'[p_next'] = TopPrio(q)
  BY <1>2, ReadyBelow, Constants DEF ThreadInv, ThreadStateInv, ThdState
<1>. QED
  BY <1>2, <1>3, ReadyBelow

\* What the assertions on return from sch_unload_current say of a ready thread.
LEMMA ReadyAsserts ==
    ASSUME Inv, Started, state[p_current] = "READY" PROVE ResumeAsserts
BY Constants DEF Inv, ThreadInv, ThreadStateInv, KernelInv, Started, ResumeAsserts

\* Steps that leave the choice and the CPU alone.
LEMMA SwitchKept ==
    ASSUME Inv, SwitchInv, Started, UNCHANGED <<p_current, p_next, pending, cpu, ctx>>,
           handler' # "breakpoint", state'[p_next] = "READY",
           \A t \in Thread : Live(t)' => Live(t)
    PROVE  SwitchInv'
<1>1. p_current \in Thread
  BY DEF Inv, KernelInv, Started
<1>. QED
  BY <1>1 DEF SwitchInv, Started

\* The current thread gives up the CPU.
LEMMA SwitchUnload ==
    ASSUME Inv, SwitchInv, Started, cpu = "run", ~pending,
           NEW q, Queues(q, item_sch_q', SchQ), ThreadInv',
           NEW pc \in {"unload", "exit"}, sch_unload_current("thread", q, pc),
           UNCHANGED <<p_current, ctx>>, handler' # "breakpoint",
           pc = "exit" => ~Live(p_current)' /\ "delete" \in Calls,
           \A t \in Thread \ {p_current} : Live(t)' => Live(t)
    PROVE  SwitchInv'
<1>1. state'[p_next'] = "READY"
  BY ChosenReady DEF sch_unload_current
<1>2. ~pending' /\ ((p_current = p_next' /\ cpu' = "run") \/ cpu' = pc)
  BY DEF sch_unload_current
<1>. QED
  BY <1>1, <1>2 DEF SwitchInv, Started

\* Taking away a thread is left to threads, which run their own code then.
LEMMA ThreadCalls ==
    ASSUME IsrsSpareThreads, Started, NEW c \in Context,
           NEW api \in {"delete", "suspend", "yield"}, MayCall(c, api)
    PROVE  /\ c = "thread" /\ cpu = "run" /\ ~pending /\ api \in Calls
           /\ handler = "none"
BY DEF IsrsSpareThreads, Started, MayCall

LEMMA SwitchWithdraw ==
    ASSUME IsrsSpareThreads, Inv, ThreadInv', SwitchInv, NEW c \in Context,
           NEW t \in Thread \ {Idle},
           os_thread_delete(c, t) \/ thd_delete_static(c, t) \/ os_thread_suspend(c, t)
    PROVE  SwitchInv'
<1>1. /\ c = "thread" /\ cpu = "run" /\ ~pending /\ handler = "none" /\ Started
      /\ p_current = p_next
  BY ThreadCalls DEF os_thread_delete, thd_delete_static, os_thread_suspend, SwitchInv
<1>2. PICK s \in {"SUSPENDED", "DELETED", "FREE"} : Withdraw(t, s)
  BY DEF os_thread_delete, thd_delete_static, thd_delete, os_thread_suspend
<1>3. /\ Queues(sch_qitem_remove(t), item_sch_q', SchQ)
      /\ UNCHANGED <<p_current, ctx>>
      /\ state' = [state EXCEPT ![t] = s]
  BY <1>2, WithdrawStep
  DEF Inv, Withdraw, os_thread_delete, thd_delete_static, thd_delete, os_thread_suspend
<1>4. p_current \in Thread /\ p_next \in Thread /\ state \in [Thread -> ThdState]
  BY <1>1 DEF Inv, KernelInv, StartInv, Started, ThreadInv
<1>5. \A u \in Thread \ {t} : Live(u)' => Live(u)
  BY <1>3, <1>4 DEF Live
<1>6. CASE t # p_current
  <2>1. UNCHANGED <<p_next, pending, cpu, handler>>
    BY <1>6 DEF os_thread_delete, thd_delete_static, thd_delete, os_thread_suspend
  <2>2. Live(t)
    BY DEF os_thread_delete, thd_delete_static, os_thread_suspend
  <2>3. state'[p_next] = "READY"
    BY <1>1, <1>3, <1>4, <1>6 DEF SwitchInv
  <2>. QED
    BY <1>1, <1>3, <1>5, <2>1, <2>2, <2>3, SwitchKept
<1>7. CASE t = p_current
  <2>1. CASE os_thread_suspend(c, t)
    <3>1. sch_unload_current("thread", sch_qitem_remove(t), "unload")
      BY <1>1, <1>7, <2>1 DEF os_thread_suspend
    <3>2. s = "SUSPENDED"
      <4>1. state' = [state EXCEPT ![t] = "SUSPENDED"]
        BY <2>1 DEF os_thread_suspend, Withdraw
      <4>. QED
        BY <1>3, <1>4, <4>1
    <3>3. p_current # p_next'
      <4>1. state'[p_next'] = "READY"
        BY <1>3, <3>1, ChosenReady DEF sch_unload_current
      <4>. QED
        BY <1>3, <1>4, <1>7, <3>2, <4>1
    <3>4. handler' # "breakpoint"
      BY <1>1, <1>7, <2>1, <3>3 DEF os_thread_suspend, assert_resumed
    <3>. QED
      BY <1>1, <1>3, <1>5, <1>7, <3>1, <3>4, SwitchUnload
  <2>2. CASE os_thread_delete(c, t) \/ thd_delete_static(c, t)
    <3>1. /\ sch_unload_current("thread", sch_qitem_remove(t), "exit")
          /\ handler' = handler /\ "delete" \in Calls
      BY <1>1, <1>7, <2>2
      DEF os_thread_delete, thd_delete_static, thd_delete, MayCall
    <3>2. ~Live(p_current)'
      <4>1. state' = [state EXCEPT ![t] = "FREE"] \/ state' = [state EXCEPT ![t] = "DELETED"]
        BY <2>2 DEF os_thread_delete, thd_delete_static, thd_delete, Withdraw
      <4>. QED
        BY <1>3, <1>4, <1>7, <4>1 DEF Live
    <3>. QED
      BY <1>1, <1>3, <1>5, <1>7, <3>1, <3>2, SwitchUnload
  <2>. QED
    BY <2>1, <2>2
<1>. QED
  BY <1>6, <1>7

LEMMA SwitchYield ==
    ASSUME IsrsSpareThreads, Inv, ThreadInv', SwitchInv, NEW c \in Context,
           os_thread_yield(c)
    PROVE  SwitchInv'
<1>1. /\ c = "thread" /\ cpu = "run" /\ ~pending /\ handler = "none" /\ Started
      /\ p_current = p_next /\ p_current \in Thread
  BY ThreadCalls DEF os_thread_yield, SwitchInv, Inv, KernelInv, Started
<1>2. /\ sch_unload_current("thread", q_items, "unload")
      /\ UNCHANGED <<state, item_sch_q, item_delay_q, p_schinfo, p_current, ctx>>
      /\ assert_resumed(c)
  BY <1>1 DEF os_thread_yield, delayVars
<1>3. Queues(q_items, item_sch_q', SchQ)
  BY <1>2 DEF Inv, ItemInv
<1>4. ResumeAsserts'
  BY <1>1, <1>2, ReadyAsserts DEF SwitchInv, ResumeAsserts
<1>5. handler' # "breakpoint"
  BY <1>1, <1>2, <1>4 DEF assert_resumed
<1>6. \A t \in Thread : Live(t)' => Live(t)
  BY <1>2 DEF Live
<1>. QED
  BY <1>1, <1>2, <1>3, <1>5, <1>6, SwitchUnload

LEMMA SwitchBlock ==
    ASSUME Inv, ThreadInv', SwitchInv, NEW p_to \in WaitQ \cup {NULL}, NEW info, NEW n,
           p_current \in Thread \ {Idle}, cpu = "run", ~pending,
           thd_block_current(p_to, info, n)
    PROVE  SwitchInv'
<1>1. /\ state[p_current] = "READY" /\ state' = [state EXCEPT ![p_current] = "BLOCKED"]
      /\ item_sch_q' = [item_sch_q EXCEPT ![p_current] = p_to]
      /\ sch_unload_current("thread", BlockedItems(p_to), "unload")
      /\ UNCHANGED <<p_current, ctx, handler>>
  BY DEF thd_block_current, BlockedItems
<1>2. Queues(BlockedItems(p_to), item_sch_q', SchQ)
  BY <1>1, BlockQueues DEF Inv
<1>3. handler' # "breakpoint" /\ Started
  BY <1>1, Constants DEF SwitchInv, Started
<1>4. \A t \in Thread \ {p_current} : Live(t)' => Live(t)
  BY <1>1 DEF Live, Inv, ThreadInv
<1>. QED
  BY <1>1, <1>2, <1>3, <1>4, SwitchUnload

\* The queues thd_create leaves to sch_reschedule_req.
LEMMA CreateQueues ==
    ASSUME Inv, NEW t \in Thread, ~Live(t), NEW prio \in Prio, thd_create(t, prio)
    PROVE  Queues([q_items EXCEPT ![prio] = sch_qitem_enq_fifo(@, t)], item_sch_q', SchQ)
<1>1. item_sch_q[t] = NULL
  BY DEF Inv, ThreadInv, ThreadStateInv, Live, ThdState
<1>2. Queues([q_items EXCEPT ![prio] = Append(@, t)], [item_sch_q EXCEPT ![t] = prio], SchQ)
  BY <1>1, Constants, AppendOwned DEF Inv, ItemInv
<1>. QED
  BY <1>2 DEF thd_create, sch_qitem_enq_fifo

LEMMA SwitchCreate ==
    ASSUME IsrsSpareThreads, Inv, ThreadInv', SwitchInv, NEW c \in Context,
           NEW t \in Thread \ {Idle}, NEW prio \in Prio,
           os_thread_create(c, t, prio) \/ thd_create_static(c, t, prio)
    PROVE  SwitchInv'
<1>. DEFINE q == [q_items EXCEPT ![prio] = sch_qitem_enq_fifo(@, t)]
<1>1. ~Live(t) /\ thd_create(t, prio) /\ MayCall(c, "create")
  BY DEF os_thread_create, thd_create_static, Live
<1>2. /\ state' = [state EXCEPT ![t] = "READY"]
      /\ ctx' = [ctx EXCEPT ![t] = "run"]
      /\ UNCHANGED <<p_current, cpu, handler>>
      /\ p_current # NULL => sch_reschedule_req(q, item_sch_tag')
      /\ p_current = NULL => UNCHANGED <<p_next, pending>>
  BY <1>1 DEF thd_create, thd_init
<1>3. /\ state \in [Thread -> ThdState] /\ ctx \in [Thread -> CodePoint]
      /\ Started => p_current \in Thread /\ p_next \in Thread
  BY DEF Inv, ThreadInv, KernelInv, StartInv, Started
<1>4. Queues(q, item_sch_q', SchQ)
  BY <1>1, CreateQueues
<1>. HIDE DEF q
<1>5. CASE ~Started
  BY <1>2, <1>3, <1>5 DEF SwitchInv, Started
<1>6. CASE Started
  <2>1. t # p_next /\ state'[p_next] = "READY"
    BY <1>1, <1>2, <1>3, <1>6 DEF SwitchInv, Live
  <2>2. cpu \in {"exit", "gone"} => FALSE
    BY <1>1, <1>6 DEF SwitchInv, IsrsSpareThreads, MayCall, Started
  <2>3. state'[p_next'] = "READY"
    <3>1. CASE sch_set_next_thread(q)
      BY <1>4, <3>1, ChosenReady
    <3>2. CASE p_next' = p_next
      BY <2>1, <3>2
    <3>. QED
      BY <1>2, <1>6, <3>1, <3>2 DEF sch_reschedule_req, Started
  <2>4. ~pending' => (p_current = p_next' \/ (~pending /\ p_next' = p_next))
    BY <1>2, <1>6 DEF sch_reschedule_req, Started
  <2>5. \A u \in Thread : Live(u)' /\ u # p_current => ctx'[u] \notin {"exit", "gone"}
    BY <1>2, <1>3, <1>6 DEF SwitchInv, Live
  <2>6. cpu' \in {"run", "resume"} /\ ~pending' => p_current' = p_next'
    BY <1>2, <1>6, <2>4 DEF SwitchInv
  <2>7. handler' # "breakpoint" /\ Started' /\ cpu' \notin {"exit", "gone"}
    BY <1>2, <1>6, <2>2 DEF SwitchInv, Started
  <2>8. \A u \in Thread : Live(u)' /\ u # p_current' => ctx'[u] \notin {"exit", "gone"}
    BY <1>2, <2>5
  <2>. QED
    BY <2>3, <2>6, <2>7, <2>8 DEF SwitchInv
<1>. QED
  BY <1>5, <1>6

LEMMA SwitchHeartbeat ==
    ASSUME Inv, ThreadInv', SwitchInv, DelayOrder, HeartbeatNext PROVE SwitchInv'
<1>1. CASE heartbeat_tick
  <2>1. handler' # "breakpoint"
    BY <1>1, OrderTick
  <2>2. Started /\ UNCHANGED <<state, p_current, p_next, pending, cpu, ctx>>
    BY <1>1 DEF heartbeat_tick
  <2>. QED
    BY <2>1, <2>2, SwitchKept DEF SwitchInv, Live
<1>2. CASE heartbeat_evict
  <2>. DEFINE t == Head(q_delay[p_delayq_normal])
  <2>1. /\ q_delay[p_delayq_normal] # <<>>
        /\ p_delayq_normal \in DelayQ /\ NULL \notin DelayQ
    BY <1>2, Constants DEF heartbeat_evict, Due, Inv, KernelInv
  <2>2. t \in Thread /\ item_delay_q[t] # NULL
    BY <2>1, HeadDelayed
  <2>3. Live(t)
    BY <2>2 DEF Inv, ThreadInv, ThreadStateInv, Live, ThdState
  <2>4. /\ state' = [state EXCEPT ![t] = "READY"]
        /\ UNCHANGED <<p_current, p_next, pending, cpu, ctx, handler>>
    BY <1>2 DEF heartbeat_evict, thd_ready, schVars
  <2>5. /\ Started /\ p_next \in Thread /\ state \in [Thread -> ThdState]
        /\ handler = "heartbeat"
    BY <1>2 DEF Inv, KernelInv, StartInv, ThreadInv, heartbeat_evict
  <2>6. state'[p_next] = "READY" /\ \A u \in Thread : Live(u)' => Live(u)
    BY <2>3, <2>4, <2>5 DEF SwitchInv, Live
  <2>. QED
    BY <2>4, <2>5, <2>6, SwitchKept
<1>3. CASE heartbeat_done
  <2>1. /\ handler = "heartbeat" /\ handler' = "none"
        /\ sch_set_next_thread(q_items)
        /\ pending' = (pending \/ p_current # p_next')
        /\ UNCHANGED <<state, item_sch_q, p_current, cpu, ctx>>
    BY <1>3 DEF heartbeat_done
  <2>2. Queues(q_items, item_sch_q', SchQ) /\ Started
    BY <2>1 DEF Inv, ItemInv, KernelInv, StartInv
  <2>3. state'[p_next'] = "READY"
    BY <2>1, <2>2, ChosenReady
  <2>. QED
    BY <2>1, <2>2, <2>3 DEF SwitchInv, Started, Live
<1>. QED
  BY <1>1, <1>2, <1>3 DEF HeartbeatNext

LEMMA SwitchSwitch ==
    ASSUME Inv, ThreadInv', SwitchInv, SwitchNext PROVE SwitchInv'
<1>1. CASE os_start
  <2>1. /\ ~Started /\ sch_set_next_thread(q_items)
        /\ p_current' = p_next' /\ cpu' = ctx[p_next']
        /\ UNCHANGED <<state, item_sch_q, pending, ctx, handler>>
    BY <1>1 DEF os_start, Started
  <2>2. Queues(q_items, item_sch_q', SchQ) /\ ~pending
    BY <2>1 DEF Inv, ItemInv, KernelInv, StartInv
  <2>3. p_next' \in Thread /\ state'[p_next'] = "READY"
    BY <2>1, <2>2, ChosenReady
  <2>4. Started' /\ cpu' = "run" /\ ~pending'
    BY <2>1, <2>2, <2>3, Constants DEF SwitchInv, Started
  <2>5. \A t \in Thread : ctx'[t] = "run"
    BY <2>1 DEF SwitchInv
  <2>. QED
    BY <2>1, <2>3, <2>4, <2>5 DEF SwitchInv
<1>. SUFFICES ASSUME contextsw_req \/ context_switch \/ unload_return PROVE SwitchInv'
  BY <1>1 DEF SwitchNext
<1>2. /\ Started /\ handler = "none" /\ p_current \in Thread /\ p_next \in Thread
      /\ ctx \in [Thread -> CodePoint] /\ cpu \in CodePoint
      /\ UNCHANGED <<state, p_next>>
  BY DEF Inv, KernelInv, StartInv, Started, contextsw_req, context_switch, unload_return
<1>3. CASE contextsw_req
  BY <1>2, <1>3 DEF contextsw_req, SwitchInv, Started, Live
<1>4. CASE context_switch
  <2>1. /\ ~pending' /\ ctx' = [ctx EXCEPT ![p_current] = cpu]
        /\ cpu' = ctx'[p_next] /\ p_current' = p_next /\ handler' = handler
    BY <1>4 DEF context_switch
  <2>2. Live(p_next) /\ state'[p_next'] = "READY"
    BY <1>2 DEF SwitchInv, Live
  <2>3. \A t \in Thread : Live(t) => ctx'[t] \notin {"exit", "gone"}
    BY <1>2, <2>1 DEF SwitchInv
  <2>4. cpu' \notin {"exit", "gone"}
    BY <1>2, <2>1, <2>2, <2>3
  <2>5. \A t \in Thread : Live(t)' => Live(t)
    BY <1>2 DEF Live
  <2>6. Started'
    BY <1>2, <2>1, Constants DEF Started
  <2>. QED
    BY <1>2, <2>1, <2>2, <2>3, <2>4, <2>5, <2>6 DEF SwitchInv
<1>5. CASE unload_return
  <2>1. /\ cpu = "resume" /\ ~pending /\ cpu' = "run"
        /\ UNCHANGED <<p_current, pending, ctx>>
        /\ handler' = IF ResumeAsserts THEN "none" ELSE "breakpoint"
    BY <1>2, <1>5 DEF unload_return, SwitchInv
  <2>2. p_current = p_next /\ ResumeAsserts
    BY <1>2, <2>1, ReadyAsserts DEF SwitchInv
  <2>. QED
    BY <1>2, <2>1, <2>2 DEF SwitchInv, Started, Live
<1>. QED
  BY <1>3, <1>4, <1>5

LEMMA NextSwitch ==
    ASSUME IsrsSpareThreads, Inv, ThreadInv', SwitchInv, DelayOrder, Next
    PROVE  SwitchInv'
<1>1. ASSUME NEW c \in Context, NEW t \in Thread \ {Idle},
             \/ os_thread_resume(c, t)
             \/ \E prio \in Prio : os_thread_set_priority(c, t, prio)
      PROVE  SwitchInv'
  <2>1. /\ Started /\ UNCHANGED <<p_current, p_next, pending, cpu, ctx, handler>>
        /\ (state' = [state EXCEPT ![t] = "READY"] /\ Live(t)) \/ state' = state
    BY <1>1 DEF os_thread_resume, os_thread_set_priority, thd_ready, schVars
  <2>2. /\ \A u \in Thread : Live(u)' => Live(u)
        /\ state'[p_next] = "READY"
    BY <2>1 DEF Live, SwitchInv, Inv, ThreadInv, KernelInv, StartInv
  <2>. QED
    BY <2>1, <2>2, SwitchKept DEF SwitchInv
<1>2. ASSUME NEW n \in Timeouts, os_thread_delay(n) PROVE SwitchInv'
  <2>1. cpu = "run" /\ ~pending /\ thd_block_current(NULL, FALSE, n)
    BY <1>2 DEF os_thread_delay, MayCall
  <2>2. p_current \in Thread \ {Idle}
    BY <1>2, CallingThread DEF os_thread_delay
  <2>. QED
    BY <2>1, <2>2, SwitchBlock
<1>3. CASE CallNext
  BY <1>1, <1>2, <1>3, SwitchCreate, SwitchWithdraw, SwitchYield DEF CallNext
<1>. QED
  BY <1>3, SwitchHeartbeat, SwitchSwitch DEF Next

LEMMA SwitchInit == Init => SwitchInv
BY DEF Init, sch_init, SwitchInv, Started

LEMMA SwitchAlways == ASSUME IsrsSpareThreads PROVE Spec => [](Inv /\ DelayOrder /\ SwitchInv)
<1>1. Inv /\ DelayOrder /\ SwitchInv /\ [Next]_vars => (Inv /\ DelayOrder /\ SwitchInv)'
  <2>1. Inv /\ SwitchInv /\ UNCHANGED vars => SwitchInv'
    BY DEF vars, schVars, SwitchInv, Started, Live
  <2>2. Inv /\ DelayOrder /\ UNCHANGED vars => DelayOrder'
    BY OrderUnchanged DEF vars, schVars
  <2>3. Inv' => ThreadInv'
    BY DEF Inv
  <2>. QED
    BY <2>1, <2>2, <2>3, InvStep, NextOrder, NextSwitch
<1>. QED
  BY <1>1, InvInit, OrderInit, SwitchInit, PTL DEF Spec

\* No assertion the scheduler makes about itself fails: the delay queue is empty
\* when the time stamp wraps, whoever returns from sch_unload_current is ready,
\* and a deleted thread does not come back.
THEOREM NoFailedAssertion == ASSUME IsrsSpareThreads PROVE Spec => []NoBreakpoint
<1>1. SwitchInv => NoBreakpoint
  BY DEF SwitchInv, NoBreakpoint
<1>. QED
  BY <1>1, SwitchAlways, PTL

\* The thread whose code is on the CPU is ready and in no delay queue, as
\* thd_block_current asserts on entry.
THEOREM RunnerReady == ASSUME IsrsSpareThreads PROVE Spec => []RunningReady
<1>1. Inv /\ SwitchInv => RunningReady
  BY ReadyAsserts DEF SwitchInv, RunningReady
<1>. QED
  BY <1>1, SwitchAlways, PTL

-----------------------------------------------------------------------------
(* Preemption *)

\* What the theorem below leaves out: os_thread_resume and
\* os_thread_set_priority change who is ready at which priority and reschedule
\* nothing, and an interrupt that creates a thread compares its priority with
\* that of a thread that may already have left the ready queues.
OnlyPreemptingCalls ==
    /\ IsrCalls \cap {"create", "delete", "suspend", "yield"} = {}
    /\ (Calls \cup IsrCalls) \cap {"resume", "set_priority"} = {}

\* Outside the heartbeat no ready thread has a higher priority than the next one.
TopInv ==
    Started /\ handler = "none" =>
        \A t \in Thread : state[t] = "READY" => item_sch_tag[p_next] <= item_sch_tag[t]

LEMMA TopChosen ==
    ASSUME NEW q, Queues(q, item_sch_q', SchQ), ThreadInv', sch_set_next_thread(q)
    PROVE  TopInv'
BY ChosenReady DEF TopInv

LEMMA TopUnload ==
    ASSUME NEW q, Queues(q, item_sch_q', SchQ), ThreadInv', NEW c, NEW pc,
           sch_unload_current(c, q, pc)
    PROVE  TopInv'
BY TopChosen DEF sch_unload_current

\* Threads only stop being ready.
LEMMA TopKept ==
    ASSUME TopInv, UNCHANGED <<p_current, p_next, handler, item_sch_tag>>,
           \A t \in Thread : state'[t] = "READY" => state[t] = "READY"
    PROVE  TopInv'
BY DEF TopInv, Started

LEMMA TopWithdraw ==
    ASSUME IsrsSpareThreads, Inv, ThreadInv', TopInv, NEW c \in Context,
           NEW t \in Thread \ {Idle},
           os_thread_delete(c, t) \/ thd_delete_static(c, t) \/ os_thread_suspend(c, t)
    PROVE  TopInv'
<1>1. PICK s \in {"SUSPENDED", "DELETED", "FREE"} : Withdraw(t, s)
  BY DEF os_thread_delete, thd_delete_static, thd_delete, os_thread_suspend
<1>2. /\ Queues(sch_qitem_remove(t), item_sch_q', SchQ)
      /\ state' = [state EXCEPT ![t] = s]
      /\ UNCHANGED <<item_sch_tag, p_current>>
  BY <1>1, WithdrawStep
  DEF Inv, Withdraw, os_thread_delete, thd_delete_static, thd_delete, os_thread_suspend
<1>3. CASE t # p_current
  <2>1. UNCHANGED <<p_next, handler>>
    BY <1>3 DEF os_thread_delete, thd_delete_static, thd_delete, os_thread_suspend
  <2>2. \A u \in Thread : state'[u] = "READY" => state[u] = "READY"
    BY <1>2 DEF Inv, ThreadInv
  <2>. QED
    BY <1>2, <2>1, <2>2, TopKept
<1>4. CASE t = p_current
  <2>1. \E pc : sch_unload_current(c, sch_qitem_remove(t), pc)
    BY <1>4 DEF os_thread_delete, thd_delete_static, thd_delete, os_thread_suspend
  <2>. QED
    BY <1>2, <2>1, TopUnload
<1>. QED
  BY <1>3, <1>4

\* A new thread that is not chosen has no higher priority than the current one,
\* which is the next one.
LEMMA TopCreate ==
    ASSUME OnlyPreemptingCalls, Inv, ThreadInv', SwitchInv, TopInv, NEW c \in Context,
           NEW t \in Thread \ {Idle}, NEW prio \in Prio,
           os_thread_create(c, t, prio) \/ thd_create_static(c, t, prio)
    PROVE  TopInv'
<1>. DEFINE q == [q_items EXCEPT ![prio] = sch_qitem_enq_fifo(@, t)]
<1>1. ~Live(t) /\ thd_create(t, prio) /\ MayCall(c, "create")
  BY DEF os_thread_create, thd_create_static, Live
<1>2. /\ p_current' = p_current
      /\ p_current # NULL => sch_reschedule_req(q, item_sch_tag')
  BY <1>1 DEF thd_create
<1>3. Queues(q, item_sch_q', SchQ)
  BY <1>1, CreateQueues
<1>. HIDE DEF q
<1>4. CASE ~Started
  BY <1>2, <1>4 DEF TopInv, Started
<1>5. CASE Started
  <2>1. p_current = p_next /\ p_current \in Thread
    BY <1>1, <1>5 DEF OnlyPreemptingCalls, MayCall, Started, SwitchInv, Inv, KernelInv
  <2>2. CASE sch_set_next_thread(q)
    BY <1>3, <2>2, TopChosen
  <2>3. CASE ~(TopPrio(q) < item_sch_tag'[p_current]) /\ p_next' = p_next
    <3>1. /\ TopPrio(q) \in Prio
          /\ \A u \in Thread : state'[u] = "READY" => TopPrio(q) <= item_sch_tag'[u]
      BY <1>3, ReadyBelow
    <3>2. TopPrio(q) \in Nat /\ \A u \in Thread : item_sch_tag'[u] \in Nat
      BY <3>1, Constants DEF ThreadInv
    <3>3. p_next' \in Thread /\ item_sch_tag'[p_next'] <= TopPrio(q)
      <4>1. p_next' = p_current /\ item_sch_tag'[p_current] \in Nat
        BY <2>1, <2>3, <3>2
      <4>. QED
        BY <2>1, <2>3, <3>2, <4>1
    <3>4. ASSUME NEW u \in Thread, state'[u] = "READY"
          PROVE  item_sch_tag'[p_next'] <= item_sch_tag'[u]
      <4>1. TopPrio(q) <= item_sch_tag'[u]
        BY <3>1, <3>4
      <4>2. item_sch_tag'[p_next'] \in Nat /\ item_sch_tag'[u] \in Nat
        BY <3>2, <3>3
      <4>. QED
        BY <3>2, <3>3, <4>1, <4>2
    <3>. QED
      BY <3>4 DEF TopInv
  <2>. QED
    BY <1>2, <1>5, <2>2, <2>3 DEF sch_reschedule_req, Started
<1>. QED
  BY <1>4, <1>5

LEMMA NextTop ==
    ASSUME OnlyPreemptingCalls, Inv, ThreadInv', SwitchInv, TopInv, Next
    PROVE  TopInv'
<1>1. IsrsSpareThreads
  BY DEF OnlyPreemptingCalls, IsrsSpareThreads
<1>2. Queues(q_items, item_sch_q, SchQ)
  BY DEF Inv, ItemInv
<1>3. ASSUME NEW c \in Context, NEW t \in Thread \ {Idle},
             \/ os_thread_resume(c, t)
             \/ \E prio \in Prio : os_thread_set_priority(c, t, prio)
      PROVE  FALSE
  BY <1>3 DEF os_thread_resume, os_thread_set_priority, MayCall, OnlyPreemptingCalls,
     Started
<1>4. ASSUME NEW c \in Context, os_thread_yield(c) PROVE TopInv'
  <2>1. sch_unload_current(c, q_items, "unload") /\ item_sch_q' = item_sch_q
    BY <1>4 DEF os_thread_yield
  <2>2. Queues(q_items, item_sch_q', SchQ)
    BY <1>2, <2>1
  <2>. QED
    BY <2>1, <2>2, TopUnload
<1>5. ASSUME NEW n \in Timeouts, os_thread_delay(n) PROVE TopInv'
  <2>1. p_current \in Thread \ {Idle}
    BY <1>5, CallingThread DEF os_thread_delay
  <2>2. /\ item_sch_q' = [item_sch_q EXCEPT ![p_current] = NULL]
        /\ sch_unload_current("thread", BlockedItems(NULL), "unload")
    BY <1>5 DEF os_thread_delay, thd_block_current, BlockedItems
  <2>3. Queues(BlockedItems(NULL), item_sch_q', SchQ)
    BY <2>1, <2>2, BlockQueues DEF Inv
  <2>. QED
    BY <2>2, <2>3, TopUnload
<1>6. CASE CallNext
  BY <1>1, <1>3, <1>4, <1>5, <1>6, TopCreate, TopWithdraw DEF CallNext
<1>7. CASE HeartbeatNext
  <2>1. CASE heartbeat_tick \/ heartbeat_evict
    <3>1. handler' # "none"
      BY <2>1 DEF heartbeat_tick, heartbeat_evict, schVars
    <3>. QED
      BY <3>1 DEF TopInv
  <2>2. CASE heartbeat_done
    <3>1. sch_set_next_thread(q_items) /\ item_sch_q' = item_sch_q
      BY <2>2 DEF heartbeat_done
    <3>2. Queues(q_items, item_sch_q', SchQ)
      BY <1>2, <3>1
    <3>. QED
      BY <3>1, <3>2, TopChosen
  <2>. QED
    BY <1>7, <2>1, <2>2 DEF HeartbeatNext
<1>8. CASE os_start
  <2>1. sch_set_next_thread(q_items) /\ item_sch_q' = item_sch_q
    BY <1>8 DEF os_start
  <2>2. Queues(q_items, item_sch_q', SchQ)
    BY <1>2, <2>1
  <2>. QED
    BY <2>1, <2>2, TopChosen
<1>9. CASE contextsw_req \/ context_switch \/ unload_return
  <2>1. /\ handler = "none" /\ Started
        /\ UNCHANGED <<state, item_sch_tag, p_next>>
    BY <1>9 DEF contextsw_req, context_switch, unload_return, itemVars, Inv, KernelInv,
       StartInv
  <2>. QED
    BY <2>1 DEF TopInv
<1>. QED
  BY <1>6, <1>7, <1>8, <1>9 DEF Next, SwitchNext

\* "A higher priority thread will always preempt one with a lower priority"
\* (README.md): outside the heartbeat no ready thread has a higher priority than
\* the one that is loaded or has been chosen, and if the chosen one is not loaded
\* yet, a switch is pending or about to be requested.
THEOREM HighestRuns == ASSUME OnlyPreemptingCalls PROVE Spec => []RunsHighest
<1>1. IsrsSpareThreads
  BY DEF OnlyPreemptingCalls, IsrsSpareThreads
<1>2. Init => TopInv
  BY DEF Init, sch_init, TopInv, Started
<1>3. Inv /\ Inv' /\ SwitchInv /\ TopInv /\ [Next]_vars => TopInv'
  <2>1. TopInv /\ UNCHANGED vars => TopInv'
    BY DEF vars, itemVars, schVars, TopInv, Started
  <2>2. Inv' => ThreadInv'
    BY DEF Inv
  <2>. QED
    BY <2>1, <2>2, NextTop
<1>4. Inv /\ SwitchInv /\ TopInv => RunsHighest
  BY DEF SwitchInv, TopInv, RunsHighest, Inv, KernelInv, CodePoint
<1>. QED
  BY <1>1, <1>2, <1>3, <1>4, SwitchAlways, PTL DEF Spec

-----------------------------------------------------------------------------
(* What a step of the scheduler does to a wait queue *)

\* It stays as it is, or one thread leaves it, or one thread is inserted anew by
\* the priority it is given.
WaitQueueStep(m) ==
    \/ /\ q_items'[m] = q_items[m]
       /\ \A t \in Range(q_items[m]) : item_sch_tag'[t] = item_sch_tag[t]
    \/ \E t \in Thread :
          /\ item_sch_q[t] = m /\ item_sch_q'[t] \notin WaitQ
          /\ q_items'[m] = RemoveFirst(q_items[m], t)
          /\ item_sch_tag' = item_sch_tag
    \/ \E c \in Context, t \in Thread, prio \in Prio :
          /\ os_thread_set_priority(c, t, prio)
          /\ item_sch_q[t] = m
          /\ item_sch_tag' = [item_sch_tag EXCEPT ![t] = prio]
          /\ q_items'[m] = sch_qitem_enq_prio(RemoveFirst(q_items[m], t), t, item_sch_tag')

\* Choosing the next thread touches a ready queue.
LEMMA ChoosesElsewhere ==
    ASSUME NEW q, NEW owner, Queues(q, owner, SchQ), owner[Idle] = IdlePrio,
           sch_set_next_thread(q) \/ q_items' = q, NEW m \in WaitQ
    PROVE  q_items'[m] = q[m]
<1>1. TopPrio(q) \in Prio
  BY TopPrioExists
<1>2. TopPrio(q) # m
  BY <1>1, WaitQNames
<1>3. sch_set_next_thread(q) => q_items' = [q EXCEPT ![TopPrio(q)] = Rotate(@)]
  BY DEF sch_set_next_thread
<1>4. m \in SchQ /\ DOMAIN q = SchQ
  BY WaitQNames DEF Queues
<1>. QED
  BY <1>2, <1>3, <1>4

LEMMA RemovedFrom ==
    ASSUME Inv, NEW t \in Thread, NEW m \in WaitQ
    PROVE  sch_qitem_remove(t)[m] =
              IF item_sch_q[t] = m THEN RemoveFirst(q_items[m], t) ELSE q_items[m]
BY WaitQNames DEF Inv, ItemInv, Queues, sch_qitem_remove

\* A thread leaves the scheduler's queues, or goes to a ready queue.
LEMMA WaitLeft ==
    ASSUME Inv, NEW t \in Thread, NEW m \in WaitQ, item_sch_q'[t] \notin WaitQ,
           item_sch_tag' = item_sch_tag, q_items'[m] = sch_qitem_remove(t)[m]
    PROVE  WaitQueueStep(m)
BY RemovedFrom DEF WaitQueueStep

LEMMA WaitReady ==
    ASSUME Inv, NEW t \in Thread, NEW m \in WaitQ, thd_ready(t),
           q_items'[m] = ReadyItems(t)[m]
    PROVE  WaitQueueStep(m)
<1>1. item_sch_tag[t] \in Prio /\ item_sch_tag[t] \notin WaitQ /\ item_sch_tag[t] # m
  BY WaitQNames DEF Inv, ThreadInv
<1>2. ReadyItems(t)[m] = sch_qitem_remove(t)[m]
  <2>1. ReadyItems(t) = [sch_qitem_remove(t) EXCEPT
                            ![item_sch_tag[t]] = sch_qitem_enq_fifo(@, t)]
    BY DEF ReadyItems
  <2>2. m \in DOMAIN sch_qitem_remove(t)
    BY WaitQNames DEF sch_qitem_remove, Inv, ItemInv, Queues
  <2>. QED
    BY <1>1, <2>1, <2>2
<1>3. item_sch_q'[t] \notin WaitQ /\ item_sch_tag' = item_sch_tag
  BY <1>1 DEF thd_ready, Inv, ThreadInv
<1>. QED
  BY <1>2, <1>3, WaitLeft

LEMMA WaitWithdraw ==
    ASSUME Inv, NEW t \in Thread, t # Idle, NEW s \in {"SUSPENDED", "DELETED", "FREE"},
           Withdraw(t, s), NEW m \in WaitQ,
           \/ sch_set_next_thread(sch_qitem_remove(t))
           \/ q_items' = sch_qitem_remove(t)
    PROVE  WaitQueueStep(m)
<1>1. Queues(sch_qitem_remove(t), item_sch_q', SchQ) /\ item_sch_q'[Idle] = IdlePrio
  BY WithdrawStep DEF Inv
<1>2. q_items'[m] = sch_qitem_remove(t)[m]
  BY <1>1, ChoosesElsewhere
<1>3. item_sch_q'[t] \notin WaitQ /\ item_sch_tag' = item_sch_tag
  BY WaitQNames DEF Withdraw, Inv, ThreadInv
<1>. QED
  BY <1>2, <1>3, WaitLeft

LEMMA WaitChoose ==
    ASSUME Inv, NEW m \in WaitQ, sch_set_next_thread(q_items) \/ q_items' = q_items,
           item_sch_tag' = item_sch_tag
    PROVE  WaitQueueStep(m)
<1>1. q_items'[m] = q_items[m]
  BY ChoosesElsewhere, IdleQueued DEF Inv, ItemInv
<1>. QED
  BY <1>1 DEF WaitQueueStep

LEMMA WaitCreate ==
    ASSUME Inv, NEW t \in Thread, t # Idle, ~Live(t), NEW prio \in Prio,
           thd_create(t, prio), NEW m \in WaitQ
    PROVE  WaitQueueStep(m)
<1>. DEFINE q == [q_items EXCEPT ![prio] = sch_qitem_enq_fifo(@, t)]
<1>1. Queues(q, item_sch_q', SchQ)
  BY CreateQueues
<1>2. /\ item_sch_q' = [item_sch_q EXCEPT ![t] = prio]
      /\ item_sch_tag' = [item_sch_tag EXCEPT ![t] = prio]
      /\ sch_set_next_thread(q) \/ q_items' = q
  BY DEF thd_create, thd_init, sch_reschedule_req
<1>3. item_sch_q'[Idle] = IdlePrio
  BY <1>2, IdleQueued, Constants DEF Inv, ThreadInv
<1>4. q[m] = q_items[m]
  BY WaitQNames DEF Inv, ItemInv, Queues
<1>. HIDE DEF q
<1>5. q_items'[m] = q_items[m]
  BY <1>1, <1>2, <1>3, <1>4, ChoosesElsewhere
<1>6. item_sch_q[t] = NULL
  BY DEF Inv, ThreadInv, ThreadStateInv, Live, ThdState
<1>7. t \notin Range(q_items[m])
  BY <1>6, WaitQNames DEF Inv, ItemInv, Queues, Owned
<1>8. \A u \in Range(q_items[m]) : u \in Thread /\ u # t
  <2>1. q_items[m] \in Seq(Thread)
    BY WaitQNames DEF Inv, ItemInv, Queues
  <2>. QED
    BY <1>7, <2>1 DEF Range
<1>. QED
  BY <1>2, <1>5, <1>8 DEF WaitQueueStep, Inv, ThreadInv

LEMMA WaitSetPriority ==
    ASSUME Inv, NEW c \in Context, NEW t \in Thread, NEW prio \in Prio,
           os_thread_set_priority(c, t, prio), NEW m \in WaitQ
    PROVE  WaitQueueStep(m)
<1>1. /\ item_sch_tag' = [item_sch_tag EXCEPT ![t] = prio]
      /\ \A u \in Thread \ {t} : item_sch_tag'[u] = item_sch_tag[u]
  BY DEF os_thread_set_priority, Inv, ThreadInv
<1>2. m \in SchQ /\ m \notin Prio /\ DOMAIN sch_qitem_remove(t) = SchQ
  BY WaitQNames DEF sch_qitem_remove, Inv, ItemInv, Queues
<1>3. /\ t \in Range(q_items[m]) <=> item_sch_q[t] = m
      /\ \A u \in Range(q_items[m]) : u \in Thread
  BY <1>2 DEF Inv, ItemInv, Queues, Owned, Range
<1>4. CASE item_sch_q[t] # m
  <2>1. sch_qitem_remove(t)[m] = q_items[m]
    BY <1>4, RemovedFrom
  <2>2. \/ q_items' = q_items
        \/ \E k \in Prio \cup {item_sch_q[t]} : \E s :
              q_items' = [sch_qitem_remove(t) EXCEPT ![k] = s]
    BY DEF os_thread_set_priority
  <2>3. q_items'[m] = q_items[m]
    BY <1>2, <1>4, <2>1, <2>2
  <2>. QED
    BY <1>1, <1>3, <1>4, <2>3 DEF WaitQueueStep
<1>5. CASE item_sch_q[t] = m
  <2>1. state[t] = "BLOCKED" /\ item_sch_q[t] # NULL
    BY <1>5, WaitQNames DEF Inv, ThreadInv, ThreadStateInv, ThdState
  <2>2. q_items' = [sch_qitem_remove(t) EXCEPT ![m] =
                       sch_qitem_enq_prio(@, t, item_sch_tag')]
    BY <1>5, <2>1 DEF os_thread_set_priority
  <2>3. sch_qitem_remove(t)[m] = RemoveFirst(q_items[m], t)
    BY <1>5, RemovedFrom
  <2>4. q_items'[m] = sch_qitem_enq_prio(RemoveFirst(q_items[m], t), t, item_sch_tag')
    BY <1>2, <2>2, <2>3
  <2>. QED
    BY <1>1, <1>5, <2>4 DEF WaitQueueStep
<1>. QED
  BY <1>4, <1>5

LEMMA NextWaitQueue == ASSUME Inv, Next, NEW m \in WaitQ PROVE WaitQueueStep(m)
<1>1. ASSUME NEW c \in Context, NEW t \in Thread \ {Idle}, NEW prio \in Prio,
             os_thread_create(c, t, prio) \/ thd_create_static(c, t, prio)
      PROVE  WaitQueueStep(m)
  <2>1. ~Live(t) /\ thd_create(t, prio)
    BY <1>1 DEF os_thread_create, thd_create_static, Live
  <2>. QED
    BY <2>1, WaitCreate
<1>2. ASSUME NEW c \in Context, NEW t \in Thread \ {Idle},
             \/ os_thread_delete(c, t) \/ thd_delete_static(c, t)
             \/ os_thread_suspend(c, t)
      PROVE  WaitQueueStep(m)
  <2>1. /\ \E s \in {"SUSPENDED", "DELETED", "FREE"} : Withdraw(t, s)
        /\ \/ sch_set_next_thread(sch_qitem_remove(t))
           \/ q_items' = sch_qitem_remove(t)
    BY <1>2 DEF os_thread_delete, thd_delete_static, thd_delete, os_thread_suspend,
       sch_unload_current
  <2>. QED
    BY <2>1, WaitWithdraw
<1>3. ASSUME NEW c \in Context, NEW t \in Thread \ {Idle}, os_thread_resume(c, t)
      PROVE  WaitQueueStep(m)
  BY <1>3, WaitReady DEF os_thread_resume
<1>4. ASSUME NEW c \in Context, os_thread_yield(c) PROVE WaitQueueStep(m)
  BY <1>4, WaitChoose DEF os_thread_yield, sch_unload_current
<1>5. ASSUME NEW n \in Timeouts, os_thread_delay(n) PROVE WaitQueueStep(m)
  <2>1. p_current \in Thread \ {Idle}
    BY <1>5, CallingThread DEF os_thread_delay
  <2>2. /\ item_sch_q' = [item_sch_q EXCEPT ![p_current] = NULL]
        /\ item_sch_tag' = item_sch_tag
        /\ sch_set_next_thread(BlockedItems(NULL))
    BY <1>5 DEF os_thread_delay, thd_block_current, sch_unload_current, BlockedItems
  <2>3. Queues(BlockedItems(NULL), item_sch_q', SchQ) /\ item_sch_q'[Idle] = IdlePrio
    BY <2>1, <2>2, BlockQueues DEF Inv
  <2>4. q_items'[m] = sch_qitem_remove(p_current)[m]
    BY <2>2, <2>3, ChoosesElsewhere DEF BlockedItems
  <2>5. item_sch_q'[p_current] \notin WaitQ
    BY <2>1, <2>2, WaitQNames DEF Inv, ThreadInv
  <2>. QED
    BY <2>1, <2>2, <2>4, <2>5, WaitLeft
<1>6. CASE CallNext
  BY <1>1, <1>2, <1>3, <1>4, <1>5, <1>6, WaitSetPriority DEF CallNext
<1>7. CASE heartbeat_evict
  <2>. DEFINE t == Head(q_delay[p_delayq_normal])
  <2>1. t \in Thread
    BY <1>7, HeadDelayed DEF heartbeat_evict, Due
  <2>. QED
    BY <1>7, <2>1, WaitReady DEF heartbeat_evict
<1>8. CASE heartbeat_tick \/ heartbeat_done \/ SwitchNext
  <2>1. /\ sch_set_next_thread(q_items) \/ q_items' = q_items
        /\ item_sch_tag' = item_sch_tag
    BY <1>8 DEF heartbeat_tick, heartbeat_done, SwitchNext, os_start, contextsw_req,
       context_switch, unload_return, itemVars
  <2>. QED
    BY <2>1, WaitChoose
<1>. QED
  BY <1>6, <1>7, <1>8 DEF Next, HeartbeatNext

\* If nobody leaves it or is given a priority, a wait queue stays as it is.
LEMMA WaitQueueStays ==
    ASSUME Inv, Next, NEW m \in WaitQ,
           \A t \in Thread : item_sch_q[t] = m => item_sch_q'[t] \in WaitQ,
           \A c \in Context, t \in Thread, prio \in Prio :
              os_thread_set_priority(c, t, prio) => item_sch_q[t] # m
    PROVE  q_items'[m] = q_items[m]
BY NextWaitQueue DEF WaitQueueStep

\* The wait queues are in the order of the priorities: os_thread_set_priority
\* inserts a waiting thread anew.
WaitersByPriority == \A m \in WaitQ : Sorted(q_items[m], item_sch_tag)

LEMMA NextByPriority == Inv /\ WaitersByPriority /\ Next => WaitersByPriority'
<1>. SUFFICES ASSUME Inv, WaitersByPriority, Next, NEW m \in WaitQ
              PROVE  Sorted(q_items'[m], item_sch_tag')
  BY DEF WaitersByPriority
<1>. DEFINE s == q_items[m]
<1>1. s \in Seq(Thread) /\ Queue(s, Thread) /\ Sorted(s, item_sch_tag)
  BY WaitQNames DEF Inv, ItemInv, Queues, Owned, Queue, WaitersByPriority
<1>2. \A t \in Thread : item_sch_q[t] = m => t \in Range(s)
  BY WaitQNames DEF Inv, ItemInv, Queues, Owned
<1>. HIDE DEF s
<1>3. CASE q_items'[m] = s /\ \A t \in Range(s) : item_sch_tag'[t] = item_sch_tag[t]
  BY <1>1, <1>3, SortedSame
<1>4. ASSUME NEW t \in Thread, item_sch_q[t] = m, q_items'[m] = RemoveFirst(s, t),
             item_sch_tag' = item_sch_tag
      PROVE  Sorted(q_items'[m], item_sch_tag')
  BY <1>1, <1>2, <1>4, SortedRemoved
<1>5. ASSUME NEW t \in Thread, item_sch_q[t] = m, NEW prio \in Prio,
             item_sch_tag' = [item_sch_tag EXCEPT ![t] = prio],
             q_items'[m] = sch_qitem_enq_prio(RemoveFirst(s, t), t, item_sch_tag')
      PROVE  Sorted(q_items'[m], item_sch_tag')
  <2>. DEFINE r == RemoveFirst(s, t)
  <2>1. /\ Queue(r, Thread) /\ r \in Seq(Thread) /\ Sorted(r, item_sch_tag)
        /\ Range(r) = Range(s) \ {t}
    BY <1>1, <1>2, <1>5, SortedRemoved, RemoveQueue DEF Queue
  <2>. HIDE DEF r
  <2>2. \A u \in Range(r) : u \in Thread /\ u # t
    BY <2>1 DEF Range
  <2>3. item_sch_tag' \in [Thread -> Nat] /\ \A u \in Range(r) : item_sch_tag'[u] = item_sch_tag[u]
    BY <1>5, <2>2, Constants DEF Inv, ThreadInv
  <2>4. Sorted(r, item_sch_tag')
    BY <2>1, <2>3, SortedSame
  <2>5. Sorted(sch_qitem_enq_prio(r, t, item_sch_tag'), item_sch_tag')
    BY <2>1, <2>2, <2>3, <2>4, SortedEnq
  <2>. QED
    BY <1>5, <2>5 DEF r
<1>. QED
  BY <1>3, <1>4, <1>5, NextWaitQueue DEF WaitQueueStep, s

\* A thread that blocks is inserted by its priority.
LEMMA BlockInserts ==
    ASSUME Inv, NEW s \in WaitQ, NEW info, NEW n,
           p_current \in Thread \ {Idle}, thd_block_current(s, info, n)
    PROVE  /\ q_items'[s] = sch_qitem_enq_prio(q_items[s], p_current, item_sch_tag)
           /\ \A m \in WaitQ \ {s} : q_items'[m] = q_items[m]
           /\ Queue(q_items[s], Thread) /\ p_current \notin Range(q_items[s])
           /\ item_sch_tag' = item_sch_tag /\ item_sch_q[p_current] \notin WaitQ
<1>. DEFINE t == p_current
<1>1. /\ item_sch_q' = [item_sch_q EXCEPT ![t] = s]
      /\ sch_set_next_thread(BlockedItems(s))
      /\ item_sch_tag' = item_sch_tag
      /\ state[t] = "READY"
  BY WaitQNames DEF thd_block_current, BlockedItems, sch_unload_current
<1>2. Queues(BlockedItems(s), item_sch_q', SchQ) /\ item_sch_q'[Idle] = IdlePrio
  BY <1>1, BlockQueues DEF Inv
<1>3. item_sch_q[t] \notin WaitQ
  BY <1>1, WaitQNames DEF Inv, ThreadInv, ThreadStateInv, ThdState
<1>4. /\ \A m \in WaitQ : sch_qitem_remove(t)[m] = q_items[m]
      /\ DOMAIN sch_qitem_remove(t) = SchQ
  <2>1. \A m \in WaitQ : sch_qitem_remove(t)[m] = q_items[m]
    BY <1>3, RemovedFrom
  <2>. QED
    BY <2>1 DEF sch_qitem_remove, Inv, ItemInv, Queues
<1>5. BlockedItems(s) = [sch_qitem_remove(t) EXCEPT ![s] =
                            sch_qitem_enq_prio(@, t, item_sch_tag)]
  BY WaitQNames DEF BlockedItems
<1>6. /\ BlockedItems(s)[s] = sch_qitem_enq_prio(q_items[s], t, item_sch_tag)
      /\ \A m \in WaitQ \ {s} : BlockedItems(s)[m] = q_items[m]
  BY <1>4, <1>5, WaitQNames
<1>7. \A m \in WaitQ : q_items'[m] = BlockedItems(s)[m]
  BY <1>1, <1>2, ChoosesElsewhere
<1>8. Queue(q_items[s], Thread) /\ t \notin Range(q_items[s])
  BY <1>3, WaitQNames DEF Inv, ItemInv, Queues, Owned, Queue
<1>. QED
  BY <1>1, <1>3, <1>6, <1>7, <1>8

LEMMA BlockByPriority ==
    ASSUME Inv, WaitersByPriority, NEW s \in WaitQ, NEW info, NEW n,
           p_current \in Thread \ {Idle}, thd_block_current(s, info, n)
    PROVE  WaitersByPriority'
<1>. DEFINE t == p_current
<1>1. /\ q_items'[s] = sch_qitem_enq_prio(q_items[s], t, item_sch_tag)
      /\ \A m \in WaitQ \ {s} : q_items'[m] = q_items[m]
      /\ Queue(q_items[s], Thread) /\ t \notin Range(q_items[s])
      /\ item_sch_tag' = item_sch_tag
  BY BlockInserts
<1>2. item_sch_tag \in [Thread -> Nat]
  BY Constants DEF Inv, ThreadInv
<1>3. Sorted(sch_qitem_enq_prio(q_items[s], t, item_sch_tag), item_sch_tag)
  BY <1>1, <1>2, SortedEnq DEF WaitersByPriority
<1>. QED
  BY <1>1, <1>3 DEF WaitersByPriority

\* A loop of a resource readies a thread: it leaves the wait queue it is in.
LEMMA ReadyLeaves ==
    ASSUME Inv, NEW t \in Thread, thd_ready(t),
           sch_set_next_thread(ReadyItems(t)) \/ q_items' = ReadyItems(t), NEW m \in WaitQ
    PROVE  q_items'[m] = IF item_sch_q[t] = m THEN RemoveFirst(q_items[m], t) ELSE q_items[m]
<1>1. Queues(ReadyItems(t), item_sch_q', SchQ) /\ item_sch_q'[Idle] = IdlePrio
  BY ReadyQueues DEF Inv
<1>2. q_items'[m] = ReadyItems(t)[m]
  BY <1>1, ChoosesElsewhere
<1>3. item_sch_tag[t] # m
  BY WaitQNames DEF Inv, ThreadInv
<1>4. ReadyItems(t)[m] = sch_qitem_remove(t)[m]
  <2>1. ReadyItems(t) = [sch_qitem_remove(t) EXCEPT
                            ![item_sch_tag[t]] = sch_qitem_enq_fifo(@, t)]
    BY DEF ReadyItems
  <2>2. m \in DOMAIN sch_qitem_remove(t)
    BY WaitQNames DEF sch_qitem_remove, Inv, ItemInv, Queues
  <2>. QED
    BY <1>3, <2>1, <2>2
<1>. QED
  BY <1>2, <1>4, RemovedFrom

LEMMA ReadyByPriority ==
    ASSUME Inv, WaitersByPriority, NEW t \in Thread, thd_ready(t),
           sch_set_next_thread(ReadyItems(t)) \/ q_items' = ReadyItems(t)
    PROVE  WaitersByPriority'
<1>. SUFFICES ASSUME NEW m \in WaitQ PROVE Sorted(q_items'[m], item_sch_tag')
  BY DEF WaitersByPriority
<1>1. item_sch_tag' = item_sch_tag
  BY DEF thd_ready
<1>2. Sorted(q_items[m], item_sch_tag) /\ Queue(q_items[m], Thread)
  BY WaitQNames DEF Inv, ItemInv, Queues, Owned, Queue, WaitersByPriority
<1>3. item_sch_q[t] = m => t \in Range(q_items[m])
  BY WaitQNames DEF Inv, ItemInv, Queues, Owned
<1>. QED
  BY <1>1, <1>2, <1>3, ReadyLeaves, SortedRemoved

\* The threads in a wait queue are the ones whose items say so.
WaitersListed ==
    \A m \in WaitQ :
        /\ Queue(q_items[m], Thread)
        /\ Range(q_items[m]) = {t \in Thread : item_sch_q[t] = m}

LEMMA ListsWaiters == Inv => WaitersListed
<1>. SUFFICES ASSUME Inv, NEW m \in WaitQ
              PROVE  /\ Queue(q_items[m], Thread)
                     /\ Range(q_items[m]) = {t \in Thread : item_sch_q[t] = m}
  BY DEF WaitersListed
<1>1. Queue(q_items[m], Thread) /\ q_items[m] \in Seq(Thread)
  BY WaitQNames DEF Inv, ItemInv, Queues, Owned, Queue
<1>2. Range(q_items[m]) \subseteq Thread
  BY <1>1 DEF Range
<1>3. \A t \in Thread : t \in Range(q_items[m]) <=> item_sch_q[t] = m
  BY WaitQNames DEF Inv, ItemInv, Queues, Owned
<1>. QED
  BY <1>1, <1>2, <1>3

LEMMA WaitersOf ==
    ASSUME Inv, NEW m \in WaitQ
    PROVE  /\ Queue(q_items[m], Thread)
           /\ Range(q_items[m]) = {t \in Thread : item_sch_q[t] = m}
BY ListsWaiters DEF WaitersListed

LEMMA ListsWaitersNext == Inv' => WaitersListed'
BY ListsWaiters, PTL

LEMMA WaitersNow ==
    ASSUME Inv', NEW m \in WaitQ
    PROVE  /\ Queue(q_items'[m], Thread)
           /\ Range(q_items'[m]) = {t \in Thread : item_sch_q'[t] = m}
BY ListsWaitersNext DEF WaitersListed

-----------------------------------------------------------------------------
(* Threads that stay, for the resources that count what threads hold *)

\* As long as no thread is deleted, and none returns from its entry function.
NothingDeleted == "delete" \notin Calls \cup IsrCalls

LEMMA LiveStays ==
    ASSUME NothingDeleted, Inv, Next, NEW t \in Thread, Live(t) PROVE Live(t)'
<1>1. ASSUME NEW c \in Context, NEW u \in Thread,
             os_thread_delete(c, u) \/ thd_delete_static(c, u)
      PROVE  FALSE
  BY <1>1 DEF os_thread_delete, thd_delete_static, MayCall, NothingDeleted, Started
<1>. DEFINE Becomes(s) == \E u \in Thread : state' = [state EXCEPT ![u] = s]
            Stays == \/ state' = state
                     \/ Becomes("READY") \/ Becomes("BLOCKED") \/ Becomes("SUSPENDED")
<1>2. ASSUME NEW c \in Context, NEW u \in Thread \ {Idle}, NEW prio \in Prio,
             os_thread_create(c, u, prio) \/ thd_create_static(c, u, prio)
      PROVE  Stays
  BY <1>2 DEF os_thread_create, thd_create_static, thd_create, thd_init
<1>3. ASSUME NEW c \in Context, NEW u \in Thread \ {Idle}, NEW prio \in Prio,
             os_thread_set_priority(c, u, prio)
      PROVE  Stays
  BY <1>3 DEF os_thread_set_priority
<1>4. ASSUME NEW c \in Context, NEW u \in Thread \ {Idle},
             os_thread_suspend(c, u) \/ os_thread_resume(c, u)
      PROVE  Stays
  BY <1>4 DEF os_thread_suspend, Withdraw, os_thread_resume, thd_ready
<1>5. ASSUME NEW c \in Context, os_thread_yield(c) PROVE Stays
  BY <1>5 DEF os_thread_yield
<1>6. ASSUME NEW n \in Timeouts, os_thread_delay(n) PROVE Stays
  BY <1>6, CallingThread DEF os_thread_delay, thd_block_current
<1>7. ASSUME heartbeat_evict PROVE Stays
  BY <1>7, HeadDelayed DEF heartbeat_evict, Due, thd_ready
<1>8. ASSUME heartbeat_tick \/ heartbeat_done \/ SwitchNext PROVE Stays
  BY <1>8 DEF heartbeat_tick, heartbeat_done, SwitchNext, os_start, contextsw_req,
     context_switch, unload_return
<1>9. Stays
  <2>. HIDE DEF Stays
  <2>. QED
    BY <1>1, <1>2, <1>3, <1>4, <1>5, <1>6, <1>7, <1>8 DEF Next, CallNext, HeartbeatNext
<1>. QED
  BY <1>9 DEF Live, Inv, ThreadInv

\* The thread that a step chooses anew is there.
LEMMA NextChosen ==
    ASSUME Inv, ThreadInv', Next PROVE p_next' = p_next \/ Live(p_next)'
<1>1. ASSUME NEW q, Queues(q, item_sch_q', SchQ),
             sch_set_next_thread(q) \/ p_next' = p_next
      PROVE  p_next' = p_next \/ Live(p_next)'
  BY <1>1, ChosenReady DEF Live
<1>2. Queues(q_items, item_sch_q, SchQ)
  BY DEF Inv, ItemInv
<1>3. ASSUME NEW c \in Context, NEW t \in Thread \ {Idle}, NEW prio \in Prio,
             os_thread_create(c, t, prio) \/ thd_create_static(c, t, prio)
      PROVE  p_next' = p_next \/ Live(p_next)'
  <2>. DEFINE q == [q_items EXCEPT ![prio] = sch_qitem_enq_fifo(@, t)]
  <2>1. ~Live(t) /\ thd_create(t, prio)
    BY <1>3 DEF os_thread_create, thd_create_static, Live
  <2>2. Queues(q, item_sch_q', SchQ)
    BY <2>1, CreateQueues
  <2>3. sch_set_next_thread(q) \/ p_next' = p_next
    BY <2>1 DEF thd_create, sch_reschedule_req
  <2>. QED
    BY <1>1, <2>2, <2>3
<1>4. ASSUME NEW c \in Context, NEW t \in Thread \ {Idle},
             \/ os_thread_delete(c, t) \/ thd_delete_static(c, t)
             \/ os_thread_suspend(c, t)
      PROVE  p_next' = p_next \/ Live(p_next)'
  <2>1. PICK s \in {"SUSPENDED", "DELETED", "FREE"} :
           /\ Withdraw(t, s)
           /\ sch_set_next_thread(sch_qitem_remove(t)) \/ p_next' = p_next
    BY <1>4 DEF os_thread_delete, thd_delete_static, thd_delete, os_thread_suspend,
       sch_unload_current
  <2>2. Queues(sch_qitem_remove(t), item_sch_q', SchQ)
    BY <2>1, WithdrawStep DEF Inv
  <2>. QED
    BY <1>1, <2>1, <2>2
<1>5. ASSUME NEW n \in Timeouts, os_thread_delay(n)
      PROVE  p_next' = p_next \/ Live(p_next)'
  <2>1. p_current \in Thread \ {Idle}
    BY <1>5, CallingThread DEF os_thread_delay
  <2>2. /\ item_sch_q' = [item_sch_q EXCEPT ![p_current] = NULL]
        /\ sch_set_next_thread(BlockedItems(NULL))
    BY <1>5 DEF os_thread_delay, thd_block_current, sch_unload_current, BlockedItems
  <2>3. Queues(BlockedItems(NULL), item_sch_q', SchQ)
    BY <2>1, <2>2, BlockQueues DEF Inv
  <2>. QED
    BY <1>1, <2>2, <2>3
<1>6. CASE \E c \in Context : os_thread_yield(c)
  <2>1. item_sch_q' = item_sch_q /\ sch_set_next_thread(q_items)
    BY <1>6 DEF os_thread_yield, sch_unload_current
  <2>. QED
    BY <1>1, <1>2, <2>1
<1>7. CASE heartbeat_done \/ os_start
  <2>1. item_sch_q' = item_sch_q /\ sch_set_next_thread(q_items)
    BY <1>7 DEF heartbeat_done, os_start
  <2>. QED
    BY <1>1, <1>2, <2>1
<1>8. ASSUME NEW c \in Context, NEW t \in Thread \ {Idle},
             \/ os_thread_resume(c, t)
             \/ \E prio \in Prio : os_thread_set_priority(c, t, prio)
      PROVE  p_next' = p_next
  BY <1>8 DEF os_thread_resume, os_thread_set_priority, schVars
<1>9. CASE \/ heartbeat_tick \/ heartbeat_evict
           \/ contextsw_req \/ context_switch \/ unload_return
  BY <1>9 DEF heartbeat_tick, heartbeat_evict, contextsw_req, context_switch,
     unload_return, schVars
<1>10. CASE CallNext
  BY <1>3, <1>4, <1>5, <1>6, <1>8, <1>10 DEF CallNext
<1>. QED
  BY <1>7, <1>9, <1>10 DEF Next, HeartbeatNext, SwitchNext

\* The thread that is loaded and the one that is chosen are there.
LoadedLive == Started => Live(p_current) /\ Live(p_next)

LEMMA NextLoaded ==
    ASSUME NothingDeleted, Inv, ThreadInv', LoadedLive, Next PROVE LoadedLive'
<1>1. Started => p_current \in Thread /\ p_next \in Thread
  BY DEF Inv, KernelInv, StartInv, Started
<1>2. CASE os_start
  <2>1. Queues(q_items, item_sch_q', SchQ) /\ sch_set_next_thread(q_items)
    BY <1>2 DEF Inv, ItemInv, os_start
  <2>2. Live(p_next)' /\ p_current' = p_next'
    BY <1>2, <2>1, ChosenReady DEF Live, os_start
  <2>. QED
    BY <2>2 DEF LoadedLive, Live
<1>3. CASE context_switch
  <2>1. Started /\ p_current' = p_next /\ p_next' = p_next /\ state' = state
    BY <1>3 DEF context_switch, Inv, KernelInv, StartInv
  <2>. QED
    BY <2>1 DEF LoadedLive, Live
<1>4. CASE p_current' = p_current
  <2>1. Started => Live(p_current)' /\ (p_next' = p_next \/ Live(p_next)')
    BY <1>1, <1>4, LiveStays, NextChosen DEF LoadedLive, Live
  <2>2. Started /\ p_next' = p_next => Live(p_next)'
    BY <1>1, LiveStays DEF LoadedLive, Live
  <2>. QED
    BY <1>4, <2>1, <2>2 DEF LoadedLive, Started
<1>5. ASSUME NEW c \in Context, NEW t \in Thread \ {Idle}, NEW prio \in Prio,
             \/ os_thread_create(c, t, prio) \/ thd_create_static(c, t, prio)
             \/ os_thread_set_priority(c, t, prio)
             \/ os_thread_delete(c, t) \/ thd_delete_static(c, t)
             \/ os_thread_suspend(c, t) \/ os_thread_resume(c, t)
      PROVE  p_current' = p_current
  BY <1>5 DEF os_thread_create, thd_create_static, thd_create, os_thread_set_priority,
     os_thread_delete, thd_delete_static, thd_delete, os_thread_suspend,
     os_thread_resume, schVars
<1>6. CASE CallNext
  <2>1. ASSUME NEW c \in Context, os_thread_yield(c) PROVE p_current' = p_current
    BY <2>1 DEF os_thread_yield
  <2>2. ASSUME NEW n \in Timeouts, os_thread_delay(n) PROVE p_current' = p_current
    BY <2>2 DEF os_thread_delay, thd_block_current
  <2>3. 0 \in Prio
    BY SchedulerAssumption DEF Prio
  <2>. QED
    BY <1>4, <1>5, <1>6, <2>1, <2>2, <2>3 DEF CallNext
<1>7. CASE HeartbeatNext \/ contextsw_req \/ unload_return
  BY <1>4, <1>7 DEF HeartbeatNext, heartbeat_tick, heartbeat_evict, heartbeat_done,
     contextsw_req, unload_return, schVars
<1>. QED
  BY <1>2, <1>3, <1>6, <1>7 DEF Next, SwitchNext
=============================================================================
