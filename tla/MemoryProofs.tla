----------------------------- MODULE MemoryProofs -----------------------------
(***************************************************************************)
(* The memory pool: every operation keeps the lists linked, the free       *)
(* blocks in order, and the pool tiled by its blocks.  ListAt says what a  *)
(* list is by the sequence of its items, Whole what holds between two      *)
(* operations, and MemInv what holds between two calls.                    *)
(***************************************************************************)
EXTENDS Memory, QueueLemmas, FiniteSetTheorems

HeapType ==
    [prev : [Addr -> Addr], next : [Addr -> Addr], size : [Addr -> 0 .. PoolSize],
     p_mlst : [Addr -> Mlst \cup {NULL}],
     head : Addr \cup {NULL}, alloc_head : Addr \cup {NULL},
     mlst : [Mlst -> Addr \cup {NULL}]]

-----------------------------------------------------------------------------
(* Circles *)

\* The items of s are linked in this order, and the last one to the first one.
Chain(h, s) ==
    \A i \in 1 .. Len(s) :
       /\ h.next[s[i]] = s[IF i = Len(s) THEN 1 ELSE i + 1]
       /\ h.prev[s[i]] = s[IF i = 1 THEN Len(s) ELSE i - 1]

\* s is what the head pointer b points to.
ListAt(h, b, s) ==
    /\ Queue(s, Addr)
    /\ Chain(h, s)
    /\ b = IF s = <<>> THEN NULL ELSE s[1]

Relinked(h, nx, pv) == [h EXCEPT !.next = nx, !.prev = pv]

LEMMA RelinkedType ==
    ASSUME NEW h \in HeapType, NEW nx \in [Addr -> Addr], NEW pv \in [Addr -> Addr]
    PROVE  /\ Relinked(h, nx, pv) \in HeapType
           /\ Relinked(h, nx, pv).next = nx
           /\ Relinked(h, nx, pv).prev = pv
           /\ Relinked(h, nx, pv).size = h.size
           /\ Relinked(h, nx, pv).p_mlst = h.p_mlst
           /\ Relinked(h, nx, pv).head = h.head
           /\ Relinked(h, nx, pv).alloc_head = h.alloc_head
           /\ Relinked(h, nx, pv).mlst = h.mlst
BY DEF HeapType, Relinked

\* g differs from h in the links of items of S only.
OnlyAt(h, g, S) ==
    \E nx, pv \in [Addr -> Addr] :
       /\ g = Relinked(h, nx, pv)
       /\ \A x \in Addr \ S : nx[x] = h.next[x] /\ pv[x] = h.prev[x]

LEMMA PrependIs ==
    ASSUME NEW h \in HeapType, NEW b \in Addr, NEW pos \in Addr,
           b # pos, h.prev[pos] # b
    PROVE  lstitem_prepend(h, b, pos) =
              Relinked(h, [h.next EXCEPT ![b] = pos, ![h.prev[pos]] = b],
                          [h.prev EXCEPT ![b] = h.prev[pos], ![pos] = b])
BY DEF HeapType, Relinked, lstitem_prepend

LEMMA RemoveIs ==
    ASSUME NEW h \in HeapType, NEW b \in Addr, h.next[b] # b, h.prev[b] # b
    PROVE  lstitem_remove(h, b) =
              Relinked(h, [h.next EXCEPT ![h.prev[b]] = h.next[b], ![b] = b],
                          [h.prev EXCEPT ![h.next[b]] = h.prev[b], ![b] = b])
BY DEF HeapType, Relinked, lstitem_remove

LEMMA ChainKept ==
    ASSUME NEW s, Queue(s, Addr), NEW h, NEW g, Chain(h, s),
           \A x \in Range(s) : g.next[x] = h.next[x] /\ g.prev[x] = h.prev[x]
    PROVE  Chain(g, s)
<1>1. \A i \in 1 .. Len(s) : s[i] \in Range(s)
  BY DEF Queue, Range
<1>. QED
  BY <1>1 DEF Chain

\* An item in front of the k-th one.
LEMMA ChainInsert ==
    ASSUME NEW s, Queue(s, Addr), NEW h \in HeapType, Chain(h, s),
           NEW k \in 1 .. Len(s), NEW b \in Addr \ Range(s)
    PROVE  /\ Chain(lstitem_prepend(h, b, s[k]), InsertAt(s, k, b))
           /\ k = 1 => Chain(lstitem_prepend(h, b, s[k]), Append(s, b))
           /\ OnlyAt(h, lstitem_prepend(h, b, s[k]), Range(s) \cup {b})
<1>. DEFINE n == Len(s)
<1>0. PICK p \in 1 .. n : p = IF k = 1 THEN n ELSE k - 1
  BY DEF Queue
<1>. DEFINE nx == [h.next EXCEPT ![b] = s[k], ![s[p]] = b]
            pv == [h.prev EXCEPT ![b] = s[p], ![s[k]] = b]
            g == Relinked(h, nx, pv)
<1>1. /\ s \in Seq(Addr) /\ n \in Nat
      /\ \A i \in 1 .. n : s[i] \in Range(s) /\ s[i] \in Addr /\ s[i] # b
      /\ \A i, j \in 1 .. n : s[i] = s[j] => i = j
      /\ h.prev[s[k]] = s[p]
  BY <1>0 DEF Queue, Range, IsInjective, Chain
<1>2. nx \in [Addr -> Addr] /\ pv \in [Addr -> Addr]
  BY <1>1 DEF HeapType
<1>3. lstitem_prepend(h, b, s[k]) = g
  BY <1>1, PrependIs
<1>4. g.next = nx /\ g.prev = pv
  BY <1>2, RelinkedType
<1>5. /\ \A i \in 1 .. n : /\ nx[s[i]] = IF i = p THEN b ELSE s[IF i = n THEN 1 ELSE i + 1]
                           /\ pv[s[i]] = IF i = k THEN b ELSE s[IF i = 1 THEN n ELSE i - 1]
      /\ nx[b] = s[k] /\ pv[b] = s[p]
  BY <1>1 DEF HeapType, Chain
<1>. HIDE DEF nx, pv, g
<1>6. Chain(g, InsertAt(s, k, b))
  <2>. DEFINE r == InsertAt(s, k, b)
  <2>1. /\ Len(r) = n + 1
        /\ \A i \in 1 .. (n + 1) : r[i] = IF i < k THEN s[i] ELSE IF i = k THEN b ELSE s[i - 1]
    BY InsertQueue
  <2>. HIDE DEF r
  <2>2. ASSUME NEW i \in 1 .. (n + 1)
        PROVE  nx[r[i]] = r[IF i = n + 1 THEN 1 ELSE i + 1]
    <3>1. CASE i < k
      <4>1. i \in 1 .. n /\ i # n /\ i + 1 \in 1 .. (n + 1) /\ p = k - 1 /\ k # 1
        BY <1>0, <1>1, <3>1
      <4>2. r[i] = s[i] /\ r[i + 1] = IF i = p THEN b ELSE s[i + 1]
        BY <2>1, <3>1, <4>1
      <4>. QED
        BY <1>5, <4>1, <4>2
    <3>2. CASE i = k
      BY <1>0, <1>1, <1>5, <2>1, <3>2
    <3>3. CASE i > k
      <4>1. i - 1 \in 1 .. n /\ r[i] = s[i - 1]
        BY <1>1, <2>1, <3>3
      <4>2. CASE i = n + 1
        <5>1. r[1] = IF k = 1 THEN b ELSE s[1]
          BY <1>1, <2>1
        <5>. QED
          BY <1>0, <1>1, <1>5, <4>1, <4>2, <5>1
      <4>3. CASE i # n + 1
        <5>1. i + 1 \in 1 .. (n + 1) /\ i - 1 # p /\ i - 1 # n
          BY <1>0, <1>1, <3>3, <4>3
        <5>2. (i + 1) - 1 = i /\ (i - 1) + 1 = i /\ ~(i + 1 < k) /\ i + 1 # k
          BY <3>3
        <5>3. r[i + 1] = s[i]
          BY <2>1, <5>1, <5>2
        <5>. QED
          BY <1>1, <1>5, <4>1, <4>3, <5>1, <5>2, <5>3
      <4>. QED
        BY <4>2, <4>3
    <3>. QED
      BY <3>1, <3>2, <3>3
  <2>3. ASSUME NEW i \in 1 .. (n + 1)
        PROVE  pv[r[i]] = r[IF i = 1 THEN n + 1 ELSE i - 1]
    <3>1. CASE i < k
      <4>1. i \in 1 .. n /\ i # k /\ r[i] = s[i] /\ r[n + 1] = s[n]
        BY <1>1, <2>1, <3>1
      <4>2. i # 1 => i - 1 \in 1 .. (n + 1) /\ r[i - 1] = s[i - 1]
        BY <1>1, <2>1, <3>1
      <4>. QED
        BY <1>5, <4>1, <4>2
    <3>2. CASE i = k
      BY <1>0, <1>1, <1>5, <2>1, <3>2
    <3>3. CASE i > k
      BY <1>0, <1>1, <1>5, <2>1, <3>3
    <3>. QED
      BY <3>1, <3>2, <3>3
  <2>. QED
    BY <1>4, <2>1, <2>2, <2>3 DEF Chain, r
<1>7. k = 1 => Chain(g, Append(s, b))
  <2>. HAVE k = 1
  <2>. DEFINE r == Append(s, b)
  <2>1. Len(r) = n + 1 /\ \A i \in 1 .. (n + 1) : r[i] = IF i = n + 1 THEN b ELSE s[i]
    BY <1>1
  <2>. HIDE DEF r
  <2>2. p = n
    BY <1>0
  <2>3. ASSUME NEW i \in 1 .. (n + 1)
        PROVE  nx[r[i]] = r[IF i = n + 1 THEN 1 ELSE i + 1]
    BY <1>1, <1>5, <2>1, <2>2
  <2>4. ASSUME NEW i \in 1 .. (n + 1)
        PROVE  pv[r[i]] = r[IF i = 1 THEN n + 1 ELSE i - 1]
    BY <1>1, <1>5, <2>1, <2>2
  <2>. QED
    BY <1>4, <2>1, <2>3, <2>4 DEF Chain, r
<1>8. \A x \in Addr \ (Range(s) \cup {b}) : nx[x] = h.next[x] /\ pv[x] = h.prev[x]
  <2>. SUFFICES ASSUME NEW x \in Addr, x \notin Range(s), x # b
                PROVE  nx[x] = h.next[x] /\ pv[x] = h.prev[x]
    OBVIOUS
  <2>1. x # s[k] /\ x # s[p] /\ x # b
    BY <1>1
  <2>. QED
    BY <2>1 DEF HeapType, nx, pv
<1>. QED
  <2>1. OnlyAt(h, g, Range(s) \cup {b})
    BY <1>2, <1>8 DEF g, OnlyAt
  <2>. QED
    BY <1>3, <1>6, <1>7, <2>1

\* A circle of one item is the one whose item points to itself.
LEMMA ChainSingle ==
    ASSUME NEW s, Queue(s, Addr), NEW h, Chain(h, s), NEW k \in 1 .. Len(s)
    PROVE  h.next[s[k]] = s[k] <=> Len(s) = 1
<1>1. /\ Len(s) \in Nat /\ DOMAIN s = 1 .. Len(s)
      /\ \A i, j \in 1 .. Len(s) : s[i] = s[j] => i = j
  BY DEF Queue, IsInjective
<1>2. h.next[s[k]] = s[IF k = Len(s) THEN 1 ELSE k + 1]
  BY DEF Chain
<1>3. CASE k = Len(s)
  BY <1>1, <1>2, <1>3
<1>4. CASE k # Len(s)
  <2>0. Len(s) \in Nat
    BY <1>1
  <2>1. k + 1 \in 1 .. Len(s) /\ k + 1 # k /\ Len(s) # 1
    BY <1>4, <2>0
  <2>. QED
    BY <1>1, <1>2, <1>4, <2>1
<1>. QED
  BY <1>3, <1>4

\* The k-th item leaves a circle that has others.
LEMMA ChainRemove ==
    ASSUME NEW s, Queue(s, Addr), NEW h \in HeapType, Chain(h, s),
           NEW k \in 1 .. Len(s), Len(s) # 1
    PROVE  /\ Chain(lstitem_remove(h, s[k]), RemoveAt(s, k))
           /\ OnlyAt(h, lstitem_remove(h, s[k]), Range(s))
           /\ lstitem_remove(h, s[k]).next[s[k]] = s[k]
           /\ lstitem_remove(h, s[k]).prev[s[k]] = s[k]
<1>. DEFINE n == Len(s)
<1>0. /\ s \in Seq(Addr) /\ n \in Nat /\ n > 1
      /\ \A i \in 1 .. n : s[i] \in Range(s) /\ s[i] \in Addr
      /\ \A i, j \in 1 .. n : s[i] = s[j] => i = j
  <2>1. s \in Seq(Addr) /\ n \in Nat /\ DOMAIN s = 1 .. n
    BY DEF Queue
  <2>2. n > 1
    BY <2>1
  <2>. QED
    BY <2>1, <2>2 DEF Queue, Range, IsInjective
<1>1. PICK p \in 1 .. n : p = IF k = 1 THEN n ELSE k - 1
  BY <1>0
<1>2. PICK q \in 1 .. n : q = IF k = n THEN 1 ELSE k + 1
  BY <1>0
<1>3. p # k /\ q # k /\ h.next[s[k]] = s[q] /\ h.prev[s[k]] = s[p]
  BY <1>0, <1>1, <1>2 DEF Chain
<1>. DEFINE nx == [h.next EXCEPT ![s[p]] = s[q], ![s[k]] = s[k]]
            pv == [h.prev EXCEPT ![s[q]] = s[p], ![s[k]] = s[k]]
            g == Relinked(h, nx, pv)
<1>4. nx \in [Addr -> Addr] /\ pv \in [Addr -> Addr]
  BY <1>0 DEF HeapType
<1>5. lstitem_remove(h, s[k]) = g
  <2>1. s[k] \in Addr /\ h.next[s[k]] # s[k] /\ h.prev[s[k]] # s[k]
    BY <1>0, <1>3
  <2>. QED
    BY <1>3, <2>1, RemoveIs
<1>6. g.next = nx /\ g.prev = pv
  BY <1>4, RelinkedType
<1>7. \A i \in 1 .. n : i # k =>
         /\ nx[s[i]] = IF i = p THEN s[q] ELSE s[IF i = n THEN 1 ELSE i + 1]
         /\ pv[s[i]] = IF i = q THEN s[p] ELSE s[IF i = 1 THEN n ELSE i - 1]
  BY <1>0, <1>3 DEF HeapType, Chain
<1>8. nx[s[k]] = s[k] /\ pv[s[k]] = s[k]
  BY <1>0 DEF HeapType
<1>9. \A x \in Addr \ Range(s) : nx[x] = h.next[x] /\ pv[x] = h.prev[x]
  <2>. SUFFICES ASSUME NEW x \in Addr, x \notin Range(s)
                PROVE  nx[x] = h.next[x] /\ pv[x] = h.prev[x]
    OBVIOUS
  <2>1. x # s[k] /\ x # s[p] /\ x # s[q]
    BY <1>0
  <2>. QED
    BY <2>1 DEF HeapType
<1>. HIDE DEF nx, pv, g
<1>10. Chain(g, RemoveAt(s, k))
  <2>. DEFINE r == RemoveAt(s, k)
  <2>1. /\ Len(r) = n - 1
        /\ \A i \in 1 .. (n - 1) : r[i] = IF i < k THEN s[i] ELSE s[i + 1]
    BY RemoveAtQueue
  <2>. HIDE DEF r
  <2>2. r[1] = (IF k = 1 THEN s[2] ELSE s[1]) /\ r[n - 1] = (IF k = n THEN s[n - 1] ELSE s[n])
    <3>1. 1 \in 1 .. (n - 1) /\ n - 1 \in 1 .. (n - 1) /\ 1 + 1 = 2 /\ (n - 1) + 1 = n
      BY <1>0
    <3>2. (1 < k <=> k # 1) /\ (n - 1 < k <=> k = n)
      BY <1>0
    <3>. QED
      BY <2>1, <3>1, <3>2
  <2>3. ASSUME NEW i \in 1 .. (n - 1)
        PROVE  nx[r[i]] = r[IF i = n - 1 THEN 1 ELSE i + 1]
    <3>1. CASE i < k
      <4>1. i \in 1 .. n /\ i # n /\ r[i] = s[i] /\ i # k
        BY <1>0, <2>1, <3>1
      <4>2. nx[r[i]] = IF i = p THEN s[q] ELSE s[i + 1]
        BY <1>7, <4>1
      <4>3. CASE i = p
        <5>1. i + 1 = k
          BY <1>0, <1>1, <3>1, <4>3
        <5>2. i # n - 1 => r[i + 1] = s[q]
          BY <1>0, <1>2, <2>1, <5>1
        <5>3. i = n - 1 => r[1] = s[q]
          BY <1>0, <1>2, <2>2, <5>1
        <5>. QED
          BY <4>2, <4>3, <5>2, <5>3
      <4>4. CASE i # p
        <5>1. i + 1 < k /\ i # n - 1 /\ i + 1 \in 1 .. (n - 1)
          BY <1>0, <1>1, <3>1, <4>4
        <5>. QED
          BY <2>1, <4>2, <4>4, <5>1
      <4>. QED
        BY <4>3, <4>4
    <3>2. CASE ~(i < k)
      <4>1. i + 1 \in 1 .. n /\ r[i] = s[i + 1] /\ i + 1 # k /\ (i + 1 = n <=> i = n - 1)
        BY <1>0, <2>1, <3>2
      <4>2. nx[r[i]] = IF i + 1 = p THEN s[q] ELSE s[IF i = n - 1 THEN 1 ELSE (i + 1) + 1]
        BY <1>7, <4>1
      <4>3. CASE i = n - 1
        <5>1. (i + 1 = p <=> k = 1) /\ (k = 1 => q = 2)
          BY <1>0, <1>1, <1>2, <3>2, <4>3
        <5>. QED
          BY <2>2, <4>2, <4>3, <5>1
      <4>4. CASE i # n - 1
        <5>1. i + 1 # p /\ i + 1 \in 1 .. (n - 1) /\ ~(i + 1 < k)
          BY <1>0, <1>1, <3>2, <4>4
        <5>. QED
          BY <2>1, <4>2, <4>4, <5>1
      <4>. QED
        BY <4>3, <4>4
    <3>. QED
      BY <3>1, <3>2
  <2>4. ASSUME NEW i \in 1 .. (n - 1)
        PROVE  pv[r[i]] = r[IF i = 1 THEN n - 1 ELSE i - 1]
    <3>1. CASE i < k
      <4>1. i \in 1 .. n /\ r[i] = s[i] /\ i # k
        BY <1>0, <2>1, <3>1
      <4>2. pv[r[i]] = IF i = q THEN s[p] ELSE s[IF i = 1 THEN n ELSE i - 1]
        BY <1>7, <4>1
      <4>3. CASE i = 1
        <5>1. (i = q <=> k = n) /\ (k = n => p = n - 1)
          BY <1>0, <1>1, <1>2, <3>1, <4>3
        <5>. QED
          BY <2>2, <4>2, <4>3, <5>1
      <4>4. CASE i # 1
        <5>1. i # q /\ i - 1 \in 1 .. (n - 1) /\ i - 1 < k
          BY <1>0, <1>2, <3>1, <4>4
        <5>. QED
          BY <2>1, <4>2, <4>4, <5>1
      <4>. QED
        BY <4>3, <4>4
    <3>2. CASE ~(i < k)
      <4>1. i + 1 \in 1 .. n /\ r[i] = s[i + 1] /\ i + 1 # k /\ i + 1 # 1 /\ (i + 1) - 1 = i
        BY <1>0, <2>1, <3>2
      <4>2. pv[r[i]] = IF i + 1 = q THEN s[p] ELSE s[i]
        BY <1>7, <4>1
      <4>3. CASE i = k
        <5>1. i + 1 = q
          BY <1>0, <1>2, <4>1, <4>3
        <5>2. i = 1 => r[n - 1] = s[p]
          BY <1>0, <1>1, <2>2, <4>3
        <5>3. i # 1 => r[i - 1] = s[p]
          BY <1>0, <1>1, <2>1, <4>3
        <5>. QED
          BY <4>2, <5>1, <5>2, <5>3
      <4>4. CASE i # k
        <5>1. i + 1 # q /\ i # 1 /\ i - 1 \in 1 .. (n - 1) /\ ~(i - 1 < k) /\ (i - 1) + 1 = i
          BY <1>0, <1>2, <3>2, <4>4
        <5>. QED
          BY <2>1, <4>2, <4>4, <5>1
      <4>. QED
        BY <4>3, <4>4
    <3>. QED
      BY <3>1, <3>2
  <2>. QED
    BY <1>6, <2>1, <2>3, <2>4 DEF Chain, r
<1>. QED
  <2>1. OnlyAt(h, g, Range(s))
    BY <1>4, <1>9 DEF g, OnlyAt
  <2>. QED
    BY <1>5, <1>6, <1>8, <1>10, <2>1

-----------------------------------------------------------------------------
(* What a loop over p_next sees *)

LEMMA AddrFinite == IsFiniteSet(Addr) /\ Cardinality(Addr) \in Nat
<1>1. Addr \subseteq 0 .. (PoolSize - 1)
  BY DEF Addr
<1>2. IsFiniteSet(0 .. (PoolSize - 1))
  BY FS_Interval, MemoryAssumption
<1>. QED
  BY <1>1, <1>2, FS_Subset, FS_CardinalityType

LEMMA QueueLength ==
    ASSUME NEW s, Queue(s, Addr)
    PROVE  Len(s) \in 0 .. Cardinality(Addr)
<1>1. s \in Seq(Addr) /\ Len(s) \in Nat /\ DOMAIN s = 1 .. Len(s)
  BY DEF Queue
<1>2. s \in [1 .. Len(s) -> Addr]
  BY <1>1
<1>3. s \in Injection(1 .. Len(s), Addr)
  BY <1>1, <1>2 DEF Queue, IsInjective, Injection
<1>4. Cardinality(1 .. Len(s)) = Len(s)
  BY <1>1, FS_Interval
<1>5. Cardinality(1 .. Len(s)) <= Cardinality(Addr)
  BY <1>3, AddrFinite, FS_Injection
<1>. QED
  BY <1>1, <1>4, <1>5, AddrFinite

\* k steps behind the first item.
LEMMA FollowChain ==
    ASSUME NEW s, Queue(s, Addr), NEW h, Chain(h, s), s # <<>>, NEW k \in 0 .. Len(s)
    PROVE  Follow(h, s[1], k) = s[IF k = Len(s) THEN 1 ELSE k + 1]
<1>1. Len(s) \in Nat /\ Len(s) # 0
  BY EmptySeq DEF Queue
<1>. DEFINE Steps(f) == f = [j \in 0 .. k |-> IF j = 0 THEN s[1] ELSE h.next[f[j - 1]]]
            w == [j \in 0 .. k |-> s[IF j = Len(s) THEN 1 ELSE j + 1]]
<1>2. Steps(w)
  <2>1. ASSUME NEW j \in 0 .. k, j # 0
        PROVE  w[j] = h.next[w[j - 1]]
    <3>1. j - 1 \in 0 .. k /\ j \in 1 .. Len(s) /\ j - 1 # Len(s) /\ (j - 1) + 1 = j
      BY <1>1, <2>1
    <3>2. w[j - 1] = s[j] /\ w[j] = s[IF j = Len(s) THEN 1 ELSE j + 1]
      BY <3>1
    <3>. QED
      BY <3>1, <3>2 DEF Chain
  <2>2. w[0] = s[1]
    BY <1>1
  <2>3. \A j \in 0 .. k : w[j] = IF j = 0 THEN s[1] ELSE h.next[w[j - 1]]
    BY <2>1, <2>2
  <2>. QED
    BY <2>3
<1>3. ASSUME NEW f, Steps(f) PROVE f[k] = w[k]
  <2>. DEFINE T == {j \in 0 .. k : f[j] # w[j]}
  <2>. SUFFICES ASSUME T # {} PROVE FALSE
    OBVIOUS
  <2>0. T \in SUBSET Nat
    OBVIOUS
  <2>1. PICK m \in T : \A j \in T : m <= j
    <3>. HIDE DEF T
    <3>. QED
      BY <2>0, LeastNat
  <2>2. m # 0
    <3>1. 0 \in 0 .. k
      OBVIOUS
    <3>2. f[0] = s[1] /\ w[0] = s[1]
      BY <1>2, <1>3, <3>1
    <3>. QED
      BY <3>2
  <2>3. m \in 0 .. k /\ m - 1 \in 0 .. k /\ ~(m <= m - 1)
    BY <2>2
  <2>4. f[m - 1] = w[m - 1]
    BY <2>1, <2>3
  <2>5. f[m] = h.next[f[m - 1]] /\ w[m] = h.next[w[m - 1]]
    BY <1>2, <1>3, <2>2, <2>3
  <2>. QED
    BY <2>4, <2>5
<1>. HIDE DEF w
<1>4. Steps(CHOOSE f : Steps(f))
  BY <1>2, Zenon
<1>5. Follow(h, s[1], k) = (CHOOSE f : Steps(f))[k]
  BY Zenon DEF Follow
<1>6. Follow(h, s[1], k) = w[k]
  BY <1>3, <1>4, <1>5
<1>. QED
  BY <1>6 DEF w

\* The loop over p_next visits the items of a circle in their order, each once.
LEMMA ItemsOf ==
    ASSUME NEW s, NEW h, NEW b, ListAt(h, b, s), s # <<>>
    PROVE  /\ IsCircle(h, b, Cardinality(Addr))
           /\ Items(h, b, Cardinality(Addr)) = s
           /\ Linked(h, b, Cardinality(Addr))
<1>. DEFINE N == Cardinality(Addr)
            n == Len(s)
            Back(m) == /\ Follow(h, b, m) = b
                       /\ \A j \in 1 .. (m - 1) : Follow(h, b, j) # b
<1>1. /\ b = s[1] /\ Queue(s, Addr) /\ Chain(h, s)
      /\ N \in Nat /\ n \in Nat /\ n # 0 /\ n <= N
      /\ \A i, j \in 1 .. n : s[i] = s[j] => i = j
  BY EmptySeq, AddrFinite, QueueLength DEF ListAt, Queue, IsInjective
<1>0. s \in Seq(Addr) /\ DOMAIN s = 1 .. n
  BY DEF ListAt, Queue
<1>2. \A k \in 0 .. n : Follow(h, b, k) = s[IF k = n THEN 1 ELSE k + 1]
  BY <1>1, FollowChain
<1>3. Follow(h, b, n) = b
  BY <1>1, <1>2
<1>4. \A k \in 1 .. (n - 1) : Follow(h, b, k) # b
  BY <1>1, <1>2
<1>5. \A m \in 1 .. N : Back(m) => m = n
  BY <1>1, <1>3, <1>4
<1>6. n \in 1 .. N /\ Back(n)
  BY <1>1, <1>3, <1>4
<1>7. (CHOOSE m \in 1 .. N : Back(m)) = n
  BY <1>5, <1>6
<1>8. IsCircle(h, b, N)
  BY <1>6 DEF IsCircle
<1>9. Items(h, b, N) = [k \in 1 .. n |-> Follow(h, b, k - 1)]
  BY <1>7 DEF Items
<1>10. \A k \in 1 .. n : Follow(h, b, k - 1) = s[k]
  BY <1>1, <1>2
<1>11. s = [k \in 1 .. n |-> s[k]]
  BY <1>0
<1>12. Items(h, b, N) = s
  BY <1>9, <1>10, <1>11
<1>13. ASSUME NEW i \in 1 .. n
       PROVE  h.prev[h.next[s[i]]] = s[i] /\ h.next[h.prev[s[i]]] = s[i]
  <2>1. PICK j \in 1 .. n : j = IF i = n THEN 1 ELSE i + 1
    BY <1>1
  <2>2. PICK p \in 1 .. n : p = IF i = 1 THEN n ELSE i - 1
    BY <1>1
  <2>3. /\ h.next[s[i]] = s[j] /\ h.prev[s[i]] = s[p]
        /\ h.prev[s[j]] = s[IF j = 1 THEN n ELSE j - 1]
        /\ h.next[s[p]] = s[IF p = n THEN 1 ELSE p + 1]
    BY <1>1, <2>1, <2>2 DEF Chain
  <2>4. i = (IF j = 1 THEN n ELSE j - 1) /\ i = (IF p = n THEN 1 ELSE p + 1)
    BY <1>1, <2>1, <2>2
  <2>. QED
    BY <2>3, <2>4
<1>14. Linked(h, b, N)
  BY <1>0, <1>8, <1>12, <1>13 DEF Linked, Range
<1>. QED
  BY <1>8, <1>12, <1>14

\* The same circle, from its k-th item on.
LEMMA Rotated ==
    ASSUME NEW s, Queue(s, Addr), NEW h, Chain(h, s), NEW k \in 1 .. Len(s)
    PROVE  \E r : ListAt(h, s[k], r) /\ r # <<>> /\ Range(r) = Range(s)
<1>. DEFINE n == Len(s)
            at(i) == IF i + k - 1 <= n THEN i + k - 1 ELSE i + k - 1 - n
            r == [i \in 1 .. n |-> s[at(i)]]
<1>1. n \in Nat /\ n # 0
  BY DEF Queue
<1>2. \A i \in 1 .. n : s[i] \in Addr /\ \A j \in 1 .. n : s[i] = s[j] => i = j
  BY DEF Queue, IsInjective
<1>3. \A i \in 1 .. n : at(i) \in 1 .. n
  BY <1>1
<1>4. \A i, j \in 1 .. n : at(i) = at(j) => i = j
  BY <1>1
<1>5. \A i \in 1 .. n : \E j \in 1 .. n : at(j) = i
  <2>. TAKE i \in 1 .. n
  <2>1. CASE i >= k
    <3>1. i - k + 1 \in 1 .. n /\ at(i - k + 1) = i
      BY <1>1, <2>1
    <3>. QED
      BY <3>1
  <2>2. CASE i < k
    <3>1. i - k + 1 + n \in 1 .. n /\ at(i - k + 1 + n) = i
      BY <1>1, <2>2
    <3>. QED
      BY <3>1
  <2>. QED
    BY <2>1, <2>2
<1>6. /\ \A i \in 1 .. n : at(IF i = n THEN 1 ELSE i + 1) = IF at(i) = n THEN 1 ELSE at(i) + 1
      /\ \A i \in 1 .. n : at(IF i = 1 THEN n ELSE i - 1) = IF at(i) = 1 THEN n ELSE at(i) - 1
      /\ at(1) = k
  BY <1>1
<1>. HIDE DEF at
<1>7. r \in Seq(Addr) /\ Len(r) = n /\ DOMAIN r = 1 .. n /\ \A i \in 1 .. n : r[i] = s[at(i)]
  BY <1>1, <1>2, <1>3
<1>. HIDE DEF r
<1>8. Queue(r, Addr)
  BY <1>2, <1>3, <1>4, <1>7 DEF Queue, IsInjective
<1>9. DOMAIN s = 1 .. n
  BY DEF Queue
<1>10. Range(r) = Range(s)
  <2>1. ASSUME NEW i \in 1 .. n PROVE s[i] \in Range(r)
    BY <1>5, <1>7 DEF Range
  <2>2. ASSUME NEW i \in 1 .. n PROVE r[i] \in Range(s)
    BY <1>3, <1>7, <1>9 DEF Range
  <2>. QED
    BY <1>7, <1>9, <2>1, <2>2 DEF Range
<1>11. ASSUME NEW i \in 1 .. n
       PROVE  /\ h.next[r[i]] = r[IF i = n THEN 1 ELSE i + 1]
              /\ h.prev[r[i]] = r[IF i = 1 THEN n ELSE i - 1]
  <2>1. (IF i = n THEN 1 ELSE i + 1) \in 1 .. n /\ (IF i = 1 THEN n ELSE i - 1) \in 1 .. n
    BY <1>1
  <2>2. /\ h.next[s[at(i)]] = s[IF at(i) = n THEN 1 ELSE at(i) + 1]
        /\ h.prev[s[at(i)]] = s[IF at(i) = 1 THEN n ELSE at(i) - 1]
    BY <1>3 DEF Chain
  <2>. QED
    BY <1>6, <1>7, <2>1, <2>2
<1>12. Chain(h, r)
  BY <1>7, <1>11 DEF Chain
<1>13. r[1] = s[k] /\ r # <<>>
  <2>1. 1 \in 1 .. n
    BY <1>1
  <2>. QED
    BY <1>1, <1>6, <1>7, <2>1
<1>. QED
  BY <1>8, <1>10, <1>12, <1>13 DEF ListAt

-----------------------------------------------------------------------------
(* The lists of a heap *)

Increasing(s) == \A i, j \in 1 .. Len(s) : i < j => s[i] < s[j]

InList(h, l) == {b \in Addr : h.p_mlst[b] = l}

PoolLinked(h, F) == \E s : ListAt(h, h.head, s) /\ Range(s) = F /\ Increasing(s)

MlstsLinked(h) == \A l \in Mlst : \E s : ListAt(h, h.mlst[l], s) /\ Range(s) = InList(h, l)

\* The blocks F are in the pool, and those in D are in no list for the moment.
Links(h, F, D) ==
    /\ h \in HeapType
    /\ PoolLinked(h, F)
    /\ MlstsLinked(h)
    /\ h.alloc_head \in IF F = {} THEN {NULL} ELSE F
    /\ F \cap D = {} /\ D \subseteq Addr
    /\ \A b \in F \cup D : h.p_mlst[b] = NULL
    /\ \A b \in D : h.next[b] = b /\ h.prev[b] = b

\* Lists do not notice what is done to the links of other items.
LEMMA MlstsKept ==
    ASSUME NEW h, NEW g, MlstsLinked(h), g.mlst = h.mlst, g.p_mlst = h.p_mlst,
           \A x \in Addr : h.p_mlst[x] # NULL => g.next[x] = h.next[x] /\ g.prev[x] = h.prev[x]
    PROVE  MlstsLinked(g)
<1>. SUFFICES ASSUME NEW l \in Mlst
              PROVE  \E s : ListAt(g, g.mlst[l], s) /\ Range(s) = InList(g, l)
  BY DEF MlstsLinked
<1>1. PICK s : ListAt(h, h.mlst[l], s) /\ Range(s) = InList(h, l)
  BY DEF MlstsLinked
<1>2. Chain(g, s)
  BY <1>1, ChainKept, MemoryNamesAssumption DEF ListAt, InList
<1>. QED
  BY <1>1, <1>2 DEF ListAt, InList

-----------------------------------------------------------------------------
(* The order of the pool *)

LEMMA AddrNat == MemoryAssumption => Addr \in SUBSET Nat
BY DEF Addr, MemoryAssumption

\* An item between those that are smaller and those that are larger.
LEMMA SortedBetween ==
    ASSUME NEW s, Queue(s, Addr), Increasing(s), NEW b \in Addr \ Range(s),
           NEW k \in 1 .. Len(s), b < s[k], \A i \in 1 .. (k - 1) : s[i] < b
    PROVE  Increasing(InsertAt(s, k, b))
<1>. DEFINE n == Len(s)
            r == InsertAt(s, k, b)
<1>1. /\ n \in Nat /\ b \in Nat
      /\ \A i \in 1 .. n : s[i] \in Nat
      /\ \A i \in 1 .. n, j \in 1 .. n : i < j => s[i] < s[j]
  BY AddrNat, MemoryAssumption DEF Queue, Increasing
<1>2. /\ Len(r) = n + 1
      /\ \A i \in 1 .. (n + 1) : r[i] = IF i < k THEN s[i] ELSE IF i = k THEN b ELSE s[i - 1]
  BY InsertQueue
<1>. HIDE DEF r
<1>3. \A i \in k .. n : b < s[i]
  <2>. TAKE i \in k .. n
  <2>1. i \in 1 .. n /\ (i = k \/ k < i)
    OBVIOUS
  <2>2. i = k \/ s[k] < s[i]
    BY <1>1, <2>1
  <2>. QED
    BY <1>1, <2>1, <2>2
<1>4. ASSUME NEW i \in 1 .. (n + 1), NEW j \in 1 .. (n + 1), i < j
      PROVE  r[i] < r[j]
  <2>1. CASE j < k
    <3>1. i \in 1 .. n /\ j \in 1 .. n /\ i < k
      BY <1>1, <1>4, <2>1
    <3>. QED
      BY <1>1, <1>2, <1>4, <2>1, <3>1
  <2>2. CASE j = k
    <3>1. i \in 1 .. (k - 1) /\ i < k
      BY <1>1, <1>4, <2>2
    <3>. QED
      BY <1>2, <2>2, <3>1
  <2>3. CASE k < j
    <3>1. j - 1 \in k .. n /\ j - 1 \in 1 .. n /\ r[j] = s[j - 1]
      BY <1>1, <1>2, <2>3
    <3>2. CASE i < k
      <4>1. i \in 1 .. n /\ i < j - 1 /\ r[i] = s[i]
        BY <1>1, <1>2, <2>3, <3>2
      <4>. QED
        BY <1>1, <3>1, <4>1
    <3>3. CASE i = k
      BY <1>2, <1>3, <3>1, <3>3
    <3>4. CASE k < i
      <4>1. i - 1 \in 1 .. n /\ i - 1 < j - 1 /\ r[i] = s[i - 1]
        BY <1>1, <1>2, <1>4, <3>4
      <4>. QED
        BY <1>1, <3>1, <4>1
    <3>. QED
      BY <3>2, <3>3, <3>4
  <2>. QED
    BY <2>1, <2>2, <2>3
<1>. QED
  BY <1>2, <1>4 DEF Increasing, r

LEMMA SortedBehind ==
    ASSUME NEW s, Queue(s, Addr), Increasing(s), NEW b \in Addr,
           s # <<>>, s[Len(s)] < b
    PROVE  Increasing(Append(s, b))
<1>. DEFINE n == Len(s)
            r == Append(s, b)
<1>1. /\ n \in Nat /\ n # 0 /\ b \in Nat /\ s \in Seq(Addr)
      /\ \A i \in 1 .. n : s[i] \in Nat
      /\ \A i \in 1 .. n, j \in 1 .. n : i < j => s[i] < s[j]
  BY AddrNat, EmptySeq, MemoryAssumption DEF Queue, Increasing
<1>2. Len(r) = n + 1 /\ \A i \in 1 .. (n + 1) : r[i] = IF i = n + 1 THEN b ELSE s[i]
  BY <1>1
<1>. HIDE DEF r
<1>3. \A i \in 1 .. n : s[i] < b
  <2>. TAKE i \in 1 .. n
  <2>1. n \in 1 .. n /\ (i = n \/ i < n)
    BY <1>1
  <2>2. i = n \/ s[i] < s[n]
    BY <1>1, <2>1
  <2>. QED
    BY <1>1, <2>1, <2>2
<1>4. ASSUME NEW i \in 1 .. (n + 1), NEW j \in 1 .. (n + 1), i < j
      PROVE  r[i] < r[j]
  <2>1. i \in 1 .. n /\ r[i] = s[i] /\ (j = n + 1 \/ j \in 1 .. n)
    BY <1>1, <1>2, <1>4
  <2>. QED
    BY <1>1, <1>2, <1>3, <1>4, <2>1
<1>. QED
  BY <1>2, <1>4 DEF Increasing, r

LEMMA SortedWithout ==
    ASSUME NEW s, Queue(s, Addr), Increasing(s), NEW k \in 1 .. Len(s)
    PROVE  Increasing(RemoveAt(s, k))
<1>. DEFINE n == Len(s)
            r == RemoveAt(s, k)
<1>1. /\ n \in Nat
      /\ \A i \in 1 .. n, j \in 1 .. n : i < j => s[i] < s[j]
  BY DEF Queue, Increasing
<1>2. /\ Len(r) = n - 1
      /\ \A i \in 1 .. (n - 1) : r[i] = IF i < k THEN s[i] ELSE s[i + 1]
  BY RemoveAtQueue
<1>. HIDE DEF r
<1>. DEFINE at(i) == IF i < k THEN i ELSE i + 1
<1>3. \A i \in 1 .. (n - 1) : at(i) \in 1 .. n /\ r[i] = s[at(i)]
  BY <1>1, <1>2
<1>4. \A i, j \in 1 .. (n - 1) : i < j => at(i) < at(j)
  BY <1>1
<1>. QED
  BY <1>1, <1>2, <1>3, <1>4 DEF Increasing, r

\* The place that mpool_insert looks for.
Place(s, b) == SelectInSeq(s, LAMBDA i : b < i)

LEMMA PlaceFound ==
    ASSUME NEW s, Queue(s, Addr), Increasing(s), NEW b \in Addr \ Range(s),
           s # <<>>, ~(b < s[1]), ~(b > s[Len(s)])
    PROVE  /\ Place(s, b) \in 2 .. Len(s) /\ b < s[Place(s, b)]
           /\ \A i \in 1 .. (Place(s, b) - 1) : s[i] < b
<1>. DEFINE n == Len(s)
            I == {i \in 1 .. n : b < s[i]}
<1>1. /\ n \in Nat /\ n # 0 /\ b \in Nat
      /\ \A i \in 1 .. n : s[i] \in Nat /\ s[i] # b
  BY AddrNat, EmptySeq, MemoryAssumption DEF Queue, Range
<1>2. I \in SUBSET Nat /\ n \in I
  BY <1>1
<1>3. Min(I) \in I /\ \A j \in I : Min(I) <= j
  <2>. HIDE DEF I
  <2>. QED
    BY <1>2, MinProperty
<1>4. Place(s, b) = Min(I)
  BY <1>2 DEF SelectInSeq, Place
<1>5. PICK k \in 1 .. n : k = Min(I) /\ b < s[k] /\ \A j \in I : k <= j
  BY <1>3
<1>6. \A i \in 1 .. (k - 1) : s[i] < b
  <2>. TAKE i \in 1 .. (k - 1)
  <2>1. i \in 1 .. n /\ ~(k <= i)
    BY <1>1
  <2>2. ~(b < s[i])
    BY <1>5, <2>1
  <2>. QED
    BY <1>1, <2>1, <2>2
<1>7. k # 1
  BY <1>5
<1>8. k \in 2 .. n
  BY <1>1, <1>7
<1>9. Place(s, b) = k
  BY <1>4, <1>5
<1>. QED
  BY <1>5, <1>6, <1>8, <1>9

-----------------------------------------------------------------------------
(* Insertions and removals keep the lists *)

\* All that is not about the links of the pool.
SameBlocks(h, g) == g.size = h.size /\ g.p_mlst = h.p_mlst /\ g.mlst = h.mlst

LEMMA QueueHas ==
    ASSUME NEW S, NEW s, Queue(s, S)
    PROVE  /\ Len(s) \in Nat
           /\ \A i \in 1 .. Len(s) : s[i] \in Range(s) /\ s[i] \in S
           /\ \A x \in Range(s) : \E i \in 1 .. Len(s) : s[i] = x
           /\ Range(s) \subseteq S
           /\ s # <<>> <=> Range(s) # {}
           /\ s # <<>> => 1 \in 1 .. Len(s)
<1>1. s \in Seq(S) /\ Len(s) \in Nat /\ DOMAIN s = 1 .. Len(s)
  BY DEF Queue
<1>2. s # <<>> => 1 \in 1 .. Len(s)
  BY <1>1, EmptySeq
<1>3. s = <<>> => Range(s) = {}
  BY DEF Range
<1>4. /\ \A i \in 1 .. Len(s) : s[i] \in Range(s) /\ s[i] \in S
      /\ \A x \in Range(s) : \E i \in 1 .. Len(s) : s[i] = x
  BY <1>1 DEF Range
<1>. QED
  BY <1>1, <1>2, <1>3, <1>4

LEMMA PoolPrepend ==
    ASSUME NEW h, NEW F, NEW D, Links(h, F, D), NEW b \in D,
           NEW s, ListAt(h, h.head, s), Range(s) = F, NEW k \in 1 .. Len(s),
           NEW r, Queue(r, Addr), Range(r) = F \cup {b}, Increasing(r),
           Chain(lstitem_prepend(h, b, s[k]), r)
    PROVE  LET g == [lstitem_prepend(h, b, s[k]) EXCEPT !.head = r[1]] IN
           Links(g, F \cup {b}, D \ {b}) /\ SameBlocks(h, g)
<1>1. /\ h \in HeapType /\ Queue(s, Addr) /\ Chain(h, s)
      /\ b \in Addr \ Range(s) /\ b \notin F
  BY DEF Links, ListAt
<1>2. PICK nx \in [Addr -> Addr], pv \in [Addr -> Addr] :
         /\ lstitem_prepend(h, b, s[k]) = Relinked(h, nx, pv)
         /\ \A x \in Addr \ (F \cup {b}) : nx[x] = h.next[x] /\ pv[x] = h.prev[x]
  <2>1. OnlyAt(h, lstitem_prepend(h, b, s[k]), Range(s) \cup {b})
    BY <1>1, ChainInsert
  <2>. QED
    BY <2>1 DEF OnlyAt
<1>. DEFINE g == [Relinked(h, nx, pv) EXCEPT !.head = r[1]]
<1>3. r # <<>> /\ r[1] \in Addr
  BY QueueHas
<1>4. /\ g \in HeapType /\ g.next = nx /\ g.prev = pv /\ g.head = r[1]
      /\ g.alloc_head = h.alloc_head
      /\ g.size = h.size /\ g.p_mlst = h.p_mlst /\ g.mlst = h.mlst
  BY <1>1, <1>3 DEF HeapType, Relinked
<1>5. Relinked(h, nx, pv).next = nx /\ Relinked(h, nx, pv).prev = pv
  BY <1>1, RelinkedType
<1>. HIDE DEF g
<1>6. Chain(g, r)
  BY <1>2, <1>4, <1>5 DEF Chain
<1>7. PoolLinked(g, F \cup {b})
  BY <1>3, <1>4, <1>6 DEF PoolLinked, ListAt
<1>8. MlstsLinked(g)
  <2>1. \A x \in Addr : h.p_mlst[x] # NULL => x \notin F \cup {b}
    BY DEF Links
  <2>. QED
    BY <1>2, <1>4, <2>1, MlstsKept DEF Links
<1>9. g.alloc_head \in IF F \cup {b} = {} THEN {NULL} ELSE F \cup {b}
  <2>1. F # {}
    BY <1>1, QueueHas
  <2>. QED
    BY <1>4, <2>1 DEF Links
<1>10. /\ (F \cup {b}) \cap (D \ {b}) = {}
       /\ \A x \in (F \cup {b}) \cup (D \ {b}) : g.p_mlst[x] = NULL
       /\ \A x \in D \ {b} : x \in Addr \ (F \cup {b}) /\ g.next[x] = x /\ g.prev[x] = x
  BY <1>2, <1>4 DEF Links
<1>11. Links(g, F \cup {b}, D \ {b})
  BY <1>4, <1>7, <1>8, <1>9, <1>10 DEF Links
<1>. QED
  BY <1>2, <1>4, <1>11 DEF g, SameBlocks

\* A block that is in no list goes to its place in the pool.
LEMMA PoolInsert ==
    ASSUME NEW h, NEW F, NEW D, Links(h, F, D), NEW b \in D
    PROVE  LET g == mpool_insert(h, b) IN
           Links(g, F \cup {b}, D \ {b}) /\ SameBlocks(h, g)
<1>1. PICK s : ListAt(h, h.head, s) /\ Range(s) = F /\ Increasing(s)
  BY DEF Links, PoolLinked
<1>2. /\ h \in HeapType /\ b \in Addr /\ b \notin F /\ Queue(s, Addr) /\ Chain(h, s)
      /\ h.next[b] = b /\ h.prev[b] = b
  BY <1>1 DEF Links, ListAt
<1>3. NULL \notin Addr
  BY MemoryNamesAssumption DEF Mlst
<1>4. CASE s = <<>>
  <2>. DEFINE g == [h EXCEPT !.head = b, !.alloc_head = b]
  <2>1. h.head = NULL /\ F = {}
    BY <1>1, <1>4 DEF ListAt, Range
  <2>2. mpool_insert(h, b) = g
    BY <2>1 DEF mpool_insert
  <2>3. /\ g \in HeapType /\ g.next = h.next /\ g.prev = h.prev /\ g.head = b
        /\ g.alloc_head = b
        /\ g.size = h.size /\ g.p_mlst = h.p_mlst /\ g.mlst = h.mlst
    BY <1>2 DEF HeapType
  <2>. HIDE DEF g
  <2>4. Queue(<<b>>, Addr) /\ Range(<<b>>) = F \cup {b} /\ Increasing(<<b>>)
    BY <1>2, <2>1 DEF Queue, Range, IsInjective, Increasing
  <2>5. Chain(g, <<b>>)
    BY <1>2, <2>3 DEF Chain
  <2>6. PoolLinked(g, F \cup {b})
    <3>1. <<b>> # <<>> /\ <<b>>[1] = b
      OBVIOUS
    <3>. QED
      BY <2>3, <2>4, <2>5, <3>1 DEF PoolLinked, ListAt
  <2>7. MlstsLinked(g)
    BY <2>3, MlstsKept DEF Links
  <2>8. Links(g, F \cup {b}, D \ {b})
    BY <2>1, <2>3, <2>6, <2>7 DEF Links
  <2>. QED
    BY <2>2, <2>3, <2>8 DEF SameBlocks
<1>5. CASE s # <<>>
  <2>1. /\ Len(s) \in Nat /\ Len(s) # 0 /\ s[1] = h.head /\ h.head # NULL
        /\ h.prev[h.head] = s[Len(s)] /\ b \in Addr \ Range(s)
    BY <1>1, <1>2, <1>3, <1>5, EmptySeq DEF ListAt, Queue, Chain
  <2>2. 1 \in 1 .. Len(s) /\ \A i \in 1 .. (1 - 1) : s[i] < b
    BY <2>1
  <2>3. CASE b < h.head
    <3>. DEFINE r == InsertAt(s, 1, b)
    <3>1. Queue(r, Addr) /\ Range(r) = F \cup {b} /\ r[1] = b
      BY <1>1, <1>2, <2>1, <2>2, InsertQueue
    <3>2. Increasing(r)
      BY <1>1, <1>2, <2>1, <2>2, <2>3, SortedBetween
    <3>3. Chain(lstitem_prepend(h, b, s[1]), r)
      BY <1>2, <2>1, <2>2, ChainInsert
    <3>4. mpool_insert(h, b) = [lstitem_prepend(h, b, s[1]) EXCEPT !.head = r[1]]
      BY <2>1, <2>3, <3>1 DEF mpool_insert
    <3>. HIDE DEF r
    <3>5. LET g == [lstitem_prepend(h, b, s[1]) EXCEPT !.head = r[1]] IN
          Links(g, F \cup {b}, D \ {b}) /\ SameBlocks(h, g)
      BY <1>1, <2>2, <3>1, <3>2, <3>3, PoolPrepend
    <3>. QED
      BY <3>4, <3>5
  <2>4. ASSUME NEW k \in 1 .. Len(s), NEW r, Queue(r, Addr), Range(r) = F \cup {b},
               Increasing(r), r[1] = s[1], Chain(lstitem_prepend(h, b, s[k]), r),
               mpool_insert(h, b) = lstitem_prepend(h, b, s[k])
        PROVE  LET g == mpool_insert(h, b) IN
               Links(g, F \cup {b}, D \ {b}) /\ SameBlocks(h, g)
    <3>1. PICK nx \in [Addr -> Addr], pv \in [Addr -> Addr] :
             lstitem_prepend(h, b, s[k]) = Relinked(h, nx, pv)
      <4>1. OnlyAt(h, lstitem_prepend(h, b, s[k]), Range(s) \cup {b})
        BY <1>2, <2>1, ChainInsert
      <4>. QED
        BY <4>1 DEF OnlyAt
    <3>2. [Relinked(h, nx, pv) EXCEPT !.head = h.head] = Relinked(h, nx, pv)
      BY <1>2 DEF Relinked, HeapType
    <3>3. mpool_insert(h, b) = [lstitem_prepend(h, b, s[k]) EXCEPT !.head = r[1]]
      BY <2>1, <2>4, <3>1, <3>2
    <3>4. LET g == [lstitem_prepend(h, b, s[k]) EXCEPT !.head = r[1]] IN
          Links(g, F \cup {b}, D \ {b}) /\ SameBlocks(h, g)
      BY <1>1, <2>4, PoolPrepend
    <3>. QED
      BY <3>3, <3>4
  <2>5. CASE ~(b < h.head) /\ b > h.prev[h.head]
    <3>. DEFINE r == Append(s, b)
    <3>1. Queue(r, Addr) /\ Range(r) = F \cup {b}
      BY <1>1, <1>2, AppendQueue
    <3>2. r[1] = s[1]
      BY <1>2, <2>1 DEF Queue
    <3>3. Increasing(r)
      BY <1>1, <1>2, <1>5, <2>1, <2>5, SortedBehind
    <3>4. Chain(lstitem_prepend(h, b, s[1]), r)
      BY <1>2, <2>1, <2>2, ChainInsert
    <3>5. mpool_insert(h, b) = lstitem_prepend(h, b, s[1])
      BY <2>1, <2>5 DEF mpool_insert
    <3>. HIDE DEF r
    <3>. QED
      BY <2>2, <2>4, <3>1, <3>2, <3>3, <3>4, <3>5
  <2>6. CASE ~(b < h.head) /\ ~(b > h.prev[h.head])
    <3>. DEFINE sel == Place(s, b)
    <3>1. sel \in 2 .. Len(s) /\ b < s[sel] /\ \A i \in 1 .. (sel - 1) : s[i] < b
      <4>1. ~(b < s[1]) /\ ~(b > s[Len(s)]) /\ b \in Addr \ Range(s)
        BY <2>1, <2>6
      <4>. QED
        BY <1>1, <1>2, <1>5, <4>1, PlaceFound
    <3>2. Circle(h, h.head) = s
      BY <1>1, <1>5, <2>1, ItemsOf DEF Circle
    <3>3. mpool_insert(h, b) = lstitem_prepend(h, b, s[sel])
      BY <2>1, <2>6, <3>2 DEF mpool_insert, Place
    <3>. HIDE DEF sel
    <3>4. PICK k \in 1 .. Len(s) : k = sel /\ k # 1
      BY <2>1, <3>1
    <3>. DEFINE r == InsertAt(s, k, b)
    <3>5. Queue(r, Addr) /\ Range(r) = F \cup {b} /\ r[1] = s[1]
      <4>1. 1 \in 1 .. (Len(s) + 1) /\ 1 < k
        BY <2>1, <3>4
      <4>. QED
        BY <1>1, <1>2, <2>1, <4>1, InsertQueue
    <3>6. Increasing(r)
      BY <1>1, <1>2, <2>1, <3>1, <3>4, SortedBetween
    <3>7. Chain(lstitem_prepend(h, b, s[k]), r)
      BY <1>2, <2>1, ChainInsert
    <3>. HIDE DEF r
    <3>. QED
      BY <2>4, <3>3, <3>4, <3>5, <3>6, <3>7
  <2>. QED
    BY <2>3, <2>5, <2>6
<1>. QED
  BY <1>4, <1>5

\* The second item of a circle is the first one when that leaves.
LEMMA RemovedFirst ==
    ASSUME NEW s, Queue(s, Addr), NEW h, Chain(h, s), NEW k \in 1 .. Len(s), Len(s) # 1
    PROVE  /\ RemoveAt(s, k) # <<>>
           /\ RemoveAt(s, k)[1] = IF s[1] = s[k] THEN h.next[s[k]] ELSE s[1]
           /\ Queue(RemoveAt(s, k), Addr)
           /\ Range(RemoveAt(s, k)) = Range(s) \ {s[k]}
           /\ h.next[s[k]] \in Range(s) \ {s[k]}
<1>. DEFINE n == Len(s)
            r == RemoveAt(s, k)
<1>0. n \in Nat /\ n # 1
  BY DEF Queue
<1>1. 1 \in 1 .. (n - 1) /\ 1 \in 1 .. n /\ n - 1 # 0
  BY <1>0
<1>2. /\ Queue(r, Addr) /\ Range(r) = Range(s) \ {s[k]} /\ Len(r) = n - 1
      /\ r[1] = IF 1 < k THEN s[1] ELSE s[1 + 1]
  BY <1>1, RemoveAtQueue
<1>3. r # <<>>
  <2>1. Len(<<>>) = 0
    OBVIOUS
  <2>. QED
    BY <1>1, <1>2, <2>1
<1>4. s[1] = s[k] <=> k = 1
  <2>1. \A i \in 1 .. n, j \in 1 .. n : s[i] = s[j] => i = j
    BY DEF Queue, IsInjective
  <2>. QED
    BY <1>1, <2>1
<1>5. k = 1 => h.next[s[k]] = s[1 + 1]
  BY <1>0, <1>1 DEF Chain
<1>6. r[1] = IF s[1] = s[k] THEN h.next[s[k]] ELSE s[1]
  BY <1>0, <1>2, <1>4, <1>5
<1>7. h.next[s[k]] \in Range(s) \ {s[k]}
  <2>1. PICK j \in 1 .. n : j = IF k = n THEN 1 ELSE k + 1
    BY <1>0
  <2>2. h.next[s[k]] = s[j]
    BY <2>1 DEF Chain
  <2>3. s[j] \in Range(s)
    BY QueueHas
  <2>4. h.next[s[k]] # s[k]
    BY ChainSingle
  <2>. QED
    BY <2>2, <2>3, <2>4
<1>. QED
  BY <1>2, <1>3, <1>6, <1>7

\* A free block leaves the pool.
LEMMA PoolRemove ==
    ASSUME NEW h, NEW F, NEW D, Links(h, F, D), NEW b \in F
    PROVE  LET g == mpool_remove(h, b) IN
           Links(g, F \ {b}, D \cup {b}) /\ SameBlocks(h, g)
<1>1. PICK s : ListAt(h, h.head, s) /\ Range(s) = F /\ Increasing(s)
  BY DEF Links, PoolLinked
<1>2. h \in HeapType /\ Queue(s, Addr) /\ Chain(h, s) /\ b \in Addr
  BY <1>1, QueueHas DEF Links, ListAt
<1>3. PICK k \in 1 .. Len(s) : s[k] = b
  BY <1>1, <1>2, QueueHas
<1>4. s # <<>> /\ 1 \in 1 .. Len(s) /\ h.head = s[1] /\ Len(s) \in Nat
  BY <1>1, <1>2, QueueHas DEF ListAt
<1>5. \A x \in Addr : h.p_mlst[x] # NULL => x \notin F
  BY DEF Links
<1>6. CASE Len(s) = 1
  <2>. DEFINE g == [h EXCEPT !.head = NULL, !.alloc_head = NULL]
  <2>1. h.next[b] = b /\ h.prev[b] = b
    BY <1>2, <1>3, <1>6 DEF Chain
  <2>2. mpool_remove(h, b) = g
    BY <2>1 DEF mpool_remove
  <2>3. F = {b}
    BY <1>1, <1>2, <1>3, <1>6, QueueHas
  <2>4. /\ g \in HeapType /\ g.next = h.next /\ g.prev = h.prev /\ g.head = NULL
        /\ g.alloc_head = NULL
        /\ g.size = h.size /\ g.p_mlst = h.p_mlst /\ g.mlst = h.mlst
    BY <1>2 DEF HeapType
  <2>. HIDE DEF g
  <2>5. PoolLinked(g, {})
    <3>1. Queue(<<>>, Addr) /\ Range(<<>>) = {} /\ Increasing(<<>>) /\ Chain(g, <<>>)
      BY DEF Queue, Range, IsInjective, Increasing, Chain
    <3>. QED
      BY <2>4, <3>1 DEF PoolLinked, ListAt
  <2>6. MlstsLinked(g)
    BY <2>4, MlstsKept DEF Links
  <2>7. Links(g, {}, D \cup {b})
    BY <1>2, <2>1, <2>3, <2>4, <2>5, <2>6 DEF Links
  <2>. QED
    BY <2>2, <2>3, <2>4, <2>7 DEF SameBlocks
<1>7. CASE Len(s) # 1
  <2>. DEFINE r == RemoveAt(s, k)
              first == IF b = h.head THEN h.next[b] ELSE h.head
              alloc == IF b = h.alloc_head THEN h.next[b] ELSE h.alloc_head
              h0 == [h EXCEPT !.head = first, !.alloc_head = alloc]
              g == lstitem_remove(h0, b)
  <2>1. h.next[b] # b
    BY <1>2, <1>3, <1>7, ChainSingle
  <2>2. mpool_remove(h, b) = g
    BY <2>1 DEF mpool_remove
  <2>3. /\ r # <<>> /\ r[1] = first /\ Queue(r, Addr) /\ Range(r) = F \ {b}
        /\ h.next[b] \in F \ {b}
    BY <1>1, <1>2, <1>3, <1>4, <1>7, RemovedFirst
  <2>4. first \in Addr /\ alloc \in F \ {b} /\ F \subseteq Addr
    <3>1. F \subseteq Addr
      BY <1>1, <1>2, QueueHas
    <3>2. h.alloc_head \in F
      BY DEF Links
    <3>. QED
      BY <1>2, <1>4, <2>3, <3>1, <3>2, QueueHas
  <2>5. /\ h0 \in HeapType /\ h0.next = h.next /\ h0.prev = h.prev /\ h0.head = first
        /\ h0.alloc_head = alloc
        /\ h0.size = h.size /\ h0.p_mlst = h.p_mlst /\ h0.mlst = h.mlst
    BY <1>2, <2>4 DEF HeapType
  <2>. HIDE DEF h0, first, alloc, r
  <2>6. Chain(h0, s)
    BY <1>2, <2>5 DEF Chain
  <2>7. /\ Chain(lstitem_remove(h0, s[k]), RemoveAt(s, k))
        /\ OnlyAt(h0, lstitem_remove(h0, s[k]), Range(s))
        /\ lstitem_remove(h0, s[k]).next[s[k]] = s[k]
        /\ lstitem_remove(h0, s[k]).prev[s[k]] = s[k]
    BY <1>2, <1>7, <2>5, <2>6, ChainRemove
  <2>8. /\ Chain(g, r) /\ OnlyAt(h0, g, F) /\ g.next[b] = b /\ g.prev[b] = b
    BY <1>1, <1>3, <2>7 DEF r
  <2>9. PICK nx \in [Addr -> Addr], pv \in [Addr -> Addr] :
           /\ g = Relinked(h0, nx, pv)
           /\ \A x \in Addr \ F : nx[x] = h0.next[x] /\ pv[x] = h0.prev[x]
    BY <2>8 DEF OnlyAt
  <2>10. /\ g \in HeapType /\ g.next = nx /\ g.prev = pv /\ g.head = first
         /\ g.alloc_head = alloc
         /\ g.size = h.size /\ g.p_mlst = h.p_mlst /\ g.mlst = h.mlst
    BY <2>5, <2>9, RelinkedType
  <2>. HIDE DEF g
  <2>11. PoolLinked(g, F \ {b})
    <3>1. Increasing(r)
      BY <1>1, <1>2, SortedWithout DEF r
    <3>. QED
      BY <2>3, <2>8, <2>10, <3>1 DEF PoolLinked, ListAt
  <2>12. MlstsLinked(g)
    BY <1>5, <2>5, <2>9, <2>10, MlstsKept DEF Links
  <2>13. \A x \in D \cup {b} : x \in Addr /\ g.next[x] = x /\ g.prev[x] = x
    BY <1>2, <2>5, <2>8, <2>9, <2>10 DEF Links
  <2>14. /\ (F \ {b}) \cap (D \cup {b}) = {}
         /\ \A x \in (F \ {b}) \cup (D \cup {b}) : g.p_mlst[x] = NULL
         /\ g.alloc_head \in IF F \ {b} = {} THEN {NULL} ELSE F \ {b}
    BY <2>4, <2>10 DEF Links
  <2>15. Links(g, F \ {b}, D \cup {b})
    BY <2>10, <2>11, <2>12, <2>13, <2>14 DEF Links
  <2>. QED
    BY <2>2, <2>10, <2>15 DEF SameBlocks
<1>. QED
  BY <1>6, <1>7

\* From h to g, b enters or leaves the list of l, and nothing else changes.
ListChanges(h, g, l, b) ==
    /\ g \in HeapType /\ g.head = h.head /\ g.alloc_head = h.alloc_head
    /\ \A m \in Mlst \ {l} : g.mlst[m] = h.mlst[m]
    /\ \A x \in Addr \ {b} : g.p_mlst[x] = h.p_mlst[x]
    /\ {h.p_mlst[b], g.p_mlst[b]} = {l, NULL}
    /\ \A x \in Addr \ (InList(h, l) \cup {b}) :
          g.next[x] = h.next[x] /\ g.prev[x] = h.prev[x]
    /\ \E r : ListAt(g, g.mlst[l], r) /\ Range(r) = InList(g, l)
    /\ g.p_mlst[b] = NULL => g.next[b] = b /\ g.prev[b] = b

LEMMA MlstsChanged ==
    ASSUME NEW h, NEW g, NEW F, NEW D, Links(h, F, D), NEW l \in Mlst,
           NEW b \in Addr \ F, ListChanges(h, g, l, b)
    PROVE  Links(g, F, IF g.p_mlst[b] = NULL THEN D \cup {b} ELSE D \ {b})
<1>. USE DEF ListChanges
<1>1. NULL \notin Mlst
  BY MemoryNamesAssumption
<1>2. h \in HeapType /\ F \subseteq Addr /\ \A x \in F \cup D : h.p_mlst[x] = NULL
  <2>1. PICK s : ListAt(h, h.head, s) /\ Range(s) = F
    BY DEF Links, PoolLinked
  <2>2. F \subseteq Addr
    BY <2>1, QueueHas DEF ListAt
  <2>. QED
    BY <2>2 DEF Links
<1>3. \A x \in F : g.next[x] = h.next[x] /\ g.prev[x] = h.prev[x] /\ g.p_mlst[x] = NULL
  BY <1>1, <1>2 DEF InList
<1>4. PoolLinked(g, F)
  <2>1. PICK s : ListAt(h, h.head, s) /\ Range(s) = F /\ Increasing(s)
    BY DEF Links, PoolLinked
  <2>2. Chain(g, s)
    BY <1>3, <2>1, ChainKept DEF ListAt
  <2>. QED
    BY <2>1, <2>2 DEF PoolLinked, ListAt
<1>5. MlstsLinked(g)
  <2>. SUFFICES ASSUME NEW m \in Mlst
                PROVE  \E s : ListAt(g, g.mlst[m], s) /\ Range(s) = InList(g, m)
    BY DEF MlstsLinked
  <2>1. CASE m = l
    BY <2>1
  <2>2. CASE m # l
    <3>1. PICK s : ListAt(h, h.mlst[m], s) /\ Range(s) = InList(h, m)
      BY DEF Links, MlstsLinked
    <3>2. InList(g, m) = InList(h, m)
      BY <1>1, <2>2 DEF InList
    <3>3. \A x \in Range(s) : g.next[x] = h.next[x] /\ g.prev[x] = h.prev[x]
      BY <1>1, <2>2, <3>1 DEF InList
    <3>4. Chain(g, s)
      BY <3>1, <3>3, ChainKept DEF ListAt
    <3>. QED
      BY <2>2, <3>1, <3>2, <3>4 DEF ListAt
  <2>. QED
    BY <2>1, <2>2
<1>6. \A x \in D \ {b} : x \in Addr /\ x \notin F /\ g.next[x] = x /\ g.prev[x] = x
                         /\ g.p_mlst[x] = NULL
  <2>. SUFFICES ASSUME NEW x \in D, x # b
                PROVE  x \in Addr /\ x \notin F /\ g.next[x] = x /\ g.prev[x] = x
                       /\ g.p_mlst[x] = NULL
    OBVIOUS
  <2>1. x \in Addr /\ x \notin F /\ h.next[x] = x /\ h.prev[x] = x /\ h.p_mlst[x] = NULL
    BY DEF Links
  <2>2. x \notin InList(h, l)
    BY <1>1, <2>1 DEF InList
  <2>. QED
    BY <2>1, <2>2
<1>7. g.alloc_head \in IF F = {} THEN {NULL} ELSE F
  BY DEF Links
<1>8. CASE g.p_mlst[b] = NULL
  BY <1>3, <1>4, <1>5, <1>6, <1>7, <1>8 DEF Links
<1>9. CASE g.p_mlst[b] # NULL
  BY <1>3, <1>4, <1>5, <1>6, <1>7, <1>9 DEF Links
<1>. QED
  BY <1>8, <1>9

\* A block that is in no list becomes the last one of a memory list.
LEMMA MlstInsert ==
    ASSUME NEW h, NEW F, NEW D, Links(h, F, D), NEW b \in D, NEW l \in Mlst
    PROVE  LET g == mlst_insert(h, b, l) IN
           /\ Links(g, F, D \ {b})
           /\ g.p_mlst = [h.p_mlst EXCEPT ![b] = l]
           /\ g.size = h.size
<1>1. PICK s : ListAt(h, h.mlst[l], s) /\ Range(s) = InList(h, l)
  BY DEF Links, MlstsLinked
<1>2. /\ h \in HeapType /\ Queue(s, Addr) /\ Chain(h, s) /\ b \in Addr /\ b \notin F
      /\ h.next[b] = b /\ h.prev[b] = b /\ h.p_mlst[b] = NULL
  BY <1>1 DEF Links, ListAt
<1>3. NULL \notin Mlst /\ NULL \notin Addr
  BY MemoryNamesAssumption DEF Mlst
<1>4. b \notin Range(s)
  BY <1>1, <1>2, <1>3 DEF InList
<1>. DEFINE h0 == [h EXCEPT !.p_mlst[b] = l]
<1>5. /\ h0 \in HeapType /\ h0.next = h.next /\ h0.prev = h.prev
      /\ h0.p_mlst = [h.p_mlst EXCEPT ![b] = l]
      /\ h0.head = h.head /\ h0.alloc_head = h.alloc_head
      /\ h0.size = h.size /\ h0.mlst = h.mlst
  BY <1>2 DEF HeapType
<1>6. mlst_insert(h, b, l) = IF h.mlst[l] = NULL THEN [h0 EXCEPT !.mlst[l] = b]
                             ELSE lstitem_prepend(h0, b, h.mlst[l])
  BY DEF mlst_insert
<1>. HIDE DEF h0
<1>7. /\ h0.p_mlst[b] = l
      /\ \A x \in Addr \ {b} : h0.p_mlst[x] = h.p_mlst[x]
      /\ {x \in Addr : h0.p_mlst[x] = l} = InList(h, l) \cup {b}
  BY <1>2, <1>5 DEF HeapType, InList
<1>8. CASE s = <<>>
  <2>. DEFINE g == [h0 EXCEPT !.mlst[l] = b]
  <2>1. h.mlst[l] = NULL /\ InList(h, l) = {}
    BY <1>1, <1>2, <1>8, QueueHas DEF ListAt
  <2>2. mlst_insert(h, b, l) = g
    BY <1>6, <2>1
  <2>3. /\ g \in HeapType /\ g.next = h.next /\ g.prev = h.prev
        /\ g.p_mlst = h0.p_mlst /\ g.mlst = [h.mlst EXCEPT ![l] = b]
        /\ g.head = h.head /\ g.alloc_head = h.alloc_head /\ g.size = h.size
    BY <1>2, <1>5 DEF HeapType
  <2>. HIDE DEF g
  <2>4. g.mlst[l] = b /\ \A m \in Mlst \ {l} : g.mlst[m] = h.mlst[m]
    BY <1>2, <2>3 DEF HeapType
  <2>5. \E r : ListAt(g, g.mlst[l], r) /\ Range(r) = InList(g, l)
    <3>1. Queue(<<b>>, Addr) /\ Range(<<b>>) = {b} /\ <<b>> # <<>> /\ <<b>>[1] = b
      BY <1>2 DEF Queue, Range, IsInjective
    <3>2. Chain(g, <<b>>)
      BY <1>2, <2>3 DEF Chain
    <3>3. InList(g, l) = {b}
      BY <1>7, <2>1, <2>3 DEF InList
    <3>. QED
      BY <2>4, <3>1, <3>2, <3>3 DEF ListAt
  <2>6. {h.p_mlst[b], g.p_mlst[b]} = {l, NULL} /\ g.p_mlst[b] # NULL
    BY <1>2, <1>3, <1>7, <2>3
  <2>7. Links(g, F, IF g.p_mlst[b] = NULL THEN D \cup {b} ELSE D \ {b})
    <3>1. ListChanges(h, g, l, b)
      BY <1>2, <1>7, <2>3, <2>4, <2>5, <2>6 DEF ListChanges
    <3>2. b \in Addr \ F
      BY <1>2
    <3>. QED
      BY <3>1, <3>2, MlstsChanged
  <2>. QED
    BY <1>5, <2>2, <2>3, <2>6, <2>7
<1>9. CASE s # <<>>
  <2>. DEFINE g == lstitem_prepend(h0, b, s[1])
              r == Append(s, b)
  <2>1. /\ 1 \in 1 .. Len(s) /\ Len(s) \in Nat /\ s[1] \in Addr
        /\ h.mlst[l] = s[1] /\ h.mlst[l] # NULL
    BY <1>1, <1>2, <1>3, <1>9, QueueHas DEF ListAt
  <2>2. mlst_insert(h, b, l) = g
    BY <1>6, <2>1
  <2>3. Chain(h0, s)
    BY <1>2, <1>5 DEF Chain
  <2>4. Chain(g, r) /\ OnlyAt(h0, g, Range(s) \cup {b})
    BY <1>2, <1>4, <1>5, <2>1, <2>3, ChainInsert
  <2>5. Queue(r, Addr) /\ Range(r) = Range(s) \cup {b}
    BY <1>2, <1>4, AppendQueue
  <2>6. r # <<>> /\ r[1] = s[1]
    <3>1. r[1] = s[1]
      BY <1>2, <2>1 DEF Queue
    <3>. QED
      BY <2>5, <3>1, QueueHas
  <2>. HIDE DEF r, g
  <2>7. PICK nx \in [Addr -> Addr], pv \in [Addr -> Addr] :
           /\ g = Relinked(h0, nx, pv)
           /\ \A x \in Addr \ (Range(s) \cup {b}) : nx[x] = h0.next[x] /\ pv[x] = h0.prev[x]
    BY <2>4 DEF OnlyAt
  <2>8. /\ g \in HeapType /\ g.next = nx /\ g.prev = pv
        /\ g.p_mlst = h0.p_mlst /\ g.mlst = h.mlst
        /\ g.head = h.head /\ g.alloc_head = h.alloc_head /\ g.size = h.size
    BY <1>5, <2>7, RelinkedType
  <2>9. \E q : ListAt(g, g.mlst[l], q) /\ Range(q) = InList(g, l)
    <3>1. InList(g, l) = Range(r)
      BY <1>1, <1>7, <2>5, <2>8 DEF InList
    <3>. QED
      BY <2>1, <2>4, <2>5, <2>6, <2>8, <3>1 DEF ListAt
  <2>10. {h.p_mlst[b], g.p_mlst[b]} = {l, NULL} /\ g.p_mlst[b] # NULL
    BY <1>2, <1>3, <1>7, <2>8
  <2>11. \A x \in Addr \ (InList(h, l) \cup {b}) :
            g.next[x] = h.next[x] /\ g.prev[x] = h.prev[x]
    BY <1>1, <1>5, <2>7, <2>8
  <2>12. Links(g, F, IF g.p_mlst[b] = NULL THEN D \cup {b} ELSE D \ {b})
    <3>1. ListChanges(h, g, l, b)
      BY <1>2, <1>7, <2>8, <2>9, <2>10, <2>11 DEF ListChanges
    <3>2. b \in Addr \ F
      BY <1>2
    <3>. QED
      BY <3>1, <3>2, MlstsChanged
  <2>. QED
    BY <1>5, <2>2, <2>8, <2>10, <2>12
<1>. QED
  BY <1>8, <1>9

\* A block leaves the memory list it is in.
LEMMA MlstRemove ==
    ASSUME NEW h, NEW F, NEW D, Links(h, F, D), NEW b \in Addr, h.p_mlst[b] # NULL
    PROVE  LET g == mlst_remove(h, b) IN
           /\ Links(g, F, D \cup {b})
           /\ g.p_mlst = [h.p_mlst EXCEPT ![b] = NULL]
           /\ g.size = h.size
<1>1. h \in HeapType
  BY DEF Links
<1>2. PICK l \in Mlst : h.p_mlst[b] = l
  BY <1>1 DEF HeapType
<1>3. PICK s : ListAt(h, h.mlst[l], s) /\ Range(s) = InList(h, l)
  BY DEF Links, MlstsLinked
<1>4. /\ Queue(s, Addr) /\ Chain(h, s) /\ b \in Range(s) /\ b \notin F
      /\ NULL \notin Mlst /\ NULL \notin Addr
  BY <1>2, <1>3, MemoryNamesAssumption DEF ListAt, InList, Links, Mlst
<1>5. PICK k \in 1 .. Len(s) : s[k] = b
  BY <1>4, QueueHas
<1>6. s # <<>> /\ h.mlst[l] = s[1] /\ s[1] \in Addr /\ Len(s) \in Nat
  BY <1>3, <1>4, QueueHas DEF ListAt
<1>. DEFINE h0 == [h EXCEPT !.p_mlst[b] = NULL]
<1>7. /\ h0 \in HeapType /\ h0.next = h.next /\ h0.prev = h.prev
      /\ h0.p_mlst = [h.p_mlst EXCEPT ![b] = NULL]
      /\ h0.head = h.head /\ h0.alloc_head = h.alloc_head
      /\ h0.size = h.size /\ h0.mlst = h.mlst
  BY <1>1 DEF HeapType
<1>8. mlst_remove(h, b) =
         IF h.next[b] = b THEN [h0 EXCEPT !.mlst[l] = NULL]
         ELSE lstitem_remove([h0 EXCEPT !.mlst[l] = IF b = @ THEN h.next[b] ELSE @], b)
  BY <1>2 DEF mlst_remove
<1>. HIDE DEF h0
<1>9. /\ h0.p_mlst[b] = NULL
      /\ \A x \in Addr \ {b} : h0.p_mlst[x] = h.p_mlst[x]
      /\ {x \in Addr : h0.p_mlst[x] = l} = InList(h, l) \ {b}
  BY <1>1, <1>2, <1>4, <1>7 DEF HeapType, InList
<1>10. CASE Len(s) = 1
  <2>. DEFINE g == [h0 EXCEPT !.mlst[l] = NULL]
  <2>1. h.next[b] = b /\ h.prev[b] = b
    BY <1>4, <1>5, <1>10 DEF Chain
  <2>2. mlst_remove(h, b) = g
    BY <1>8, <2>1
  <2>3. /\ g \in HeapType /\ g.next = h.next /\ g.prev = h.prev
        /\ g.p_mlst = h0.p_mlst /\ g.mlst = [h.mlst EXCEPT ![l] = NULL]
        /\ g.head = h.head /\ g.alloc_head = h.alloc_head /\ g.size = h.size
    BY <1>1, <1>7 DEF HeapType
  <2>. HIDE DEF g
  <2>4. g.mlst[l] = NULL /\ \A m \in Mlst \ {l} : g.mlst[m] = h.mlst[m]
    BY <1>1, <2>3 DEF HeapType
  <2>5. \E r : ListAt(g, g.mlst[l], r) /\ Range(r) = InList(g, l)
    <3>1. Range(s) = {b}
      BY <1>4, <1>5, <1>10, QueueHas
    <3>2. Queue(<<>>, Addr) /\ Range(<<>>) = {} /\ Chain(g, <<>>)
      BY DEF Queue, Range, IsInjective, Chain
    <3>3. InList(g, l) = {}
      BY <1>3, <1>9, <2>3, <3>1 DEF InList
    <3>. QED
      BY <2>4, <3>2, <3>3 DEF ListAt
  <2>6. {h.p_mlst[b], g.p_mlst[b]} = {l, NULL} /\ g.p_mlst[b] = NULL
    BY <1>2, <1>9, <2>3
  <2>7. Links(g, F, IF g.p_mlst[b] = NULL THEN D \cup {b} ELSE D \ {b})
    <3>1. ListChanges(h, g, l, b)
      BY <1>4, <1>9, <2>1, <2>3, <2>4, <2>5, <2>6 DEF ListChanges
    <3>2. b \in Addr \ F
      BY <1>4
    <3>. QED
      BY <3>1, <3>2, MlstsChanged
  <2>. QED
    BY <1>7, <2>2, <2>3, <2>6, <2>7
<1>11. CASE Len(s) # 1
  <2>. DEFINE r == RemoveAt(s, k)
              first == IF b = h.mlst[l] THEN h.next[b] ELSE h.mlst[l]
              h1 == [h0 EXCEPT !.mlst[l] = first]
              g == lstitem_remove(h1, b)
  <2>1. h.next[b] # b
    BY <1>4, <1>5, <1>11, ChainSingle
  <2>2. mlst_remove(h, b) = g
    <3>1. [h0 EXCEPT !.mlst[l] = IF b = @ THEN h.next[b] ELSE @] = h1
      BY <1>7
    <3>. QED
      BY <1>8, <2>1, <3>1
  <2>3. /\ r # <<>> /\ r[1] = first /\ Queue(r, Addr) /\ Range(r) = Range(s) \ {b}
        /\ h.next[b] \in Range(s) \ {b}
    BY <1>4, <1>5, <1>6, <1>11, RemovedFirst
  <2>4. first \in Addr
    BY <1>4, <1>6, <2>3, QueueHas
  <2>5. /\ h1 \in HeapType /\ h1.next = h.next /\ h1.prev = h.prev
        /\ h1.p_mlst = h0.p_mlst /\ h1.mlst = [h.mlst EXCEPT ![l] = first]
        /\ h1.head = h.head /\ h1.alloc_head = h.alloc_head /\ h1.size = h.size
    BY <1>7, <2>4 DEF HeapType
  <2>. HIDE DEF h1, first, r
  <2>6. Chain(h1, s)
    BY <1>4, <2>5 DEF Chain
  <2>7. /\ Chain(lstitem_remove(h1, s[k]), RemoveAt(s, k))
        /\ OnlyAt(h1, lstitem_remove(h1, s[k]), Range(s))
        /\ lstitem_remove(h1, s[k]).next[s[k]] = s[k]
        /\ lstitem_remove(h1, s[k]).prev[s[k]] = s[k]
    BY <1>4, <1>11, <2>5, <2>6, ChainRemove
  <2>8. Chain(g, r) /\ OnlyAt(h1, g, Range(s)) /\ g.next[b] = b /\ g.prev[b] = b
    BY <1>5, <2>7 DEF r
  <2>9. PICK nx \in [Addr -> Addr], pv \in [Addr -> Addr] :
           /\ g = Relinked(h1, nx, pv)
           /\ \A x \in Addr \ Range(s) : nx[x] = h1.next[x] /\ pv[x] = h1.prev[x]
    BY <2>8 DEF OnlyAt
  <2>10. /\ g \in HeapType /\ g.next = nx /\ g.prev = pv
         /\ g.p_mlst = h0.p_mlst /\ g.mlst = [h.mlst EXCEPT ![l] = first]
         /\ g.head = h.head /\ g.alloc_head = h.alloc_head /\ g.size = h.size
    BY <2>5, <2>9, RelinkedType
  <2>. HIDE DEF g
  <2>11. g.mlst[l] = first /\ \A m \in Mlst \ {l} : g.mlst[m] = h.mlst[m]
    BY <1>1, <2>10 DEF HeapType
  <2>12. \E q : ListAt(g, g.mlst[l], q) /\ Range(q) = InList(g, l)
    <3>1. InList(g, l) = Range(r)
      BY <1>3, <1>9, <2>3, <2>10 DEF InList
    <3>. QED
      BY <2>3, <2>8, <2>11, <3>1 DEF ListAt
  <2>13. {h.p_mlst[b], g.p_mlst[b]} = {l, NULL} /\ g.p_mlst[b] = NULL
    BY <1>2, <1>9, <2>10
  <2>14. \A x \in Addr \ (InList(h, l) \cup {b}) :
            g.next[x] = h.next[x] /\ g.prev[x] = h.prev[x]
    BY <1>3, <2>5, <2>9, <2>10
  <2>15. Links(g, F, IF g.p_mlst[b] = NULL THEN D \cup {b} ELSE D \ {b})
    <3>1. ListChanges(h, g, l, b)
      BY <1>4, <1>9, <2>8, <2>10, <2>11, <2>12, <2>13, <2>14 DEF ListChanges
    <3>2. b \in Addr \ F
      BY <1>4
    <3>. QED
      BY <3>1, <3>2, MlstsChanged
  <2>. QED
    BY <1>7, <2>2, <2>10, <2>13, <2>15
<1>. QED
  BY <1>10, <1>11

-----------------------------------------------------------------------------
(* Alignment *)

Aligned(n) == n % MemAlign = 0

LEMMA MulAligned ==
    ASSUME NEW m \in Nat \ {0}, NEW k \in Int
    PROVE  (m * k) % m = 0
OBVIOUS

LEMMA DivAligned ==
    ASSUME NEW m \in Nat \ {0}, NEW a \in Int
    PROVE  a % m \in 0 .. (m - 1) /\ a \div m \in Int /\ a = m * (a \div m) + (a % m)
OBVIOUS

LEMMA Multiple ==
    ASSUME NEW m \in Nat \ {0}, NEW a \in Int, a % m = 0
    PROVE  \E k \in Int : a = m * k
<1>1. a \div m \in Int /\ a = m * (a \div m) + (a % m)
  BY DivAligned
<1>2. m * (a \div m) \in Int
  BY <1>1
<1>3. a = m * (a \div m)
  BY <1>1, <1>2
<1>. QED
  BY <1>1, <1>3

LEMMA AlignedSum ==
    ASSUME NEW a \in Int, NEW b \in Int, Aligned(a), Aligned(b)
    PROVE  Aligned(a + b) /\ Aligned(a - b)
<1>1. MemAlign \in Nat \ {0}
  BY MemoryAssumption
<1>2. PICK i \in Int : a = MemAlign * i
  BY <1>1, Multiple DEF Aligned
<1>3. PICK j \in Int : b = MemAlign * j
  BY <1>1, Multiple DEF Aligned
<1>4. a + b = MemAlign * (i + j) /\ a - b = MemAlign * (i - j)
  BY <1>1, <1>2, <1>3
<1>5. (MemAlign * (i + j)) % MemAlign = 0 /\ (MemAlign * (i - j)) % MemAlign = 0
  BY <1>1, MulAligned
<1>. QED
  BY <1>4, <1>5 DEF Aligned

\* MPOOL_ALIGN gives the smallest aligned size that is not smaller.
LEMMA AlignUp ==
    ASSUME NEW a \in Nat
    PROVE  /\ MPOOL_ALIGN(a) \in Nat /\ Aligned(MPOOL_ALIGN(a)) /\ a <= MPOOL_ALIGN(a)
           /\ \A c \in Nat : Aligned(c) /\ a <= c => MPOOL_ALIGN(a) <= c
<1>1. MemAlign \in Nat \ {0}
  BY MemoryAssumption
<1>2. PICK k \in Int, r \in 0 .. (MemAlign - 1) : a = MemAlign * k + r /\ a % MemAlign = r
  <2>1. /\ a % MemAlign \in 0 .. (MemAlign - 1) /\ a \div MemAlign \in Int
        /\ a = MemAlign * (a \div MemAlign) + (a % MemAlign)
    BY <1>1, DivAligned
  <2>. QED
    BY <2>1
<1>3. MPOOL_ALIGN(a) = IF r = 0 THEN a ELSE a + MemAlign - r
  BY <1>2 DEF MPOOL_ALIGN
<1>4. MPOOL_ALIGN(a) = IF r = 0 THEN MemAlign * k ELSE MemAlign * (k + 1)
  BY <1>1, <1>2, <1>3
<1>5. MPOOL_ALIGN(a) \in Nat /\ a <= MPOOL_ALIGN(a)
  BY <1>1, <1>2, <1>3
<1>6. Aligned(MPOOL_ALIGN(a))
  <2>1. (MemAlign * k) % MemAlign = 0 /\ (MemAlign * (k + 1)) % MemAlign = 0
    BY <1>1, MulAligned
  <2>. QED
    BY <1>4, <2>1 DEF Aligned
<1>7. ASSUME NEW c \in Nat, Aligned(c), a <= c PROVE MPOOL_ALIGN(a) <= c
  <2>1. PICK j \in Int : c = MemAlign * j
    BY <1>1, <1>7, Multiple DEF Aligned
  <2>2. CASE r = 0
    BY <1>2, <1>3, <1>7, <2>2
  <2>3. CASE r # 0
    <3>1. MemAlign * k < MemAlign * j
      BY <1>1, <1>2, <1>7, <2>1, <2>3
    <3>2. k + 1 <= j
      BY <1>1, <3>1
    <3>3. MemAlign * (k + 1) <= MemAlign * j
      BY <1>1, <3>2
    <3>. QED
      BY <1>4, <2>1, <2>3, <3>3
  <2>. QED
    BY <2>2, <2>3
<1>. QED
  BY <1>5, <1>6, <1>7

LEMMA ModAligned ==
    ASSUME NEW a \in Nat, Aligned(a)
    PROVE  a % UintMod \in 0 .. (UintMod - 1) /\ Aligned(a % UintMod)
<1>1. MemAlign \in Nat \ {0} /\ UintMod \in Nat \ {0} /\ Aligned(UintMod)
  BY MemoryAssumption DEF Aligned
<1>2. PICK k \in Int : a = UintMod * k + (a % UintMod)
  <2>1. a \div UintMod \in Int /\ a = UintMod * (a \div UintMod) + (a % UintMod)
    BY <1>1, DivAligned
  <2>. QED
    BY <2>1
<1>3. a % UintMod \in 0 .. (UintMod - 1)
  BY <1>1, DivAligned
<1>4. PICK u \in Int : UintMod = MemAlign * u
  BY <1>1, Multiple DEF Aligned
<1>5. UintMod * k = MemAlign * (u * k)
  BY <1>1, <1>4
<1>6. Aligned(UintMod * k) /\ UintMod * k \in Int
  <2>1. u * k \in Int
    OBVIOUS
  <2>2. (MemAlign * (u * k)) % MemAlign = 0
    BY <1>1, <2>1, MulAligned
  <2>. QED
    BY <1>1, <1>5, <2>2 DEF Aligned
<1>7. a % UintMod = a - UintMod * k
  BY <1>1, <1>2, <1>3, <1>6
<1>8. Aligned(a - UintMod * k)
  BY <1>6, AlignedSum
<1>. QED
  BY <1>3, <1>7, <1>8

\* Headers and blocks are not empty, and aligned.
LEMMA Sizes ==
    /\ MBLK_HEADER_SIZE \in Nat \ {0} /\ Aligned(MBLK_HEADER_SIZE)
    /\ MBLK_SMALLEST_SIZE \in Nat \ {0} /\ Aligned(MBLK_SMALLEST_SIZE)
    /\ PoolSize \in Nat /\ MBLK_SMALLEST_SIZE <= PoolSize /\ Aligned(PoolSize)
    /\ PoolSize < UintMod
<1>1. /\ MemAlign \in Nat \ {0} /\ MblkSize \in Nat \ {0} /\ MemSmallest \in Nat \ {0}
      /\ PoolSize \in Nat /\ MBLK_SMALLEST_SIZE <= PoolSize /\ Aligned(PoolSize)
      /\ PoolSize < UintMod
  BY MemoryAssumption DEF Aligned
<1>2. MBLK_HEADER_SIZE \in Nat \ {0} /\ Aligned(MBLK_HEADER_SIZE)
  BY <1>1, AlignUp DEF MBLK_HEADER_SIZE
<1>3. MBLK_HEADER_SIZE + MemSmallest \in Nat /\ MBLK_HEADER_SIZE + MemSmallest # 0
  BY <1>1, <1>2
<1>4. MBLK_SMALLEST_SIZE \in Nat \ {0} /\ Aligned(MBLK_SMALLEST_SIZE)
  BY <1>3, AlignUp DEF MBLK_SMALLEST_SIZE
<1>. QED
  BY <1>1, <1>2, <1>4

\* The size of a block for a request.
LEMMA BlockSize ==
    ASSUME NEW size \in Nat
    PROVE  /\ mblk_size(size) \in Nat /\ Aligned(mblk_size(size))
           /\ MBLK_SMALLEST_SIZE <= mblk_size(size)
<1>1. size + MBLK_HEADER_SIZE \in Nat
  BY Sizes
<1>2. MPOOL_ALIGN(size + MBLK_HEADER_SIZE) \in Nat /\ Aligned(MPOOL_ALIGN(size + MBLK_HEADER_SIZE))
  BY <1>1, AlignUp
<1>. DEFINE n == MPOOL_ALIGN(size + MBLK_HEADER_SIZE) % UintMod
<1>3. n \in 0 .. (UintMod - 1) /\ Aligned(n)
  BY <1>2, ModAligned
<1>4. mblk_size(size) = IF n < MBLK_SMALLEST_SIZE THEN MBLK_SMALLEST_SIZE ELSE n
  BY DEF mblk_size
<1>. HIDE DEF n
<1>. QED
  BY <1>3, <1>4, Sizes, MemoryAssumption

-----------------------------------------------------------------------------
(* Blocks tile the pool *)

\* The lists do not notice what becomes of blocks that are in none.
LEMMA LinksKept ==
    ASSUME NEW h, NEW g, NEW F, NEW D, Links(h, F, D), g \in HeapType,
           g.head = h.head, g.alloc_head = h.alloc_head,
           g.mlst = h.mlst, g.p_mlst = h.p_mlst,
           NEW E \in SUBSET Addr,
           \A x \in E : x \notin F /\ h.p_mlst[x] = NULL /\ g.next[x] = x /\ g.prev[x] = x,
           \A x \in Addr \ E : g.next[x] = h.next[x] /\ g.prev[x] = h.prev[x]
    PROVE  Links(g, F, D \cup E)
<1>1. PICK s : ListAt(h, h.head, s) /\ Range(s) = F /\ Increasing(s)
  BY DEF Links, PoolLinked
<1>2. F \subseteq Addr
  BY <1>1, QueueHas DEF ListAt
<1>3. Chain(g, s)
  BY <1>1, <1>2, ChainKept DEF ListAt
<1>4. PoolLinked(g, F)
  BY <1>1, <1>3 DEF PoolLinked, ListAt
<1>5. MlstsLinked(g)
  BY MlstsKept DEF Links
<1>. QED
  BY <1>4, <1>5 DEF Links

LEMMA LinksForget ==
    ASSUME NEW h, NEW F, NEW D, Links(h, F, D), NEW E \in SUBSET D
    PROVE  Links(h, F, E)
BY DEF Links

InUse(h) == {b \in Addr : h.p_mlst[b] # NULL}

\* The blocks H lie one behind the other and fill the pool.
Tiles(h, H) ==
    /\ H \subseteq Addr /\ 0 \in H
    /\ \A b \in H : /\ h.size[b] >= MBLK_SMALLEST_SIZE
                    /\ b + h.size[b] \in H \cup {PoolSize}
                    /\ \A c \in H : c <= b \/ c >= b + h.size[b]

Heads(h, F, D) == F \cup D \cup InUse(h)

Whole(h, F, D) == Links(h, F, D) /\ Tiles(h, Heads(h, F, D))

\* The ends of the blocks of a tiled pool.
LEMMA TileSizes ==
    ASSUME NEW h \in HeapType, NEW H, Tiles(h, H), NEW b \in H
    PROVE  /\ b \in Nat /\ h.size[b] \in Nat
           /\ h.size[b] # 0 /\ b + h.size[b] <= PoolSize
           /\ Aligned(b) /\ Aligned(h.size[b])
<1>1. \A x \in Addr : x \in 0 .. (PoolSize - 1) /\ Aligned(x)
  BY DEF Addr, Aligned
<1>2. h.size[b] \in 0 .. PoolSize
  BY DEF HeapType, Tiles
<1>3. /\ b \in Addr /\ h.size[b] >= MBLK_SMALLEST_SIZE
      /\ b + h.size[b] \in Addr \cup {PoolSize}
  BY DEF Tiles
<1>4. b \in Nat /\ h.size[b] \in Nat /\ h.size[b] # 0 /\ b + h.size[b] <= PoolSize
  BY <1>1, <1>2, <1>3, Sizes
<1>5. Aligned(b) /\ Aligned(b + h.size[b])
  BY <1>1, <1>3, Sizes
<1>6. (b + h.size[b]) - b = h.size[b]
  BY <1>4
<1>7. Aligned((b + h.size[b]) - b)
  <2>. DEFINE e == b + h.size[b]
  <2>1. e \in Int /\ b \in Int /\ Aligned(e)
    BY <1>4, <1>5
  <2>. HIDE DEF e
  <2>2. Aligned(e - b)
    BY <1>5, <2>1, AlignedSum
  <2>. QED
    BY <2>2 DEF e
<1>. QED
  BY <1>4, <1>5, <1>6, <1>7

\* The free blocks with a free block right behind them.
Frag(h, F) == {b \in F : b + h.size[b] \in F}

Fewer(h, F, g, G) == Cardinality(Frag(g, G)) <= Cardinality(Frag(h, F))

\* A set does not grow when one element takes the place of another.
LEMMA Swapped ==
    ASSUME NEW S, IsFiniteSet(S), NEW T, NEW x, NEW y,
           T \subseteq (S \ {x}) \cup {y}, y \in T => x \in S \/ y \in S
    PROVE  Cardinality(T) <= Cardinality(S)
<1>1. Cardinality(S) \in Nat
  BY FS_CardinalityType
<1>2. CASE T \subseteq S
  BY <1>2, FS_Subset
<1>3. CASE ~(T \subseteq S)
  <2>1. y \in T /\ y \notin S /\ x \in S
    BY <1>3
  <2>2. T \ {y} \subseteq S \ {x}
    BY <2>1
  <2>3. IsFiniteSet(S \ {x}) /\ Cardinality(S \ {x}) = Cardinality(S) - 1
    BY <2>1, FS_RemoveElement
  <2>4. IsFiniteSet(T \ {y}) /\ Cardinality(T \ {y}) <= Cardinality(S \ {x})
    BY <2>2, <2>3, FS_Subset
  <2>5. Cardinality((T \ {y}) \cup {y}) = Cardinality(T \ {y}) + 1
    BY <2>4, FS_AddElement
  <2>6. (T \ {y}) \cup {y} = T
    BY <2>1
  <2>7. Cardinality(T) = Cardinality(T \ {y}) + 1
    BY <2>5, <2>6
  <2>8. Cardinality(T \ {y}) \in Nat
    BY <2>4, FS_CardinalityType
  <2>. QED
    BY <1>1, <2>3, <2>4, <2>7, <2>8
<1>. QED
  BY <1>2, <1>3

LEMMA FragFinite ==
    ASSUME NEW h, NEW F \in SUBSET Addr
    PROVE  IsFiniteSet(Frag(h, F)) /\ Cardinality(Frag(h, F)) \in Nat
BY AddrFinite, FS_Subset, FS_CardinalityType DEF Frag

\* A new header lies in no list.
LEMMA MblkInit ==
    ASSUME NEW h, NEW F, NEW D, Links(h, F, D), NEW x \in Addr \ F, h.p_mlst[x] = NULL,
           NEW size \in 0 .. PoolSize
    PROVE  LET g == mblk_init(h, x, size) IN
           /\ Links(g, F, D \cup {x})
           /\ g.size = [h.size EXCEPT ![x] = size]
           /\ g.p_mlst = h.p_mlst
<1>. DEFINE g == mblk_init(h, x, size)
<1>1. h \in HeapType
  BY DEF Links
<1>2. /\ g.prev = [h.prev EXCEPT ![x] = x] /\ g.next = [h.next EXCEPT ![x] = x]
      /\ g.size = [h.size EXCEPT ![x] = size] /\ g.p_mlst = [h.p_mlst EXCEPT ![x] = NULL]
      /\ g.head = h.head /\ g.alloc_head = h.alloc_head /\ g.mlst = h.mlst
      /\ g \in HeapType
  BY <1>1 DEF mblk_init, lstitem_init, HeapType
<1>3. g.p_mlst = h.p_mlst
  BY <1>1, <1>2 DEF HeapType
<1>. HIDE DEF g
<1>4. /\ g.next[x] = x /\ g.prev[x] = x
      /\ \A y \in Addr \ {x} : g.next[y] = h.next[y] /\ g.prev[y] = h.prev[y]
  BY <1>1, <1>2 DEF HeapType
<1>5. Links(g, F, D \cup {x})
  <2>. DEFINE E == {x}
  <2>1. /\ E \in SUBSET Addr
        /\ \A y \in E : y \notin F /\ h.p_mlst[y] = NULL /\ g.next[y] = y /\ g.prev[y] = y
        /\ \A y \in Addr \ E : g.next[y] = h.next[y] /\ g.prev[y] = h.prev[y]
    BY <1>4
  <2>. HIDE DEF E
  <2>2. Links(g, F, D \cup E)
    BY <1>2, <1>3, <2>1, LinksKept
  <2>. QED
    BY <2>2 DEF E
<1>. QED
  BY <1>2, <1>3, <1>5 DEF g

\* The size of a header is no link.
LEMMA Resized ==
    ASSUME NEW h, NEW F, NEW D, Links(h, F, D), NEW sz \in [Addr -> 0 .. PoolSize]
    PROVE  /\ Links([h EXCEPT !.size = sz], F, D)
           /\ [h EXCEPT !.size = sz].size = sz
           /\ [h EXCEPT !.size = sz].p_mlst = h.p_mlst
           /\ [h EXCEPT !.size = sz].next = h.next
           /\ [h EXCEPT !.size = sz].prev = h.prev
<1>. DEFINE g == [h EXCEPT !.size = sz]
<1>1. h \in HeapType
  BY DEF Links
<1>2. /\ g.prev = h.prev /\ g.next = h.next /\ g.size = sz /\ g.p_mlst = h.p_mlst
      /\ g.head = h.head /\ g.alloc_head = h.alloc_head /\ g.mlst = h.mlst
      /\ g \in HeapType
  BY <1>1 DEF HeapType
<1>. HIDE DEF g
<1>3. Links(g, F, D \cup {})
  BY <1>2, LinksKept
<1>4. D \cup {} = D
  OBVIOUS
<1>. QED
  BY <1>2, <1>3, <1>4 DEF g

LEMMA HeadsIn ==
    ASSUME NEW h, NEW F, NEW D, Whole(h, F, D)
    PROVE  /\ h \in HeapType /\ Heads(h, F, D) \subseteq Addr /\ F \subseteq Heads(h, F, D)
           /\ \A x \in Addr \ Heads(h, F, D) : x \notin F /\ h.p_mlst[x] = NULL
           /\ \A x \in Heads(h, F, D) : h.p_mlst[x] = NULL => x \in F \cup D
           /\ \A x \in F \cup D : h.p_mlst[x] = NULL
BY DEF Whole, Links, Tiles, Heads, InUse

\* A part of a free block becomes a free block of its own.
LEMMA Split ==
    ASSUME NEW h, NEW F, Whole(h, F, {}), NEW b \in F,
           NEW n \in Nat, Aligned(n), MBLK_SMALLEST_SIZE <= n,
           n + MBLK_SMALLEST_SIZE <= h.size[b]
    PROVE  LET g == mpool_split(h, b, n) IN
           /\ b + n \in Addr \ Heads(h, F, {})
           /\ Whole(g, F \cup {b + n}, {})
           /\ g.p_mlst = h.p_mlst
           /\ g.size = [h.size EXCEPT ![b] = n, ![b + n] = h.size[b] - n]
<1>. DEFINE H == Heads(h, F, {})
            x == b + n
            rest == h.size[b] - n
            g0 == mblk_init(h, x, rest)
            sz == [g0.size EXCEPT ![b] = n]
            g1 == [g0 EXCEPT !.size = sz]
            g == mpool_insert(g1, x)
<1>1. h \in HeapType /\ Links(h, F, {}) /\ Tiles(h, H) /\ b \in H /\ H \subseteq Addr
  BY HeadsIn DEF Whole
<1>2. /\ b \in Nat /\ h.size[b] \in Nat /\ b + h.size[b] <= PoolSize /\ Aligned(b)
      /\ MBLK_SMALLEST_SIZE \in Nat \ {0} /\ PoolSize \in Nat
  BY <1>1, TileSizes, Sizes
<1>3. x \in 0 .. (PoolSize - 1) /\ b < x /\ x < b + h.size[b] /\ rest \in 0 .. PoolSize
      /\ x + rest = b + h.size[b] /\ rest >= MBLK_SMALLEST_SIZE
  BY <1>2
<1>4. Aligned(x)
  BY <1>2, AlignedSum
<1>5. x \in Addr
  BY <1>3, <1>4 DEF Addr, Aligned
<1>6. x \notin H
  BY <1>1, <1>2, <1>3, <1>5 DEF Tiles
<1>. HIDE DEF H
<1>7. x \notin F /\ h.p_mlst[x] = NULL
  BY <1>5, <1>6, HeadsIn DEF H
<1>. HIDE DEF x, rest
<1>8. /\ Links(g0, F, {} \cup {x})
      /\ g0.size = [h.size EXCEPT ![x] = rest]
      /\ g0.p_mlst = h.p_mlst
  BY <1>1, <1>3, <1>5, <1>7, MblkInit
<1>. HIDE DEF g0
<1>9. b \in Addr /\ n \in 0 .. PoolSize
  BY <1>1, <1>2, <1>3 DEF x
<1>10. sz \in [Addr -> 0 .. PoolSize]
  BY <1>8, <1>9 DEF Links, HeapType
<1>11. sz = [h.size EXCEPT ![b] = n, ![x] = rest] /\ sz[b] = n /\ sz[x] = rest
       /\ \A y \in Addr \ {b, x} : sz[y] = h.size[y]
  BY <1>1, <1>3, <1>5, <1>8, <1>9 DEF HeapType
<1>12. [g0 EXCEPT !.size[b] = n] = g1
  OBVIOUS
<1>. HIDE DEF sz
<1>13. Links(g1, F, {} \cup {x}) /\ g1.size = sz /\ g1.p_mlst = h.p_mlst
  BY <1>8, <1>10, Resized
<1>. HIDE DEF g1
<1>14. Links(g, F \cup {x}, ({} \cup {x}) \ {x}) /\ SameBlocks(g1, g)
  BY <1>13, PoolInsert
<1>15. mpool_split(h, b, n) = g
  BY <1>12 DEF mpool_split, g0, x, rest
<1>. HIDE DEF g
<1>16. g.size = sz /\ g.p_mlst = h.p_mlst
  BY <1>13, <1>14 DEF SameBlocks
<1>17. Links(g, F \cup {x}, {})
  <2>1. ({} \cup {x}) \ {x} = {}
    OBVIOUS
  <2>. QED
    BY <1>14, <2>1
<1>18. Heads(g, F \cup {x}, {}) = H \cup {x}
  BY <1>16 DEF Heads, InUse, H
<1>19. Tiles(g, H \cup {x})
  <2>1. H \cup {x} \subseteq Addr /\ 0 \in H
    BY <1>1, <1>5 DEF Tiles
  <2>2. \A c \in H \cup {x} : c \in Nat
    BY <2>1, AddrNat, MemoryAssumption
  <2>. SUFFICES ASSUME NEW c \in H \cup {x}
                PROVE  /\ sz[c] >= MBLK_SMALLEST_SIZE
                       /\ c + sz[c] \in H \cup {x} \cup {PoolSize}
                       /\ \A d \in H \cup {x} : d <= c \/ d >= c + sz[c]
    BY <1>16, <2>1 DEF Tiles
  <2>3. /\ b + h.size[b] \in H \cup {PoolSize}
        /\ \A d \in H : d <= b \/ d >= b + h.size[b]
    BY <1>1 DEF Tiles
  <2>4. CASE c = b
    BY <1>1, <1>2, <1>3, <1>11, <2>2, <2>3, <2>4 DEF x
  <2>5. CASE c = x
    BY <1>2, <1>3, <1>11, <2>2, <2>3, <2>5
  <2>6. CASE c # b /\ c # x
    <3>1. c \in H /\ sz[c] = h.size[c] /\ h.size[c] \in Nat
      BY <1>1, <1>11, <2>6, TileSizes
    <3>2. /\ h.size[c] >= MBLK_SMALLEST_SIZE /\ c + h.size[c] \in H \cup {PoolSize}
          /\ \A d \in H : d <= c \/ d >= c + h.size[c]
      BY <1>1, <3>1 DEF Tiles
    <3>3. x <= c \/ x >= c + h.size[c]
      <4>1. c <= b \/ c >= b + h.size[b]
        BY <2>3, <3>1
      <4>2. CASE c >= b + h.size[b]
        BY <1>2, <1>3, <2>2, <4>2
      <4>3. CASE c <= b
        <5>1. b <= c \/ b >= c + h.size[c]
          BY <1>1, <3>2
        <5>2. b >= c + h.size[c]
          BY <1>2, <2>2, <2>6, <4>3, <5>1
        <5>. QED
          BY <1>2, <1>3, <2>2, <3>1, <5>2
      <4>. QED
        BY <4>1, <4>2, <4>3
    <3>. QED
      BY <3>1, <3>2, <3>3
  <2>. QED
    BY <2>4, <2>5, <2>6
<1>20. Whole(g, F \cup {x}, {})
  BY <1>17, <1>18, <1>19 DEF Whole
<1>. QED
  BY <1>5, <1>6, <1>11, <1>15, <1>16, <1>20 DEF H, x, rest

\* The neighbours of a free block are free.
LEMMA Neighbours ==
    ASSUME NEW h, NEW F, NEW D, Links(h, F, D), NEW b \in F
    PROVE  h.next[b] \in F /\ h.prev[b] \in F
<1>1. PICK s : ListAt(h, h.head, s) /\ Range(s) = F
  BY DEF Links, PoolLinked
<1>2. Queue(s, Addr) /\ Chain(h, s)
  BY <1>1 DEF ListAt
<1>3. Len(s) \in Nat /\ \A i \in 1 .. Len(s) : s[i] \in F
  BY <1>1, <1>2, QueueHas
<1>4. PICK i \in 1 .. Len(s) : s[i] = b
  BY <1>1, <1>2, QueueHas
<1>5. /\ (IF i = Len(s) THEN 1 ELSE i + 1) \in 1 .. Len(s)
      /\ (IF i = 1 THEN Len(s) ELSE i - 1) \in 1 .. Len(s)
  BY <1>3
<1>. QED
  BY <1>2, <1>3, <1>4, <1>5 DEF Chain

\* The free block right behind a free block is the next one of the pool.
LEMMA NextIsBehind ==
    ASSUME NEW h, NEW F, NEW D, Whole(h, F, D), NEW b \in F, b + h.size[b] \in F
    PROVE  h.next[b] = b + h.size[b] /\ h.prev[b + h.size[b]] = b
<1>. DEFINE c == b + h.size[b]
            H == Heads(h, F, D)
<1>1. /\ h \in HeapType /\ Links(h, F, D) /\ Tiles(h, H) /\ F \subseteq H
  BY HeadsIn DEF Whole
<1>2. \A d \in H : d \in Nat /\ (d <= b \/ d >= c)
  BY <1>1, AddrNat, MemoryAssumption DEF Tiles
<1>3. b \in Nat /\ c \in Nat /\ b < c
  BY <1>1, TileSizes
<1>. HIDE DEF c, H
<1>4. PICK s : ListAt(h, h.head, s) /\ Range(s) = F /\ Increasing(s)
  BY <1>1 DEF Links, PoolLinked
<1>5. Queue(s, Addr) /\ Chain(h, s) /\ Len(s) \in Nat /\ \A i \in 1 .. Len(s) : s[i] \in H
  BY <1>1, <1>4, QueueHas DEF ListAt
<1>6. PICK i \in 1 .. Len(s) : s[i] = b
  BY <1>4, <1>5, QueueHas
<1>7. PICK j \in 1 .. Len(s) : s[j] = c
  BY <1>4, <1>5, QueueHas DEF c
<1>8. i < j
  <2>. SUFFICES ASSUME j < i PROVE FALSE
    BY <1>3, <1>6, <1>7
  <2>1. c < b
    BY <1>4, <1>6, <1>7 DEF Increasing
  <2>. QED
    BY <1>3, <2>1
<1>9. i + 1 = j
  <2>. SUFFICES ASSUME i + 1 < j PROVE FALSE
    BY <1>8
  <2>1. i + 1 \in 1 .. Len(s)
    BY <1>5
  <2>2. b < s[i + 1] /\ s[i + 1] < c
    BY <1>4, <1>6, <1>7, <2>1 DEF Increasing
  <2>3. s[i + 1] \in Nat /\ (s[i + 1] <= b \/ s[i + 1] >= c)
    BY <1>2, <1>5, <2>1
  <2>. QED
    BY <1>3, <2>2, <2>3
<1>10. h.next[s[i]] = s[j] /\ h.prev[s[j]] = s[i]
  <2>1. h.next[s[i]] = s[IF i = Len(s) THEN 1 ELSE i + 1]
    BY <1>5 DEF Chain
  <2>2. h.prev[s[j]] = s[IF j = 1 THEN Len(s) ELSE j - 1]
    BY <1>5 DEF Chain
  <2>3. (IF i = Len(s) THEN 1 ELSE i + 1) = j /\ (IF j = 1 THEN Len(s) ELSE j - 1) = i
    BY <1>5, <1>9
  <2>. QED
    BY <2>1, <2>2, <2>3
<1>. QED
  BY <1>6, <1>7, <1>10 DEF c

\* Two free blocks that lie one behind the other become one.
LEMMA Absorb ==
    ASSUME NEW h, NEW F, Whole(h, F, {}), NEW a \in F, NEW b \in F, a + h.size[a] = b
    PROVE  LET g == absorb(h, a, b) IN
           /\ a # b
           /\ Whole(g, F \ {b}, {})
           /\ g.p_mlst = h.p_mlst
           /\ g.size = [h.size EXCEPT ![a] = h.size[a] + h.size[b], ![b] = 0]
<1>. DEFINE H == Heads(h, F, {})
            sz == [h.size EXCEPT ![a] = h.size[a] + h.size[b], ![b] = 0]
            g0 == [h EXCEPT !.size = sz]
            g == mpool_remove(g0, b)
<1>1. /\ h \in HeapType /\ Links(h, F, {}) /\ Tiles(h, H)
      /\ a \in H /\ b \in H /\ H \subseteq Addr /\ h.p_mlst[b] = NULL
  BY HeadsIn DEF Whole
<1>2. /\ a \in Nat /\ h.size[a] \in Nat /\ h.size[a] # 0
      /\ b \in Nat /\ h.size[b] \in Nat /\ h.size[b] # 0 /\ b + h.size[b] <= PoolSize
      /\ MBLK_SMALLEST_SIZE \in Nat \ {0} /\ PoolSize \in Nat
  BY <1>1, TileSizes, Sizes
<1>3. a < b
  BY <1>2
<1>4. h.size[a] + h.size[b] \in 0 .. PoolSize
  BY <1>2
<1>5. sz \in [Addr -> 0 .. PoolSize]
  BY <1>1, <1>2, <1>4 DEF HeapType
<1>6. /\ sz[a] = h.size[a] + h.size[b] /\ \A c \in Addr \ {a, b} : sz[c] = h.size[c]
  BY <1>1, <1>2, <1>3 DEF HeapType
<1>7. [h EXCEPT !.size[a] = @ + h.size[b], !.size[b] = 0] = g0
  BY <1>1 DEF HeapType
<1>8. absorb(h, a, b) = g
  BY <1>7 DEF absorb
<1>. HIDE DEF sz
<1>9. Links(g0, F, {}) /\ g0.size = sz /\ g0.p_mlst = h.p_mlst
  BY <1>1, <1>5, Resized
<1>. HIDE DEF g0
<1>10. Links(g, F \ {b}, {} \cup {b}) /\ SameBlocks(g0, g)
  BY <1>9, PoolRemove
<1>. HIDE DEF g
<1>11. g.size = sz /\ g.p_mlst = h.p_mlst
  BY <1>9, <1>10 DEF SameBlocks
<1>12. Links(g, F \ {b}, {})
  BY <1>10, LinksForget
<1>. HIDE DEF H
<1>13. Heads(g, F \ {b}, {}) = H \ {b}
  BY <1>1, <1>11 DEF Heads, InUse, H
<1>14. Tiles(g, H \ {b})
  <2>1. H \subseteq Addr /\ 0 \in H /\ \A c \in H : c \in Nat
    BY <1>1, AddrNat, MemoryAssumption DEF Tiles
  <2>2. 0 \in H \ {b} /\ H \ {b} \subseteq Addr
    BY <1>2, <1>3, <2>1
  <2>. SUFFICES ASSUME NEW c \in H \ {b}
                PROVE  /\ sz[c] >= MBLK_SMALLEST_SIZE
                       /\ c + sz[c] \in (H \ {b}) \cup {PoolSize}
                       /\ \A d \in H \ {b} : d <= c \/ d >= c + sz[c]
    BY <1>11, <2>2 DEF Tiles
  <2>3. /\ h.size[a] >= MBLK_SMALLEST_SIZE
        /\ \A d \in H : d <= a \/ d >= b
        /\ b + h.size[b] \in H \cup {PoolSize}
        /\ \A d \in H : d <= b \/ d >= b + h.size[b]
    BY <1>1 DEF Tiles
  <2>4. CASE c = a
    <3>1. c + sz[c] = b + h.size[b] /\ c + sz[c] # b
      BY <1>2, <1>6, <2>4
    <3>2. \A d \in H \ {b} : d <= c \/ d >= b + h.size[b]
      BY <1>2, <2>1, <2>3, <2>4
    <3>. QED
      BY <1>2, <1>6, <2>3, <2>4, <3>1, <3>2
  <2>5. CASE c # a
    <3>1. c \in Addr \ {a, b} /\ sz[c] = h.size[c] /\ h.size[c] \in Nat /\ c \in Nat
      BY <1>1, <1>6, <2>1, <2>5, TileSizes
    <3>2. /\ h.size[c] >= MBLK_SMALLEST_SIZE /\ c + h.size[c] \in H \cup {PoolSize}
          /\ \A d \in H : d <= c \/ d >= c + h.size[c]
      BY <1>1 DEF Tiles
    <3>3. c + h.size[c] # b
      <4>. SUFFICES ASSUME c + h.size[c] = b PROVE FALSE
        OBVIOUS
      <4>1. c < b
        BY <1>2, <3>1, <3>2
      <4>2. c < a
        BY <1>2, <2>3, <2>5, <3>1, <4>1
      <4>3. a <= c \/ a >= b
        BY <1>1, <3>2
      <4>. QED
        BY <1>2, <1>3, <3>1, <4>2, <4>3
    <3>. QED
      BY <3>1, <3>2, <3>3
  <2>. QED
    BY <2>4, <2>5
<1>15. Whole(g, F \ {b}, {})
  BY <1>12, <1>13, <1>14 DEF Whole
<1>16. a # b
  BY <1>2, <1>3
<1>. QED
  BY <1>8, <1>11, <1>15, <1>16 DEF g, sz

\* A block and its free neighbours become one block, and no two free blocks
\* meet there that did not meet without the block.
LEMMA Merge ==
    ASSUME NEW h, NEW F, Whole(h, F, {}), NEW b \in F
    PROVE  LET g == mpool_merge(h, b) IN
           /\ \E G : Whole(g, G, {}) /\ Fewer(h, F \ {b}, g, G)
           /\ g.p_mlst = h.p_mlst
<1>. DEFINE c == h.next[b]
            g == IF b + h.size[b] = c THEN absorb(h, b, c) ELSE h
            Old == Frag(h, F \ {b})
            Open(G) == {x \in G : x + g.size[x] \in G \ {b}}
<1>1. c \in F /\ F \subseteq Addr /\ h \in HeapType
  BY Neighbours, HeadsIn DEF Whole
<1>2. IsFiniteSet(Old) /\ Cardinality(Old) \in Nat
  BY <1>1, FragFinite
<1>3. PICK G : /\ G \subseteq F /\ Whole(g, G, {}) /\ b \in G /\ g.p_mlst = h.p_mlst
               /\ Cardinality(Open(G)) <= Cardinality(Old)
  <2>1. CASE b + h.size[b] = c
    <3>. HIDE DEF c
    <3>. DEFINE K == F \ {c}
    <3>1. /\ b # c
          /\ Whole(absorb(h, b, c), K, {})
          /\ absorb(h, b, c).p_mlst = h.p_mlst
          /\ absorb(h, b, c).size = [h.size EXCEPT ![b] = h.size[b] + h.size[c], ![c] = 0]
      BY <1>1, <2>1, Absorb
    <3>2. K \subseteq F /\ b \in K /\ g = absorb(h, b, c)
      BY <2>1, <3>1
    <3>. HIDE DEF g
    <3>3. /\ g.size[b] = h.size[b] + h.size[c]
          /\ \A x \in K \ {b} : g.size[x] = h.size[x]
      BY <1>1, <3>1, <3>2 DEF HeapType
    <3>4. b + g.size[b] = c + h.size[c]
      <4>1. h.size[b] \in Nat /\ h.size[c] \in Nat /\ b \in Nat
        BY <1>1, HeadsIn, TileSizes DEF Whole
      <4>. QED
        BY <2>1, <3>3, <4>1
    <3>5. Open(K) \subseteq (Old \ {c}) \cup {b}
      BY <3>3 DEF Frag
    <3>6. b \in Open(K) => c \in Old
      BY <1>1, <3>1, <3>4 DEF Frag
    <3>7. Cardinality(Open(K)) <= Cardinality(Old)
      <4>. HIDE DEF Open, Old
      <4>. QED
        BY <1>2, <3>5, <3>6, Swapped
    <3>. QED
      BY <3>1, <3>2, <3>7
  <2>2. CASE b + h.size[b] # c
    <3>1. g = h
      BY <2>2
    <3>2. b + h.size[b] \notin F
      BY <2>2, NextIsBehind
    <3>3. Open(F) = Old
      BY <3>1, <3>2 DEF Frag
    <3>. HIDE DEF Open, Old, g
    <3>. QED
      BY <1>2, <3>1, <3>3
  <2>. QED
    BY <2>1, <2>2
<1>4. g \in HeapType /\ G \subseteq Addr /\ IsFiniteSet(Open(G)) /\ Cardinality(Open(G)) \in Nat
  <2>1. g \in HeapType /\ G \subseteq Addr
    BY <1>3, HeadsIn
  <2>2. Open(G) \subseteq Addr
    BY <2>1
  <2>. HIDE DEF Open, g
  <2>. QED
    BY <2>1, <2>2, AddrFinite, FS_Subset, FS_CardinalityType
<1>. HIDE DEF g
<1>. DEFINE a == g.prev[b]
<1>5. a \in G
  BY <1>3, Neighbours DEF Whole
<1>6. mpool_merge(h, b) = IF b = a + g.size[a] THEN absorb(g, a, b) ELSE g
  BY DEF mpool_merge, g
<1>. HIDE DEF a
<1>7. CASE b = a + g.size[a]
  <2>. DEFINE q == absorb(g, a, b)
              K == G \ {b}
  <2>1. /\ a # b
        /\ Whole(q, K, {})
        /\ q.p_mlst = g.p_mlst
        /\ q.size = [g.size EXCEPT ![a] = g.size[a] + g.size[b], ![b] = 0]
    BY <1>3, <1>5, <1>7, Absorb
  <2>. HIDE DEF q
  <2>2. /\ q.size[a] = g.size[a] + g.size[b]
        /\ \A x \in K \ {a} : q.size[x] = g.size[x]
    BY <1>4, <1>5, <2>1 DEF HeapType
  <2>3. a + q.size[a] = b + g.size[b]
    <3>1. g.size[a] \in Nat /\ g.size[b] \in Nat /\ a \in Nat
      BY <1>3, <1>5, HeadsIn, TileSizes DEF Whole
    <3>. QED
      BY <1>7, <2>2, <3>1
  <2>4. Frag(q, K) \subseteq (Open(G) \ {b}) \cup {a}
    BY <2>2 DEF Frag
  <2>5. a \in Frag(q, K) => b \in Open(G)
    BY <1>3, <2>3 DEF Frag
  <2>6. Cardinality(Frag(q, K)) <= Cardinality(Open(G))
    <3>. HIDE DEF Open
    <3>. QED
      BY <1>4, <2>4, <2>5, Swapped
  <2>7. Cardinality(Frag(q, K)) \in Nat
    BY <1>4, FragFinite
  <2>8. Fewer(h, F \ {b}, q, K)
    <3>. HIDE DEF Open
    <3>. QED
      BY <1>2, <1>3, <1>4, <2>6, <2>7 DEF Fewer
  <2>. QED
    BY <1>3, <1>6, <1>7, <2>1, <2>8 DEF q
<1>8. CASE b # a + g.size[a]
  <2>1. \A x \in G : x + g.size[x] # b
    <3>. SUFFICES ASSUME NEW x \in G, x + g.size[x] = b PROVE FALSE
      OBVIOUS
    <3>1. g.prev[b] = x
      BY <1>3, NextIsBehind
    <3>. QED
      BY <1>8, <3>1 DEF a
  <2>2. Frag(g, G) = Open(G)
    BY <2>1 DEF Frag
  <2>3. Fewer(h, F \ {b}, g, G)
    BY <1>3, <2>2 DEF Fewer
  <2>. QED
    BY <1>3, <1>6, <1>8, <2>3
<1>. QED
  BY <1>7, <1>8

-----------------------------------------------------------------------------
(* Allocation *)

\* The search from the allocation head on visits every free block.
LEMMA NextFit ==
    ASSUME NEW h, NEW F, NEW D, Links(h, F, D), NEW n
    PROVE  IF next_fit(h, n) = NULL THEN \A b \in F : ~(n <= h.size[b])
           ELSE next_fit(h, n) \in F /\ n <= h.size[next_fit(h, n)]
<1>. DEFINE s == Circle(h, h.alloc_head)
            I == {i \in 1 .. Len(s) : n <= h.size[s[i]]}
            found == IF I # {} THEN Min(I) ELSE 0
<1>1. NULL \notin Addr
  BY MemoryNamesAssumption DEF Mlst
<1>2. Queue(s, Addr) /\ Range(s) = F
  <2>1. PICK q : ListAt(h, h.head, q) /\ Range(q) = F
    BY DEF Links, PoolLinked
  <2>2. Queue(q, Addr) /\ Chain(h, q)
    BY <2>1 DEF ListAt
  <2>3. CASE F = {}
    <3>1. s = <<>>
      BY <2>3 DEF Links, Circle
    <3>. QED
      BY <2>3, <3>1 DEF Queue, Range, IsInjective
  <2>4. CASE F # {}
    <3>1. h.alloc_head \in Range(q)
      BY <2>1, <2>4 DEF Links
    <3>2. PICK k \in 1 .. Len(q) : q[k] = h.alloc_head
      BY <2>2, <3>1, QueueHas
    <3>3. PICK r : ListAt(h, q[k], r) /\ r # <<>> /\ Range(r) = Range(q)
      BY <2>2, Rotated
    <3>4. Items(h, q[k], Cardinality(Addr)) = r
      BY <3>3, ItemsOf
    <3>5. h.alloc_head # NULL
      BY <1>1, <2>2, <3>1, QueueHas
    <3>6. s = r
      BY <3>2, <3>4, <3>5 DEF Circle
    <3>. QED
      BY <2>1, <3>3, <3>6 DEF ListAt
  <2>. QED
    BY <2>3, <2>4
<1>3. next_fit(h, n) = IF found = 0 THEN NULL ELSE s[found]
  BY DEF next_fit, SelectInSeq
<1>. HIDE DEF s
<1>4. /\ Len(s) \in Nat /\ F \subseteq Addr
      /\ \A i \in 1 .. Len(s) : s[i] \in F
      /\ \A x \in F : \E i \in 1 .. Len(s) : s[i] = x
  BY <1>2, QueueHas
<1>5. I \in SUBSET Nat
  BY <1>4
<1>6. CASE I = {}
  <2>1. next_fit(h, n) = NULL
    BY <1>3, <1>6
  <2>2. \A b \in F : ~(n <= h.size[b])
    BY <1>4, <1>6
  <2>. QED
    BY <2>1, <2>2
<1>7. CASE I # {}
  <2>1. Min(I) \in I
    <3>. HIDE DEF I
    <3>. QED
      BY <1>5, <1>7, MinProperty
  <2>2. Min(I) \in 1 .. Len(s) /\ n <= h.size[s[Min(I)]]
    BY <2>1
  <2>3. next_fit(h, n) = s[Min(I)]
    BY <1>3, <1>4, <1>7, <2>2
  <2>4. s[Min(I)] \in F /\ s[Min(I)] # NULL
    BY <1>1, <1>4, <2>2
  <2>. QED
    BY <2>2, <2>3, <2>4
<1>. QED
  BY <1>6, <1>7

\* A search may start at any free block.
LEMMA HeadMoved ==
    ASSUME NEW h, NEW F, Whole(h, F, {}), NEW x \in F
    PROVE  LET g == [h EXCEPT !.alloc_head = x] IN
           Whole(g, F, {}) /\ g.p_mlst = h.p_mlst /\ g.size = h.size
<1>. DEFINE g == [h EXCEPT !.alloc_head = x]
<1>1. h \in HeapType /\ Links(h, F, {}) /\ F \subseteq Addr /\ F # {}
  BY HeadsIn DEF Whole
<1>2. /\ g \in HeapType /\ g.alloc_head = x
      /\ g.prev = h.prev /\ g.next = h.next /\ g.size = h.size /\ g.p_mlst = h.p_mlst
      /\ g.head = h.head /\ g.mlst = h.mlst
  BY <1>1 DEF HeapType
<1>. HIDE DEF g
<1>3. PoolLinked(g, F)
  BY <1>1, <1>2 DEF Links, PoolLinked, ListAt, Chain
<1>4. MlstsLinked(g)
  BY <1>2, MlstsKept DEF Links, Whole
<1>5. Links(g, F, {})
  BY <1>1, <1>2, <1>3, <1>4 DEF Links
<1>6. Heads(g, F, {}) = Heads(h, F, {})
  BY <1>2 DEF Heads, InUse
<1>7. Whole(g, F, {})
  BY <1>2, <1>5, <1>6 DEF Whole, Tiles
<1>. QED
  BY <1>2, <1>7 DEF g

\* A block passes from the pool to a memory list.
LEMMA Taken ==
    ASSUME NEW h, NEW F, Whole(h, F, {}), NEW b \in F, NEW l \in Mlst
    PROVE  LET g == mlst_insert(mpool_remove(h, b), b, l) IN
           /\ Whole(g, F \ {b}, {})
           /\ g.p_mlst = [h.p_mlst EXCEPT ![b] = l]
           /\ g.size = h.size
<1>. DEFINE g0 == mpool_remove(h, b)
            g == mlst_insert(g0, b, l)
<1>1. h \in HeapType /\ Links(h, F, {}) /\ b \in Addr /\ NULL # l
  BY HeadsIn, MemoryNamesAssumption DEF Whole
<1>2. Links(g0, F \ {b}, {} \cup {b}) /\ SameBlocks(h, g0)
  BY <1>1, PoolRemove
<1>. HIDE DEF g0
<1>3. /\ Links(g, F \ {b}, ({} \cup {b}) \ {b})
      /\ g.p_mlst = [g0.p_mlst EXCEPT ![b] = l]
      /\ g.size = g0.size
  BY <1>2, MlstInsert
<1>. HIDE DEF g
<1>4. ({} \cup {b}) \ {b} = {}
  OBVIOUS
<1>5. g.p_mlst = [h.p_mlst EXCEPT ![b] = l] /\ g.size = h.size
  BY <1>2, <1>3 DEF SameBlocks
<1>6. Heads(g, F \ {b}, {}) = Heads(h, F, {})
  BY <1>1, <1>5 DEF Heads, InUse, HeapType
<1>7. Whole(g, F \ {b}, {})
  BY <1>3, <1>4, <1>5, <1>6 DEF Whole, Tiles
<1>. QED
  BY <1>5, <1>7 DEF g, g0

\* What an allocation gives: a block that is large enough, if there is one.  No
\* two free blocks meet that did not.
Allocated(h, a, F, size, l) ==
    IF a.block = NULL
    THEN a.heap = h /\ \A b \in F : ~(mblk_size(size) <= h.size[b])
    ELSE /\ a.block \in F /\ mblk_size(size) <= h.size[a.block]
         /\ \E G : Whole(a.heap, G, {}) /\ Fewer(h, F, a.heap, G)
         /\ a.heap.p_mlst = [h.p_mlst EXCEPT ![a.block] = l]

LEMMA Alloc ==
    ASSUME NEW h, NEW F, Whole(h, F, {}), NEW size \in Nat, NEW l \in Mlst
    PROVE  Allocated(h, mpool_alloc(h, size, l), F, size, l)
<1>. DEFINE n == mblk_size(size)
            b == next_fit(h, n)
            g == [h EXCEPT !.alloc_head = h.next[b]]
            s == IF n + MBLK_SMALLEST_SIZE <= h.size[b] THEN mpool_split(g, b, n) ELSE g
            a == mpool_alloc(h, size, l)
<1>1. n \in Nat /\ Aligned(n) /\ MBLK_SMALLEST_SIZE <= n
  BY BlockSize
<1>2. a = [block |-> b,
           heap |-> IF b = NULL THEN h ELSE mlst_insert(mpool_remove(s, b), b, l)]
  BY DEF mpool_alloc
<1>. HIDE DEF a
<1>3. IF b = NULL THEN \A x \in F : ~(n <= h.size[x]) ELSE b \in F /\ n <= h.size[b]
  <2>. HIDE DEF n
  <2>. QED
    BY NextFit DEF Whole
<1>. HIDE DEF n, b
<1>4. CASE b = NULL
  <2>. HIDE DEF s
  <2>1. a.block = NULL /\ a.heap = h
    BY <1>2, <1>4
  <2>. QED
    BY <1>3, <1>4, <2>1 DEF Allocated, n, a
<1>5. CASE b # NULL
  <2>1. b \in F /\ n <= h.size[b] /\ h.next[b] \in F /\ h.p_mlst[b] = NULL
    BY <1>3, <1>5, Neighbours, HeadsIn DEF Whole
  <2>2. Whole(g, F, {}) /\ g.p_mlst = h.p_mlst /\ g.size = h.size
    BY <2>1, HeadMoved
  <2>. HIDE DEF g
  <2>0. /\ h \in HeapType /\ F \subseteq Addr /\ b \in Nat /\ h.size[b] \in Nat
        /\ Heads(h, F, {}) = Heads(g, F, {}) /\ F \subseteq Heads(h, F, {})
        /\ \A x \in F : x + h.size[x] \in Heads(h, F, {}) \cup {PoolSize}
    <3>1. h \in HeapType /\ F \subseteq Addr /\ F \subseteq Heads(h, F, {}) /\ Tiles(h, Heads(h, F, {}))
      BY HeadsIn DEF Whole
    <3>2. Heads(h, F, {}) = Heads(g, F, {})
      BY <2>2 DEF Heads, InUse
    <3>. QED
      BY <2>1, <3>1, <3>2, TileSizes DEF Tiles
  <2>3. PICK G : /\ Whole(s, G, {}) /\ b \in G /\ s.p_mlst = h.p_mlst
                 /\ Cardinality(Frag(s, G \ {b})) <= Cardinality(Frag(h, F))
    <3>1. CASE n + MBLK_SMALLEST_SIZE <= h.size[b]
      <4>1. /\ b + n \in Addr \ Heads(g, F, {})
            /\ Whole(mpool_split(g, b, n), F \cup {b + n}, {})
            /\ mpool_split(g, b, n).p_mlst = g.p_mlst
            /\ mpool_split(g, b, n).size =
                  [g.size EXCEPT ![b] = n, ![b + n] = g.size[b] - n]
        BY <1>1, <2>1, <2>2, <3>1, Split
      <4>. DEFINE x == b + n
                  K == F \cup {x}
      <4>2. s = mpool_split(g, b, n) /\ x \in Addr \ Heads(h, F, {})
        BY <2>0, <3>1, <4>1
      <4>. HIDE DEF x, s
      <4>3. s.size = [h.size EXCEPT ![b] = n, ![x] = h.size[b] - n]
        BY <2>2, <4>1, <4>2 DEF x
      <4>4. b # x /\ x # PoolSize
        BY <2>0, <2>1, <4>2 DEF Addr
      <4>5. s.size[x] = h.size[b] - n /\ \A y \in F \ {b} : s.size[y] = h.size[y]
        BY <2>0, <2>1, <4>2, <4>3, <4>4 DEF HeapType
      <4>6. x + s.size[x] = b + h.size[b]
        BY <1>1, <2>0, <4>5 DEF x
      <4>. DEFINE New == Frag(s, K \ {b})
                  Old == Frag(h, F)
      <4>7. New \subseteq (Old \ {b}) \cup {x}
        <5>1. \A y \in F : y + h.size[y] # x
          BY <2>0, <4>2, <4>4
        <5>. QED
          BY <4>5, <5>1 DEF Frag
      <4>8. x \in New => b \in Old
        <5>1. b + h.size[b] # x
          BY <2>0, <2>1, <4>2, <4>4
        <5>. QED
          BY <2>1, <4>6, <5>1 DEF Frag
      <4>9. IsFiniteSet(Old)
        BY <2>0, FragFinite
      <4>. HIDE DEF New, Old
      <4>10. Cardinality(New) <= Cardinality(Old)
        BY <4>7, <4>8, <4>9, Swapped
      <4>. QED
        BY <2>1, <2>2, <4>1, <4>2, <4>10 DEF New, Old, x
    <3>2. CASE ~(n + MBLK_SMALLEST_SIZE <= h.size[b])
      <4>1. s = g
        BY <3>2
      <4>2. Frag(s, F \ {b}) \subseteq Frag(h, F)
        BY <2>2, <4>1 DEF Frag
      <4>3. Cardinality(Frag(s, F \ {b})) <= Cardinality(Frag(h, F))
        BY <2>0, <4>2, FragFinite, FS_Subset
      <4>. HIDE DEF s
      <4>. QED
        BY <2>1, <2>2, <4>1, <4>3
    <3>. QED
      BY <3>1, <3>2
  <2>. HIDE DEF s
  <2>4. /\ Whole(mlst_insert(mpool_remove(s, b), b, l), G \ {b}, {})
        /\ mlst_insert(mpool_remove(s, b), b, l).p_mlst = [s.p_mlst EXCEPT ![b] = l]
        /\ mlst_insert(mpool_remove(s, b), b, l).size = s.size
    <3>1. Whole(s, G, {}) /\ b \in G
      BY <2>3
    <3>. QED
      BY <3>1, Taken
  <2>5. a.block = b /\ a.heap = mlst_insert(mpool_remove(s, b), b, l)
    BY <1>2, <1>5
  <2>6. Fewer(h, F, a.heap, G \ {b})
    <3>1. Frag(a.heap, G \ {b}) = Frag(s, G \ {b})
      BY <2>4, <2>5 DEF Frag
    <3>. QED
      BY <2>3, <3>1 DEF Fewer
  <2>. QED
    BY <1>5, <2>1, <2>3, <2>4, <2>5, <2>6 DEF Allocated, n, a
<1>. QED
  BY <1>4, <1>5

-----------------------------------------------------------------------------
(* Blocks that go back to the pool *)

\* A block passes from its memory list to the pool.
LEMMA Returned ==
    ASSUME NEW h, NEW F, Whole(h, F, {}), NEW b \in Addr, h.p_mlst[b] # NULL
    PROVE  LET g == mpool_insert(mlst_remove(h, b), b) IN
           /\ Whole(g, F \cup {b}, {})
           /\ g.p_mlst = [h.p_mlst EXCEPT ![b] = NULL]
           /\ g.size = h.size
<1>. DEFINE g0 == mlst_remove(h, b)
            g == mpool_insert(g0, b)
<1>1. h \in HeapType /\ Links(h, F, {})
  BY HeadsIn DEF Whole
<1>2. /\ Links(g0, F, {} \cup {b})
      /\ g0.p_mlst = [h.p_mlst EXCEPT ![b] = NULL]
      /\ g0.size = h.size
  BY <1>1, MlstRemove
<1>. HIDE DEF g0
<1>3. Links(g, F \cup {b}, ({} \cup {b}) \ {b}) /\ SameBlocks(g0, g)
  BY <1>2, PoolInsert
<1>. HIDE DEF g
<1>4. ({} \cup {b}) \ {b} = {}
  OBVIOUS
<1>5. g.p_mlst = [h.p_mlst EXCEPT ![b] = NULL] /\ g.size = h.size
  BY <1>2, <1>3 DEF SameBlocks
<1>6. Heads(g, F \cup {b}, {}) = Heads(h, F, {})
  BY <1>1, <1>5 DEF Heads, InUse, HeapType
<1>7. Whole(g, F \cup {b}, {})
  BY <1>3, <1>4, <1>5, <1>6 DEF Whole, Tiles
<1>. QED
  BY <1>5, <1>7 DEF g, g0

LEMMA Freed ==
    ASSUME NEW h, NEW F, Whole(h, F, {}), NEW b \in Addr, h.p_mlst[b] # NULL
    PROVE  LET g == mpool_free(h, b) IN
           /\ \E G : Whole(g, G, {}) /\ Fewer(h, F, g, G)
           /\ g.p_mlst = [h.p_mlst EXCEPT ![b] = NULL]
<1>. DEFINE g == mpool_insert(mlst_remove(h, b), b)
<1>1. /\ Whole(g, F \cup {b}, {})
      /\ g.p_mlst = [h.p_mlst EXCEPT ![b] = NULL]
      /\ g.size = h.size
  BY Returned
<1>2. mpool_free(h, b) = mpool_merge(g, b)
  BY DEF mpool_free
<1>. HIDE DEF g
<1>. DEFINE K == F \cup {b}
<1>3. b \in K /\ K \ {b} = F
  BY HeadsIn
<1>. HIDE DEF K
<1>4. /\ \E G : Whole(mpool_merge(g, b), G, {}) /\ Fewer(g, K \ {b}, mpool_merge(g, b), G)
      /\ mpool_merge(g, b).p_mlst = g.p_mlst
  BY <1>1, <1>3, Merge DEF K
<1>5. Frag(g, F) = Frag(h, F)
  BY <1>1 DEF Frag
<1>. QED
  BY <1>1, <1>2, <1>3, <1>4, <1>5 DEF Fewer

\* The heap g is h after k rounds of the loop of release.
Released(h, g, l, k) ==
    /\ \E G : Whole(g, G, {})
    /\ \A x \in Addr : g.p_mlst[x] = h.p_mlst[x] \/ (h.p_mlst[x] = l /\ g.p_mlst[x] = NULL)
    /\ Cardinality(InList(g, l)) <= Cardinality(Addr) - k
    /\ InList(h, l) = {} => g = h

LEMMA ReleaseFirst ==
    ASSUME NEW h, NEW g, NEW l \in Mlst, NEW k \in 0 .. (Cardinality(Addr) - 1),
           Released(h, g, l, k)
    PROVE  Released(h, release_first(g, l), l, k + 1)
<1>. DEFINE b == g.mlst[l]
            q == mpool_insert(mlst_remove(g, b), b)
<1>1. PICK G : Whole(g, G, {})
  BY DEF Released
<1>2. PICK s : ListAt(g, g.mlst[l], s) /\ Range(s) = InList(g, l)
  BY <1>1 DEF Whole, Links, MlstsLinked
<1>3. g \in HeapType /\ NULL \notin Addr /\ NULL # l /\ Cardinality(Addr) \in Nat
  BY <1>1, HeadsIn, AddrFinite, MemoryNamesAssumption DEF Mlst
<1>4. Queue(s, Addr)
  BY <1>2 DEF ListAt
<1>5. IsFiniteSet(InList(g, l)) /\ Cardinality(InList(g, l)) \in Nat
  BY AddrFinite, FS_Subset, FS_CardinalityType DEF InList
<1>6. release_first(g, l) = IF b = NULL THEN g ELSE q
  BY DEF release_first
<1>7. CASE s = <<>>
  <2>1. b = NULL /\ InList(g, l) = {}
    BY <1>2, <1>4, <1>7, QueueHas DEF ListAt
  <2>2. Cardinality(InList(g, l)) = 0
    BY <2>1, FS_EmptySet
  <2>3. release_first(g, l) = g
    BY <1>6, <2>1
  <2>4. Cardinality(InList(g, l)) <= Cardinality(Addr) - (k + 1)
    BY <1>3, <2>2
  <2>5. Released(h, g, l, k + 1)
    BY <2>4 DEF Released
  <2>. QED
    BY <2>3, <2>5
<1>8. CASE s # <<>>
  <2>1. b \in InList(g, l) /\ b # NULL
    BY <1>2, <1>3, <1>4, <1>8, QueueHas DEF ListAt
  <2>2. b \in Addr /\ g.p_mlst[b] = l
    BY <2>1 DEF InList
  <2>. HIDE DEF b
  <2>3. /\ Whole(q, G \cup {b}, {})
        /\ q.p_mlst = [g.p_mlst EXCEPT ![b] = NULL]
        /\ q.size = g.size
    BY <1>1, <1>3, <2>2, Returned
  <2>4. release_first(g, l) = q
    BY <1>6, <2>1
  <2>. HIDE DEF q
  <2>5. InList(q, l) = InList(g, l) \ {b}
    BY <1>3, <2>2, <2>3 DEF InList, HeapType
  <2>6. Cardinality(InList(q, l)) = Cardinality(InList(g, l)) - 1
    BY <1>5, <2>1, <2>5, FS_RemoveElement
  <2>7. Cardinality(InList(q, l)) <= Cardinality(Addr) - (k + 1)
    BY <1>3, <1>5, <2>6 DEF Released
  <2>8. \A x \in Addr : q.p_mlst[x] = h.p_mlst[x] \/ (h.p_mlst[x] = l /\ q.p_mlst[x] = NULL)
    <3>. TAKE x \in Addr
    <3>1. CASE x = b
      BY <1>3, <2>2, <2>3, <3>1 DEF Released, HeapType
    <3>2. CASE x # b
      BY <1>3, <2>2, <2>3, <3>2 DEF Released, HeapType
    <3>. QED
      BY <3>1, <3>2
  <2>9. InList(h, l) # {}
    BY <2>1 DEF Released
  <2>. QED
    BY <2>3, <2>4, <2>7, <2>8, <2>9 DEF Released
<1>. QED
  BY <1>7, <1>8

\* The loop empties the list, and returns its blocks and no others to the pool.
LEMMA ReleaseEmpties ==
    ASSUME NEW h, NEW F, Whole(h, F, {}), NEW l \in Mlst
    PROVE  LET g == release(h, l) IN
           /\ \E G : Whole(g, G, {})
           /\ \A x \in Addr : g.p_mlst[x] = IF h.p_mlst[x] = l THEN NULL ELSE h.p_mlst[x]
           /\ InList(h, l) = {} => g = h
<1>. DEFINE N == Cardinality(Addr)
            Steps(f, k) == f = [j \in 0 .. k |-> IF j = 0 THEN h ELSE release_first(f[j - 1], l)]
            T == {k \in 0 .. N : ~ \E f : Steps(f, k)}
<1>1. N \in Nat /\ h \in HeapType /\ NULL # l
  BY AddrFinite, HeadsIn, MemoryNamesAssumption
<1>. HIDE DEF N
<1>2. T = {}
  <2>. SUFFICES ASSUME T # {} PROVE FALSE
    OBVIOUS
  <2>1. T \in SUBSET Nat
    BY <1>1
  <2>2. PICK m \in T : \A k \in T : m <= k
    <3>. HIDE DEF T
    <3>. QED
      BY <2>1, LeastNat
  <2>3. m # 0
    <3>1. Steps([j \in 0 .. 0 |-> h], 0)
      OBVIOUS
    <3>. HIDE DEF Steps
    <3>. QED
      BY <3>1
  <2>4. m \in 0 .. N /\ m - 1 \in 0 .. N /\ ~(m <= m - 1)
    BY <1>1, <2>3
  <2>5. PICK f : Steps(f, m - 1)
    BY <2>2, <2>4
  <2>. DEFINE w == [j \in 0 .. m |-> IF j = m THEN release_first(f[m - 1], l) ELSE f[j]]
  <2>6. Steps(w, m)
    <3>. SUFFICES ASSUME NEW j \in 0 .. m
                  PROVE  w[j] = IF j = 0 THEN h ELSE release_first(w[j - 1], l)
      OBVIOUS
    <3>1. CASE j = m
      BY <2>3, <2>4, <3>1
    <3>2. CASE j # m
      <4>1. j \in 0 .. (m - 1) /\ (j # 0 => j - 1 \in 0 .. m /\ j - 1 # m)
        BY <2>4, <3>2
      <4>2. f[j] = IF j = 0 THEN h ELSE release_first(f[j - 1], l)
        BY <2>5, <4>1
      <4>. QED
        BY <3>2, <4>1, <4>2
    <3>. QED
      BY <3>1, <3>2
  <2>. HIDE DEF Steps, w
  <2>. QED
    BY <2>2, <2>6
<1>3. \E f : Steps(f, N)
  <2>1. N \in 0 .. N
    BY <1>1
  <2>. HIDE DEF Steps
  <2>. QED
    BY <1>2, <2>1
<1>. DEFINE after == CHOOSE f : Steps(f, N)
<1>4. Steps(after, N)
  <2>. HIDE DEF Steps
  <2>. QED
    BY <1>3
<1>5. release(h, l) = after[N]
  BY Zenon DEF release, N
<1>6. after[0] = h /\ \A k \in 0 .. N : k # 0 => after[k] = release_first(after[k - 1], l)
  <2>. HIDE DEF after
  <2>. QED
    BY <1>1, <1>4
<1>. HIDE DEF after
<1>. DEFINE Bad == {k \in 0 .. N : ~Released(h, after[k], l, k)}
<1>7. Bad = {}
  <2>. SUFFICES ASSUME Bad # {} PROVE FALSE
    OBVIOUS
  <2>1. Bad \in SUBSET Nat
    BY <1>1
  <2>2. PICK m \in Bad : \A k \in Bad : m <= k
    <3>. HIDE DEF Bad
    <3>. QED
      BY <2>1, LeastNat
  <2>3. m # 0
    <3>1. InList(h, l) \subseteq Addr
      BY DEF InList
    <3>2. Cardinality(InList(h, l)) <= N - 0
      BY <1>1, <3>1, AddrFinite, FS_Subset DEF N
    <3>3. Released(h, h, l, 0)
      BY <3>2 DEF Released, N
    <3>. QED
      BY <1>6, <3>3
  <2>4. m \in 0 .. N /\ m - 1 \in 0 .. (N - 1) /\ ~(m <= m - 1) /\ (m - 1) + 1 = m
    BY <1>1, <2>3
  <2>5. Released(h, after[m - 1], l, m - 1)
    BY <1>1, <2>2, <2>4
  <2>6. Released(h, release_first(after[m - 1], l), l, (m - 1) + 1)
    BY <2>4, <2>5, ReleaseFirst DEF N
  <2>. QED
    BY <1>6, <2>2, <2>3, <2>4, <2>6
<1>8. Released(h, release(h, l), l, N)
  BY <1>1, <1>5, <1>7
<1>. DEFINE g == release(h, l)
<1>9. InList(g, l) = {}
  <2>. HIDE DEF g
  <2>1. Cardinality(InList(g, l)) <= 0
    BY <1>1, <1>8 DEF Released, N, g
  <2>2. IsFiniteSet(InList(g, l)) /\ Cardinality(InList(g, l)) \in Nat
    BY AddrFinite, FS_Subset, FS_CardinalityType DEF InList
  <2>3. Cardinality(InList(g, l)) = 0
    BY <2>1, <2>2
  <2>. QED
    BY <2>2, <2>3, FS_EmptySet
<1>. QED
  BY <1>8, <1>9 DEF Released, InList

-----------------------------------------------------------------------------
(* What the blocks are used for *)

Live(kd, st, t) == IF t \in StaticThread THEN t \in st ELSE kd[t] = "thread"

\* The lists p of the blocks, their uses kd, their partners pt and the static
\* threads st agree: a block in use is in the list of its live owner or of the
\* kernel, and a control block has the block it remembers to itself.
UsesOK(p, kd, pt, st) ==
    /\ kd \in [Addr -> Kind] /\ pt \in [Addr -> Addr \cup {NULL}] /\ st \subseteq StaticThread
    /\ \A b \in Addr : kd[b] = "none" <=> p[b] = NULL
    /\ \A b \in Addr : kd[b] = "memory" => /\ p[b] \in Addr \cup StaticThread
                                           /\ Live(kd, st, p[b])
    /\ \A b \in Addr : kd[b] \notin {"none", "memory"} => p[b] = g_mlst
    /\ \A t \in Addr : kd[t] = "thread" => pt[t] \in Addr /\ kd[pt[t]] = "stack"
    /\ \A q \in Addr : kd[q] = "queue" => pt[q] \in Addr /\ kd[pt[q]] = "buffer"
    /\ \A x, y \in Addr : kd[x] \in {"thread", "queue"} /\ kd[y] \in {"thread", "queue"}
                             /\ pt[x] = pt[y] => x = y

\* A block that nobody uses becomes memory of a live thread or an object.
LEMMA UsesTake ==
    ASSUME NEW p \in [Addr -> Mlst \cup {NULL}], NEW kd, NEW pt, NEW st, UsesOK(p, kd, pt, st),
           NEW b \in Addr, p[b] = NULL, NEW l, NEW k,
           \/ k = "memory" /\ l \in Addr \cup StaticThread /\ Live(kd, st, l)
           \/ k = "object" /\ l = g_mlst
    PROVE  UsesOK([p EXCEPT ![b] = l], [kd EXCEPT ![b] = k], pt, st)
<1>. DEFINE p2 == [p EXCEPT ![b] = l]
            kd2 == [kd EXCEPT ![b] = k]
<1>1. /\ NULL \notin Mlst /\ g_mlst \notin Addr \cup StaticThread /\ g_mlst \in Mlst
      /\ Addr \subseteq Mlst /\ StaticThread \subseteq Mlst
  BY MemoryNamesAssumption DEF Mlst
<1>2. kd[b] = "none" /\ k \in Kind /\ l # NULL /\ k # "none"
  BY <1>1 DEF UsesOK, Kind
<1>3. /\ kd2 \in [Addr -> Kind] /\ kd2[b] = k /\ p2[b] = l
      /\ \A x \in Addr \ {b} : kd2[x] = kd[x] /\ p2[x] = p[x]
  BY <1>2 DEF UsesOK
<1>. HIDE DEF p2, kd2
<1>4. \A t \in Addr \cup StaticThread : Live(kd, st, t) => Live(kd2, st, t)
  BY <1>2, <1>3 DEF Live
<1>5. \A x \in Addr : kd2[x] = "memory" => /\ p2[x] \in Addr \cup StaticThread
                                           /\ Live(kd2, st, p2[x])
  BY <1>2, <1>3, <1>4 DEF UsesOK
<1>6. \A x \in Addr : kd2[x] \notin {"none", "memory"} => p2[x] = g_mlst
  BY <1>2, <1>3 DEF UsesOK
<1>7. \A x \in Addr : kd2[x] = "none" <=> p2[x] = NULL
  BY <1>2, <1>3 DEF UsesOK
<1>8. \A x \in Addr : kd[x] \in {"thread", "queue", "stack", "buffer"} => x # b
  BY <1>2
<1>9. \A x \in Addr : kd2[x] \in {"thread", "queue"} => x # b /\ kd[x] = kd2[x]
  BY <1>2, <1>3
<1>10. \A t \in Addr : kd2[t] = "thread" => pt[t] \in Addr /\ kd2[pt[t]] = "stack"
  BY <1>3, <1>8, <1>9 DEF UsesOK
<1>11. \A t \in Addr : kd2[t] = "queue" => pt[t] \in Addr /\ kd2[pt[t]] = "buffer"
  BY <1>3, <1>8, <1>9 DEF UsesOK
<1>12. \A x, y \in Addr : kd2[x] \in {"thread", "queue"} /\ kd2[y] \in {"thread", "queue"}
                             /\ pt[x] = pt[y] => x = y
  BY <1>9 DEF UsesOK
<1>. QED
  BY <1>3, <1>5, <1>6, <1>7, <1>10, <1>11, <1>12 DEF UsesOK, p2, kd2

\* Two blocks that nobody uses become a control block and its partner.
LEMMA UsesPair ==
    ASSUME NEW p \in [Addr -> Mlst \cup {NULL}], NEW kd, NEW pt, NEW st, UsesOK(p, kd, pt, st),
           NEW c \in Addr, NEW d \in Addr, c # d, p[c] = NULL, p[d] = NULL,
           NEW p2 \in [Addr -> Mlst \cup {NULL}], p2[c] = g_mlst, p2[d] = g_mlst,
           \A x \in Addr \ {c, d} : p2[x] = p[x],
           NEW kd2 \in [Addr -> Kind],
           \/ kd2[c] = "thread" /\ kd2[d] = "stack"
           \/ kd2[c] = "queue" /\ kd2[d] = "buffer",
           \A x \in Addr \ {c, d} : kd2[x] = kd[x]
    PROVE  UsesOK(p2, kd2, [pt EXCEPT ![c] = d], st)
<1>. DEFINE pt2 == [pt EXCEPT ![c] = d]
<1>1. /\ NULL # g_mlst /\ g_mlst \notin Addr \cup StaticThread
  BY MemoryNamesAssumption DEF Mlst
<1>2. kd[c] = "none" /\ kd[d] = "none"
  BY DEF UsesOK
<1>3. /\ pt2 \in [Addr -> Addr \cup {NULL}] /\ pt2[c] = d
      /\ \A x \in Addr \ {c} : pt2[x] = pt[x]
  BY DEF UsesOK
<1>. HIDE DEF pt2
<1>4. \A t \in Addr \cup StaticThread : Live(kd, st, t) => Live(kd2, st, t)
  BY <1>2 DEF Live
<1>5. \A x \in Addr : kd2[x] = "memory" => /\ p2[x] \in Addr \cup StaticThread
                                           /\ Live(kd2, st, p2[x])
  BY <1>2, <1>4 DEF UsesOK
<1>6. \A x \in Addr : kd2[x] \notin {"none", "memory"} => p2[x] = g_mlst
  BY <1>2 DEF UsesOK
<1>7. \A x \in Addr : kd2[x] = "none" <=> p2[x] = NULL
  BY <1>1, <1>2 DEF UsesOK
<1>8. \A x \in Addr : kd[x] \in {"thread", "queue", "stack", "buffer"} => kd2[x] = kd[x]
  BY <1>2
<1>9. \A x \in Addr : kd2[x] \in {"thread", "queue"} /\ x # c
                      => kd[x] = kd2[x] /\ pt2[x] = pt[x] /\ pt[x] \in Addr /\ pt[x] # d
  BY <1>2, <1>3 DEF UsesOK
<1>10. \A t \in Addr : kd2[t] = "thread" => pt2[t] \in Addr /\ kd2[pt2[t]] = "stack"
  BY <1>3, <1>8, <1>9 DEF UsesOK
<1>11. \A t \in Addr : kd2[t] = "queue" => pt2[t] \in Addr /\ kd2[pt2[t]] = "buffer"
  BY <1>3, <1>8, <1>9 DEF UsesOK
<1>12. \A x, y \in Addr : kd2[x] \in {"thread", "queue"} /\ kd2[y] \in {"thread", "queue"}
                             /\ pt2[x] = pt2[y] => x = y
  <2>. SUFFICES ASSUME NEW x \in Addr, NEW y \in Addr,
                       kd2[x] \in {"thread", "queue"}, kd2[y] \in {"thread", "queue"},
                       pt2[x] = pt2[y]
                PROVE  x = y
    OBVIOUS
  <2>1. CASE x = c \/ y = c
    BY <1>3, <1>9, <2>1
  <2>2. CASE x # c /\ y # c
    BY <1>9, <2>2 DEF UsesOK
  <2>. QED
    BY <2>1, <2>2
<1>. QED
  BY <1>3, <1>5, <1>6, <1>7, <1>10, <1>11, <1>12 DEF UsesOK, pt2

\* The blocks R are given back, and those in L are lost.  With the block of a
\* thread or a queue goes its partner, or it is lost, and with a thread its
\* memory.
GivenBack(R, L, p, kd, pt, st, p2, kd2, pt2, st2) ==
    /\ R \subseteq Addr /\ L \subseteq Addr \ R /\ st2 \subseteq st
    /\ p2 \in [Addr -> Mlst \cup {NULL}] /\ kd2 \in [Addr -> Kind]
    /\ pt2 \in [Addr -> Addr \cup {NULL}]
    /\ \A x \in Addr : p2[x] = IF x \in R THEN NULL ELSE p[x]
    /\ \A x \in Addr : kd2[x] = IF x \in R THEN "none" ELSE IF x \in L THEN "lost" ELSE kd[x]
    /\ \A x \in Addr \ R : pt2[x] = pt[x]
    /\ \A x \in L : kd[x] = "buffer"
    /\ \A x \in Addr \ R : kd[x] = "memory" => p[x] \notin R \cup (st \ st2)
    /\ \A x \in Addr \ R : kd[x] \in {"thread", "queue"} => pt[x] \notin R \cup L

LEMMA UsesGive ==
    ASSUME NEW R, NEW L, NEW p, NEW kd, NEW pt, NEW st, NEW p2, NEW kd2, NEW pt2, NEW st2,
           UsesOK(p, kd, pt, st), GivenBack(R, L, p, kd, pt, st, p2, kd2, pt2, st2)
    PROVE  UsesOK(p2, kd2, pt2, st2)
<1>. USE DEF GivenBack
<1>1. /\ NULL # g_mlst /\ NULL \notin Addr \cup StaticThread
      /\ g_mlst \notin Addr \cup StaticThread /\ Addr \cap StaticThread = {}
  BY MemoryNamesAssumption DEF Mlst
<1>2. \A x \in Addr : kd2[x] = "memory" => /\ p2[x] \in Addr \cup StaticThread
                                           /\ Live(kd2, st2, p2[x])
  <2>. SUFFICES ASSUME NEW x \in Addr, kd2[x] = "memory"
                PROVE  p2[x] \in Addr \cup StaticThread /\ Live(kd2, st2, p2[x])
    OBVIOUS
  <2>1. /\ x \notin R /\ kd[x] = "memory" /\ p2[x] = p[x]
        /\ p[x] \in Addr \cup StaticThread /\ Live(kd, st, p[x])
        /\ p[x] \notin R /\ ~(p[x] \in st /\ p[x] \notin st2)
    BY DEF UsesOK
  <2>2. CASE p[x] \in StaticThread
    BY <2>1, <2>2 DEF Live
  <2>3. CASE p[x] \notin StaticThread
    BY <2>1, <2>3 DEF Live
  <2>. QED
    BY <2>2, <2>3
<1>3. \A x \in Addr : kd2[x] \notin {"none", "memory"} => p2[x] = g_mlst
  BY DEF UsesOK
<1>4. \A x \in Addr : kd2[x] = "none" <=> p2[x] = NULL
  BY DEF UsesOK
<1>5. \A x \in Addr : kd2[x] \in {"thread", "queue"}
                      => /\ x \notin R /\ kd[x] = kd2[x] /\ pt2[x] = pt[x]
                         /\ pt[x] \notin R \cup L
  OBVIOUS
<1>6. \A t \in Addr : kd2[t] = "thread" => pt2[t] \in Addr /\ kd2[pt2[t]] = "stack"
  BY <1>5 DEF UsesOK
<1>7. \A t \in Addr : kd2[t] = "queue" => pt2[t] \in Addr /\ kd2[pt2[t]] = "buffer"
  BY <1>5 DEF UsesOK
<1>8. \A x, y \in Addr : kd2[x] \in {"thread", "queue"} /\ kd2[y] \in {"thread", "queue"}
                            /\ pt2[x] = pt2[y] => x = y
  BY <1>5 DEF UsesOK
<1>9. st2 \subseteq StaticThread
  BY DEF UsesOK
<1>. QED
  BY <1>2, <1>3, <1>4, <1>6, <1>7, <1>8, <1>9 DEF UsesOK

-----------------------------------------------------------------------------
(* The invariant *)

MemInv ==
    /\ \E F : Whole(heap, F, {})
    /\ UsesOK(heap.p_mlst, kind, part, statics)

\* No two free blocks meet after the step that did not meet before it.
NoNewFragment ==
    \E F, G : Whole(heap, F, {}) /\ Whole(heap', G, {}) /\ Fewer(heap, F, heap', G)

LEMMA SameHeap ==
    ASSUME MemInv, heap' = heap
    PROVE  NoNewFragment
<1>1. PICK F : Whole(heap, F, {})
  BY DEF MemInv
<1>2. Cardinality(Frag(heap, F)) \in Nat
  BY <1>1, HeadsIn, FragFinite
<1>3. Fewer(heap, F, heap, F)
  BY <1>2 DEF Fewer
<1>. QED
  BY <1>1, <1>3 DEF NoNewFragment

LEMMA FewerStill ==
    ASSUME NEW h, NEW F, Whole(h, F, {}), NEW g, NEW G, Whole(g, G, {}),
           NEW k, NEW K, Whole(k, K, {}), Fewer(h, F, g, G), Fewer(g, G, k, K)
    PROVE  Fewer(h, F, k, K)
<1>1. F \subseteq Addr /\ G \subseteq Addr /\ K \subseteq Addr
  BY HeadsIn
<1>2. /\ Cardinality(Frag(h, F)) \in Nat /\ Cardinality(Frag(g, G)) \in Nat
      /\ Cardinality(Frag(k, K)) \in Nat
  BY <1>1, FragFinite
<1>. QED
  BY <1>2 DEF Fewer

LEMMA RequestSizes == Requests \cup {ThdSize, ObjSize, PtrSize} \subseteq Nat
BY MemoryAssumption

LEMMA InvTypes ==
    ASSUME NEW h, NEW F, Whole(h, F, {})
    PROVE  /\ h.p_mlst \in [Addr -> Mlst \cup {NULL}] /\ F \subseteq Addr
           /\ \A b \in F : h.p_mlst[b] = NULL
<1>1. h \in HeapType /\ F \subseteq Addr /\ \A b \in F : h.p_mlst[b] = NULL
  BY HeadsIn
<1>. QED
  BY <1>1 DEF HeapType

LEMMA InitHeap ==
    LET g == mpool_insert(mblk_init(mlst_init(mpool_init(RawHeap), g_mlst), 0, PoolSize), 0) IN
    /\ Whole(g, {0}, {})
    /\ g.p_mlst = [b \in Addr |-> NULL]
<1>. DEFINE h0 == mlst_init(mpool_init(RawHeap), g_mlst)
            h1 == mblk_init(h0, 0, PoolSize)
            g == mpool_insert(h1, 0)
<1>1. /\ NULL \notin Mlst /\ g_mlst \in Mlst /\ NULL \notin Addr
      /\ PoolSize \in Nat \ {0} /\ MBLK_SMALLEST_SIZE <= PoolSize
  BY Sizes, MemoryNamesAssumption DEF Mlst
<1>2. 0 \in Addr
  <2>1. 0 \in 0 .. (PoolSize - 1) /\ 0 % MemAlign = 0
    BY <1>1, MemoryAssumption
  <2>. QED
    BY <2>1 DEF Addr
<1>3. /\ h0 \in HeapType /\ h0.p_mlst = [b \in Addr |-> NULL]
      /\ h0.head = NULL /\ h0.alloc_head = NULL /\ \A l \in Mlst : h0.mlst[l] = NULL
  <2>1. /\ RawHeap \in HeapType /\ RawHeap.p_mlst = [b \in Addr |-> NULL]
        /\ RawHeap.mlst = [l \in Mlst |-> NULL]
    <3>1. 0 \in 0 .. PoolSize
      BY <1>1
    <3>2. /\ [b \in Addr |-> b] \in [Addr -> Addr] /\ [b \in Addr |-> 0] \in [Addr -> 0 .. PoolSize]
          /\ [b \in Addr |-> NULL] \in [Addr -> Mlst \cup {NULL}]
          /\ [l \in Mlst |-> NULL] \in [Mlst -> Addr \cup {NULL}]
      BY <3>1
    <3>. QED
      BY <3>2 DEF RawHeap, HeapType
  <2>2. /\ mpool_init(RawHeap) \in HeapType
        /\ mpool_init(RawHeap).p_mlst = [b \in Addr |-> NULL]
        /\ mpool_init(RawHeap).mlst = [l \in Mlst |-> NULL]
        /\ mpool_init(RawHeap).head = NULL /\ mpool_init(RawHeap).alloc_head = NULL
    BY <2>1 DEF mpool_init, HeapType
  <2>3. /\ h0 \in HeapType /\ h0.p_mlst = [b \in Addr |-> NULL]
        /\ h0.mlst = [l \in Mlst |-> NULL] /\ h0.head = NULL /\ h0.alloc_head = NULL
    BY <1>1, <2>2 DEF mlst_init, HeapType
  <2>. QED
    BY <2>3
<1>. HIDE DEF h0
<1>4. Links(h0, {}, {})
  <2>1. Queue(<<>>, Addr) /\ Range(<<>>) = {} /\ Chain(h0, <<>>) /\ Increasing(<<>>)
    BY DEF Queue, Range, IsInjective, Chain, Increasing
  <2>2. \A l \in Mlst : InList(h0, l) = {}
    BY <1>1, <1>3 DEF InList
  <2>3. PoolLinked(h0, {})
    BY <1>3, <2>1 DEF PoolLinked, ListAt
  <2>4. MlstsLinked(h0)
    BY <1>3, <2>1, <2>2 DEF MlstsLinked, ListAt
  <2>. QED
    BY <1>3, <2>3, <2>4 DEF Links
<1>5. /\ Links(h1, {}, {} \cup {0})
      /\ h1.size = [h0.size EXCEPT ![0] = PoolSize]
      /\ h1.p_mlst = h0.p_mlst
  BY <1>1, <1>2, <1>3, <1>4, MblkInit
<1>. HIDE DEF h1
<1>6. Links(g, {} \cup {0}, ({} \cup {0}) \ {0}) /\ SameBlocks(h1, g)
  BY <1>5, PoolInsert
<1>. HIDE DEF g
<1>7. {} \cup {0} = {0} /\ ({} \cup {0}) \ {0} = {}
  OBVIOUS
<1>8. Links(g, {0}, {}) /\ g.p_mlst = [b \in Addr |-> NULL] /\ g.size[0] = PoolSize
  BY <1>2, <1>3, <1>5, <1>6, <1>7 DEF SameBlocks, HeapType
<1>9. Heads(g, {0}, {}) = {0}
  BY <1>8 DEF Heads, InUse
<1>10. Tiles(g, {0})
  BY <1>1, <1>2, <1>8 DEF Tiles
<1>. QED
  BY <1>8, <1>9, <1>10 DEF Whole, g, h1, h0

LEMMA InitMemInv == MemInit => MemInv
<1>. SUFFICES ASSUME MemInit PROVE MemInv
  OBVIOUS
<1>1. /\ heap = mpool_insert(mblk_init(mlst_init(mpool_init(RawHeap), g_mlst), 0, PoolSize), 0)
      /\ kind = [b \in Addr |-> "none"] /\ part = [b \in Addr |-> NULL] /\ statics = {}
  BY DEF MemInit
<1>2. Whole(heap, {0}, {}) /\ heap.p_mlst = [b \in Addr |-> NULL]
  BY <1>1, InitHeap
<1>3. UsesOK(heap.p_mlst, kind, part, statics)
  BY <1>1, <1>2 DEF UsesOK, Kind
<1>. QED
  BY <1>2, <1>3 DEF MemInv

LEMMA AllocateInv ==
    ASSUME MemInv, NEW t \in Addr \cup StaticThread, NEW size \in Requests,
           os_memory_allocate(t, size)
    PROVE  MemInv' /\ NoNewFragment
<1>. DEFINE a == mpool_alloc(heap, size, t)
<1>1. /\ Live(kind, statics, t) /\ heap' = a.heap
      /\ kind' = IF a.block = NULL THEN kind ELSE [kind EXCEPT ![a.block] = "memory"]
      /\ part' = part /\ statics' = statics
  BY DEF os_memory_allocate, LiveThread, Live
<1>2. PICK F : Whole(heap, F, {})
  BY DEF MemInv
<1>3. t \in Mlst /\ size \in Nat
  BY RequestSizes DEF Mlst
<1>4. Allocated(heap, a, F, size, t)
  BY <1>2, <1>3, Alloc
<1>. HIDE DEF a
<1>5. heap.p_mlst \in [Addr -> Mlst \cup {NULL}] /\ F \subseteq Addr
      /\ \A b \in F : heap.p_mlst[b] = NULL
  BY <1>2, InvTypes
<1>6. CASE a.block = NULL
  BY <1>1, <1>4, <1>6, SameHeap DEF Allocated, MemInv
<1>7. CASE a.block # NULL
  <2>1. /\ a.block \in Addr /\ heap.p_mlst[a.block] = NULL
        /\ \E G : Whole(heap', G, {}) /\ Fewer(heap, F, heap', G)
        /\ heap'.p_mlst = [heap.p_mlst EXCEPT ![a.block] = t]
    BY <1>1, <1>4, <1>5, <1>7 DEF Allocated
  <2>2. UsesOK([heap.p_mlst EXCEPT ![a.block] = t],
               [kind EXCEPT ![a.block] = "memory"], part, statics)
    BY <1>1, <1>5, <2>1, UsesTake DEF MemInv
  <2>. QED
    BY <1>1, <1>2, <1>7, <2>1, <2>2 DEF MemInv, NoNewFragment
<1>. QED
  BY <1>6, <1>7

LEMMA ObjectCreateInv ==
    ASSUME MemInv, object_create
    PROVE  MemInv' /\ NoNewFragment
<1>. DEFINE a == mpool_alloc(heap, ObjSize, g_mlst)
<1>1. /\ heap' = a.heap
      /\ kind' = IF a.block = NULL THEN kind ELSE [kind EXCEPT ![a.block] = "object"]
      /\ part' = part /\ statics' = statics
  BY DEF object_create
<1>2. PICK F : Whole(heap, F, {})
  BY DEF MemInv
<1>3. g_mlst \in Mlst /\ ObjSize \in Nat
  BY RequestSizes DEF Mlst
<1>4. Allocated(heap, a, F, ObjSize, g_mlst)
  BY <1>2, <1>3, Alloc
<1>. HIDE DEF a
<1>5. heap.p_mlst \in [Addr -> Mlst \cup {NULL}] /\ F \subseteq Addr
      /\ \A b \in F : heap.p_mlst[b] = NULL
  BY <1>2, InvTypes
<1>6. CASE a.block = NULL
  BY <1>1, <1>4, <1>6, SameHeap DEF Allocated, MemInv
<1>7. CASE a.block # NULL
  <2>1. /\ a.block \in Addr /\ heap.p_mlst[a.block] = NULL
        /\ \E G : Whole(heap', G, {}) /\ Fewer(heap, F, heap', G)
        /\ heap'.p_mlst = [heap.p_mlst EXCEPT ![a.block] = g_mlst]
    BY <1>1, <1>4, <1>5, <1>7 DEF Allocated
  <2>2. UsesOK([heap.p_mlst EXCEPT ![a.block] = g_mlst],
               [kind EXCEPT ![a.block] = "object"], part, statics)
    BY <1>5, <2>1, UsesTake DEF MemInv
  <2>. QED
    BY <1>1, <1>2, <1>7, <2>1, <2>2 DEF MemInv, NoNewFragment
<1>. QED
  BY <1>6, <1>7

\* Who waits for a block that is given back has no trace of it.
LEMMA FreeInv ==
    ASSUME MemInv, NEW b \in Addr, kind[b] \in {"memory", "object"},
           heap' = mpool_free(heap, b), kind' = [kind EXCEPT ![b] = "none"],
           UNCHANGED <<part, statics>>
    PROVE  MemInv' /\ NoNewFragment
<1>. DEFINE R == {b}
            L == {}
            p == heap.p_mlst
            p2 == [p EXCEPT ![b] = NULL]
            kd2 == [kind EXCEPT ![b] = "none"]
<1>1. PICK F : Whole(heap, F, {})
  BY DEF MemInv
<1>2. p \in [Addr -> Mlst \cup {NULL}]
  BY <1>1, InvTypes
<1>3. UsesOK(p, kind, part, statics)
  BY DEF MemInv
<1>4. p[b] # NULL
  BY <1>3 DEF UsesOK
<1>5. /\ \E G : Whole(heap', G, {}) /\ Fewer(heap, F, heap', G)
      /\ heap'.p_mlst = p2
  BY <1>1, <1>4, Freed
<1>6. /\ p2 \in [Addr -> Mlst \cup {NULL}] /\ kd2 \in [Addr -> Kind]
      /\ part \in [Addr -> Addr \cup {NULL}]
      /\ R \in SUBSET Addr /\ L \in SUBSET (Addr \ R) /\ statics \in SUBSET statics
  BY <1>2, <1>3 DEF UsesOK, Kind
<1>7. /\ \A x \in Addr : p2[x] = IF x \in R THEN NULL ELSE p[x]
      /\ \A x \in Addr : kd2[x] = IF x \in R THEN "none" ELSE IF x \in L THEN "lost" ELSE kind[x]
      /\ \A x \in L : kind[x] = "buffer"
  BY <1>2, <1>3 DEF UsesOK
<1>8. \A x \in Addr \ R : kind[x] = "memory" => p[x] \notin R \cup (statics \ statics)
  BY <1>3, MemoryNamesAssumption DEF UsesOK, Live
<1>9. \A x \in Addr \ R : kind[x] \in {"thread", "queue"} => part[x] \notin R \cup L
  BY <1>3 DEF UsesOK
<1>. HIDE DEF R, L, p, p2, kd2
<1>10. GivenBack(R, L, p, kind, part, statics, p2, kd2, part, statics)
  BY <1>6, <1>7, <1>8, <1>9 DEF GivenBack
<1>11. UsesOK(p2, kd2, part, statics)
  BY <1>3, <1>10, UsesGive
<1>. QED
  BY <1>1, <1>5, <1>11 DEF MemInv, NoNewFragment, kd2

LEMMA PairInv ==
    ASSUME MemInv, NEW size1 \in Nat, NEW size2 \in Nat, NEW use1, NEW use2,
           \/ use1 = "stack" /\ use2 = "thread"
           \/ use1 = "queue" /\ use2 = "buffer",
           create_pair(size1, size2, use1, use2), UNCHANGED statics
    PROVE  MemInv' /\ NoNewFragment
<1>. DEFINE a == mpool_alloc(heap, size1, g_mlst)
            b == mpool_alloc(a.heap, size2, g_mlst)
            p == heap.p_mlst
<1>1. IF a.block = NULL \/ b.block = NULL
      THEN /\ heap' = IF a.block = NULL THEN heap ELSE mpool_free(a.heap, a.block)
           /\ kind' = kind /\ part' = part
      ELSE /\ heap' = b.heap
           /\ kind' = [kind EXCEPT ![a.block] = use1, ![b.block] = use2]
           /\ part' = IF use1 = "stack" THEN [part EXCEPT ![b.block] = a.block]
                                        ELSE [part EXCEPT ![a.block] = b.block]
  BY DEF create_pair
<1>2. PICK F : Whole(heap, F, {})
  BY DEF MemInv
<1>3. g_mlst \in Mlst /\ g_mlst # NULL /\ NULL \notin Addr
  BY MemoryNamesAssumption DEF Mlst
<1>4. Allocated(heap, a, F, size1, g_mlst)
  BY <1>2, <1>3, Alloc
<1>5. p \in [Addr -> Mlst \cup {NULL}] /\ F \subseteq Addr /\ \A x \in F : p[x] = NULL
  BY <1>2, InvTypes
<1>6. UsesOK(p, kind, part, statics)
  BY DEF MemInv
<1>. HIDE DEF a, p
<1>7. CASE a.block = NULL
  <2>1. heap' = heap /\ kind' = kind /\ part' = part
    BY <1>1, <1>7
  <2>. QED
    BY <2>1, <1>2, <1>6, SameHeap DEF MemInv, p
<1>8. CASE a.block # NULL
  <2>1. /\ a.block \in Addr /\ p[a.block] = NULL
        /\ a.heap.p_mlst = [p EXCEPT ![a.block] = g_mlst]
    BY <1>4, <1>5, <1>8 DEF Allocated, p
  <2>2. PICK G : Whole(a.heap, G, {}) /\ Fewer(heap, F, a.heap, G)
    BY <1>4, <1>8 DEF Allocated
  <2>3. Allocated(a.heap, b, G, size2, g_mlst)
    BY <1>3, <2>2, Alloc
  <2>4. /\ a.heap.p_mlst \in [Addr -> Mlst \cup {NULL}] /\ G \subseteq Addr
        /\ \A x \in G : a.heap.p_mlst[x] = NULL
    BY <2>2, InvTypes
  <2>. HIDE DEF b
  <2>5. CASE b.block = NULL
    <3>1. heap' = mpool_free(a.heap, a.block) /\ kind' = kind /\ part' = part
      BY <1>1, <1>8, <2>5
    <3>2. a.heap.p_mlst[a.block] # NULL
      BY <1>3, <1>5, <2>1
    <3>3. /\ \E K : Whole(heap', K, {}) /\ Fewer(a.heap, G, heap', K)
          /\ heap'.p_mlst = [a.heap.p_mlst EXCEPT ![a.block] = NULL]
      BY <2>1, <2>2, <3>1, <3>2, Freed
    <3>4. heap'.p_mlst = p
      BY <1>5, <2>1, <3>3
    <3>. QED
      <4>1. MemInv'
        BY <1>6, <3>1, <3>3, <3>4 DEF MemInv
      <4>2. NoNewFragment
        BY <1>2, <2>2, <3>3, FewerStill DEF NoNewFragment
      <4>. QED
        BY <4>1, <4>2
  <2>6. CASE b.block # NULL
    <3>1. /\ b.block \in G /\ b.heap.p_mlst = [a.heap.p_mlst EXCEPT ![b.block] = g_mlst]
          /\ \E K : Whole(b.heap, K, {}) /\ Fewer(a.heap, G, b.heap, K)
      BY <2>3, <2>6 DEF Allocated
    <3>2. /\ heap' = b.heap
          /\ kind' = [kind EXCEPT ![a.block] = use1, ![b.block] = use2]
          /\ part' = IF use1 = "stack" THEN [part EXCEPT ![b.block] = a.block]
                                       ELSE [part EXCEPT ![a.block] = b.block]
      BY <1>1, <1>8, <2>6
    <3>3. /\ b.block \in Addr /\ a.heap.p_mlst[b.block] = NULL
          /\ a.heap.p_mlst[a.block] = g_mlst
      BY <1>5, <2>1, <2>4, <3>1
    <3>4. b.block # a.block /\ p[b.block] = NULL
      BY <1>3, <1>5, <2>1, <3>3
    <3>. DEFINE p2 == heap'.p_mlst
    <3>5. /\ p2 \in [Addr -> Mlst \cup {NULL}] /\ p2[a.block] = g_mlst /\ p2[b.block] = g_mlst
          /\ \A x \in Addr \ {a.block, b.block} : p2[x] = p[x]
      <4>1. p2 = [[p EXCEPT ![a.block] = g_mlst] EXCEPT ![b.block] = g_mlst]
        BY <2>1, <3>1, <3>2
      <4>. HIDE DEF p2
      <4>. QED
        BY <1>3, <1>5, <2>1, <3>3, <3>4, <4>1
    <3>6. /\ kind' \in [Addr -> Kind] /\ kind'[a.block] = use1 /\ kind'[b.block] = use2
          /\ \A x \in Addr \ {a.block, b.block} : kind'[x] = kind[x]
      BY <1>6, <2>1, <3>2, <3>3, <3>4 DEF UsesOK, Kind
    <3>. HIDE DEF p2
    <3>7. UsesOK(p2, kind', part', statics)
      <4>1. CASE use1 = "stack" /\ use2 = "thread"
        <5>1. UsesOK(p2, kind', [part EXCEPT ![b.block] = a.block], statics)
          BY <1>5, <1>6, <2>1, <3>3, <3>4, <3>5, <3>6, <4>1, UsesPair
        <5>. QED
          BY <3>2, <4>1, <5>1
      <4>2. CASE use1 = "queue" /\ use2 = "buffer"
        <5>1. UsesOK(p2, kind', [part EXCEPT ![a.block] = b.block], statics)
          BY <1>5, <1>6, <2>1, <3>3, <3>4, <3>5, <3>6, <4>2, UsesPair
        <5>. QED
          BY <3>2, <4>2, <5>1
      <4>. QED
        BY <4>1, <4>2
    <3>. QED
      <4>1. MemInv'
        BY <3>1, <3>2, <3>7 DEF MemInv, p2
      <4>2. NoNewFragment
        BY <1>2, <2>2, <3>1, <3>2, FewerStill DEF NoNewFragment
      <4>. QED
        BY <4>1, <4>2
  <2>. QED
    BY <2>5, <2>6
<1>. QED
  BY <1>7, <1>8

LEMMA QueueDeleteInv ==
    ASSUME MemInv, NEW b \in Addr, os_queue_delete(b)
    PROVE  MemInv' /\ NoNewFragment
<1>. DEFINE R == {b}
            L == {part[b]}
            p == heap.p_mlst
            p2 == [p EXCEPT ![b] = NULL]
            kd2 == [kind EXCEPT ![b] = "none", ![part[b]] = "lost"]
            pt2 == [part EXCEPT ![b] = NULL]
<1>1. /\ kind[b] = "queue" /\ heap' = mpool_free(heap, b)
      /\ kind' = kd2 /\ part' = pt2 /\ statics' = statics
  BY DEF os_queue_delete
<1>2. PICK F : Whole(heap, F, {})
  BY DEF MemInv
<1>3. p \in [Addr -> Mlst \cup {NULL}] /\ UsesOK(p, kind, part, statics)
  BY <1>2, InvTypes DEF MemInv
<1>4. /\ p[b] # NULL /\ part[b] \in Addr /\ kind[part[b]] = "buffer" /\ part[b] # b
      /\ kind \in [Addr -> Kind] /\ part \in [Addr -> Addr \cup {NULL}]
  BY <1>1, <1>3 DEF UsesOK
<1>5. /\ \E G : Whole(heap', G, {}) /\ Fewer(heap, F, heap', G)
      /\ heap'.p_mlst = p2
  BY <1>1, <1>2, <1>4, Freed
<1>6. GivenBack(R, L, p, kind, part, statics, p2, kd2, pt2, statics)
  <2>1. /\ p2 \in [Addr -> Mlst \cup {NULL}] /\ kd2 \in [Addr -> Kind]
        /\ pt2 \in [Addr -> Addr \cup {NULL}]
        /\ R \subseteq Addr /\ L \subseteq Addr \ R
    BY <1>3, <1>4 DEF Kind
  <2>2. /\ \A x \in Addr : p2[x] = IF x \in R THEN NULL ELSE p[x]
        /\ \A x \in Addr : kd2[x] = IF x \in R THEN "none" ELSE IF x \in L THEN "lost" ELSE kind[x]
        /\ \A x \in Addr \ R : pt2[x] = part[x]
        /\ \A x \in L : kind[x] = "buffer"
    BY <1>3, <1>4
  <2>3. \A x \in Addr \ R : kind[x] = "memory" => p[x] \notin R \cup (statics \ statics)
    BY <1>1, <1>3, MemoryNamesAssumption DEF UsesOK, Live
  <2>4. \A x \in Addr \ R : kind[x] \in {"thread", "queue"} => part[x] \notin R \cup L
    BY <1>1, <1>3 DEF UsesOK
  <2>. HIDE DEF R, L, p, p2, kd2, pt2
  <2>. QED
    BY <2>1, <2>2, <2>3, <2>4 DEF GivenBack
<1>. HIDE DEF R, L, p, p2, kd2, pt2
<1>7. UsesOK(p2, kd2, pt2, statics)
  BY <1>3, <1>6, UsesGive
<1>. QED
  BY <1>1, <1>2, <1>5, <1>7 DEF MemInv, NoNewFragment

\* The blocks in the list of a thread are those it owns.
LEMMA OwnedIn ==
    ASSUME MemInv, NEW t \in Addr \cup StaticThread
    PROVE  /\ Owned(t) = InList(heap, t)
           /\ \A x \in Owned(t) : kind[x] = "memory" /\ Live(kind, statics, t)
<1>1. /\ g_mlst \notin Addr \cup StaticThread /\ NULL \notin Addr \cup StaticThread
  BY MemoryNamesAssumption DEF Mlst
<1>2. UsesOK(heap.p_mlst, kind, part, statics)
  BY DEF MemInv
<1>3. \A x \in Addr : heap.p_mlst[x] = t => kind[x] = "memory" /\ Live(kind, statics, t)
  BY <1>1, <1>2 DEF UsesOK
<1>. QED
  BY <1>3 DEF Owned, InList

LEMMA ThreadDeleteInv ==
    ASSUME MemInv, NEW t \in Addr, os_thread_delete(t)
    PROVE  MemInv' /\ (Owned(t) = {} => NoNewFragment)
<1>. DEFINE u == part[t]
            h1 == release(heap, t)
            h2 == mpool_free(h1, u)
            R == Owned(t) \cup {t, u}
            L == {}
            p == heap.p_mlst
            kd2 == [b \in Addr |-> IF b \in R THEN "none" ELSE kind[b]]
            pt2 == [part EXCEPT ![t] = NULL]
<1>1. /\ kind[t] = "thread" /\ heap' = mpool_free(h2, t)
      /\ kind' = kd2 /\ part' = pt2 /\ statics' = statics
  BY DEF os_thread_delete
<1>2. PICK F : Whole(heap, F, {})
  BY DEF MemInv
<1>3. p \in [Addr -> Mlst \cup {NULL}] /\ UsesOK(p, kind, part, statics)
  BY <1>2, InvTypes DEF MemInv
<1>4. /\ u \in Addr /\ kind[u] = "stack" /\ u # t /\ p[u] = g_mlst /\ p[t] = g_mlst
      /\ kind \in [Addr -> Kind] /\ part \in [Addr -> Addr \cup {NULL}]
  BY <1>1, <1>3 DEF UsesOK
<1>5. /\ g_mlst # NULL /\ t # g_mlst /\ t \in Mlst
      /\ Addr \cap StaticThread = {} /\ NULL \notin Addr
  BY MemoryNamesAssumption DEF Mlst
<1>6. Owned(t) = InList(heap, t) /\ \A x \in Owned(t) : kind[x] = "memory"
  BY OwnedIn
<1>7. PICK G : /\ Whole(h1, G, {})
               /\ \A x \in Addr : h1.p_mlst[x] = IF heap.p_mlst[x] = t THEN NULL ELSE heap.p_mlst[x]
               /\ InList(heap, t) = {} => h1 = heap
  BY <1>2, <1>5, ReleaseEmpties
<1>8. \A x \in Addr : h1.p_mlst[x] = IF x \in Owned(t) THEN NULL ELSE p[x]
  BY <1>6, <1>7 DEF InList
<1>9. h1.p_mlst \in [Addr -> Mlst \cup {NULL}] /\ h1.p_mlst[u] = g_mlst /\ h1.p_mlst[t] = g_mlst
  BY <1>4, <1>5, <1>7, InvTypes
<1>. HIDE DEF h1, p, u
<1>10. PICK K : Whole(h2, K, {}) /\ Fewer(h1, G, h2, K) /\ h2.p_mlst = [h1.p_mlst EXCEPT ![u] = NULL]
  BY <1>4, <1>5, <1>7, <1>9, Freed
<1>11. h2.p_mlst[t] = g_mlst
  BY <1>4, <1>9, <1>10
<1>. HIDE DEF h2
<1>12. /\ \E M : Whole(heap', M, {}) /\ Fewer(h2, K, heap', M)
       /\ heap'.p_mlst = [h2.p_mlst EXCEPT ![t] = NULL]
  BY <1>1, <1>5, <1>10, <1>11, Freed
<1>. DEFINE p2 == heap'.p_mlst
<1>13. /\ p2 \in [Addr -> Mlst \cup {NULL}]
       /\ \A x \in Addr : p2[x] = IF x \in R THEN NULL ELSE p[x]
  <2>1. p2 = [[h1.p_mlst EXCEPT ![u] = NULL] EXCEPT ![t] = NULL]
    BY <1>10, <1>12
  <2>. HIDE DEF p2
  <2>. QED
    BY <1>4, <1>8, <1>9, <2>1
<1>. HIDE DEF p2
<1>14. GivenBack(R, L, p, kind, part, statics, p2, kd2, pt2, statics)
  <2>1. /\ kd2 \in [Addr -> Kind] /\ pt2 \in [Addr -> Addr \cup {NULL}]
        /\ R \subseteq Addr /\ L \subseteq Addr \ R
    BY <1>4 DEF Kind, Owned
  <2>2. /\ \A x \in Addr : kd2[x] = IF x \in R THEN "none" ELSE IF x \in L THEN "lost" ELSE kind[x]
        /\ \A x \in Addr \ R : pt2[x] = part[x]
        /\ \A x \in L : kind[x] = "buffer"
    BY <1>4
  <2>3. \A x \in Addr \ R : kind[x] = "memory" => p[x] \notin R \cup (statics \ statics)
    <3>. SUFFICES ASSUME NEW x \in Addr \ R, kind[x] = "memory" PROVE p[x] \notin R
      OBVIOUS
    <3>1. p[x] # t
      BY <1>6 DEF InList, p
    <3>2. p[x] \in Addr => kind[p[x]] = "thread"
      BY <1>3, <1>5 DEF UsesOK, Live
    <3>. QED
      BY <1>4, <1>6, <3>1, <3>2 DEF Owned
  <2>4. \A x \in Addr \ R : kind[x] \in {"thread", "queue"} => part[x] \notin R \cup L
    BY <1>1, <1>3, <1>6 DEF UsesOK, u
  <2>. HIDE DEF R, L, kd2, pt2
  <2>. QED
    BY <1>13, <2>1, <2>2, <2>3, <2>4 DEF GivenBack
<1>. HIDE DEF R, L, kd2, pt2
<1>15. UsesOK(p2, kd2, pt2, statics)
  BY <1>3, <1>14, UsesGive
<1>16. ASSUME Owned(t) = {} PROVE NoNewFragment
  <2>1. h1 = heap
    BY <1>6, <1>7, <1>16
  <2>. QED
    BY <1>7, <1>10, <1>12, <2>1, FewerStill DEF NoNewFragment
<1>. QED
  BY <1>1, <1>12, <1>15, <1>16 DEF MemInv, p2

LEMMA StaticDeleteInv ==
    ASSUME MemInv, NEW t \in StaticThread, thd_delete_static(t)
    PROVE  MemInv' /\ (Owned(t) = {} => NoNewFragment)
<1>. DEFINE R == Owned(t)
            L == {}
            p == heap.p_mlst
            p2 == heap'.p_mlst
            kd2 == [b \in Addr |-> IF b \in R THEN "none" ELSE kind[b]]
            st2 == statics \ {t}
<1>1. /\ heap' = release(heap, t) /\ kind' = kd2 /\ part' = part /\ statics' = st2
  BY DEF thd_delete_static
<1>2. PICK F : Whole(heap, F, {})
  BY DEF MemInv
<1>3. p \in [Addr -> Mlst \cup {NULL}] /\ UsesOK(p, kind, part, statics)
  BY <1>2, InvTypes DEF MemInv
<1>4. t \in Mlst /\ Addr \cap StaticThread = {}
  BY MemoryNamesAssumption DEF Mlst
<1>5. R = InList(heap, t) /\ \A x \in R : kind[x] = "memory"
  BY OwnedIn
<1>6. PICK G : /\ Whole(heap', G, {})
               /\ \A x \in Addr : heap'.p_mlst[x] = IF heap.p_mlst[x] = t THEN NULL
                                                    ELSE heap.p_mlst[x]
               /\ InList(heap, t) = {} => heap' = heap
  BY <1>1, <1>2, <1>4, ReleaseEmpties
<1>7. p2 \in [Addr -> Mlst \cup {NULL}]
  BY <1>6, InvTypes
<1>8. GivenBack(R, L, p, kind, part, statics, p2, kd2, part, st2)
  <2>1. /\ kd2 \in [Addr -> Kind] /\ part \in [Addr -> Addr \cup {NULL}]
        /\ R \subseteq Addr /\ L \subseteq Addr \ R /\ st2 \subseteq statics
    BY <1>3 DEF Kind, Owned, UsesOK
  <2>2. /\ \A x \in Addr : p2[x] = IF x \in R THEN NULL ELSE p[x]
        /\ \A x \in Addr : kd2[x] = IF x \in R THEN "none" ELSE IF x \in L THEN "lost" ELSE kind[x]
        /\ \A x \in L : kind[x] = "buffer"
    BY <1>5, <1>6 DEF InList
  <2>3. \A x \in Addr \ R : kind[x] = "memory" => p[x] \notin R \cup (statics \ st2)
    <3>. SUFFICES ASSUME NEW x \in Addr \ R, kind[x] = "memory"
                  PROVE  p[x] \notin R /\ p[x] # t
      OBVIOUS
    <3>1. p[x] # t
      BY <1>5 DEF InList
    <3>2. p[x] \in Addr => kind[p[x]] = "thread"
      BY <1>3, <1>4 DEF UsesOK, Live
    <3>. QED
      BY <1>5, <3>1, <3>2 DEF Owned
  <2>4. \A x \in Addr \ R : kind[x] \in {"thread", "queue"} => part[x] \notin R \cup L
    BY <1>3, <1>5 DEF UsesOK
  <2>. HIDE DEF R, L, p, p2, kd2, st2
  <2>. QED
    BY <1>7, <2>1, <2>2, <2>3, <2>4 DEF GivenBack
<1>. HIDE DEF R, L, p, kd2, st2
<1>9. UsesOK(p2, kd2, part, st2)
  <2>. HIDE DEF p2
  <2>. QED
    BY <1>3, <1>8, UsesGive
<1>10. Owned(t) = {} => NoNewFragment
  BY <1>5, <1>6, SameHeap DEF R
<1>. QED
  BY <1>1, <1>6, <1>9, <1>10 DEF MemInv

\* The list of a thread that does not live is empty.
LEMMA StaticCreateInv ==
    ASSUME MemInv, NEW t \in StaticThread, thd_create_static(t)
    PROVE  MemInv' /\ NoNewFragment
<1>1. /\ t \notin statics /\ statics' = statics \cup {t}
      /\ heap' = mlst_init(heap, t) /\ kind' = kind /\ part' = part
  BY DEF thd_create_static
<1>2. PICK F : Whole(heap, F, {})
  BY DEF MemInv
<1>3. heap \in HeapType /\ t \in Mlst /\ Addr \cap StaticThread = {}
  BY <1>2, HeadsIn, MemoryNamesAssumption DEF Mlst
<1>4. heap.mlst[t] = NULL
  <2>1. PICK s : ListAt(heap, heap.mlst[t], s) /\ Range(s) = InList(heap, t)
    BY <1>2, <1>3 DEF Whole, Links, MlstsLinked
  <2>2. InList(heap, t) = {}
    BY <1>1, OwnedIn DEF Live
  <2>3. s = <<>>
    BY <2>1, <2>2, QueueHas DEF ListAt
  <2>. QED
    BY <2>1, <2>3 DEF ListAt
<1>5. mlst_init(heap, t) = heap
  BY <1>3, <1>4 DEF mlst_init, HeapType
<1>6. UsesOK(heap.p_mlst, kind, part, statics \cup {t})
  BY DEF MemInv, UsesOK, Live
<1>. QED
  BY <1>1, <1>2, <1>5, <1>6, SameHeap DEF MemInv

\* A thread that leaves memory behind is deleted.
Deletion ==
    \E t \in Addr \cup StaticThread : Owned(t) # {} /\ LiveThread(t) /\ ~LiveThread(t)'

LEMMA NextMemInv ==
    ASSUME MemInv, MemNext
    PROVE  MemInv' /\ (NoNewFragment \/ Deletion)
<1>1. ASSUME NEW size \in Requests, NEW t \in Addr \cup StaticThread, os_memory_allocate(t, size)
      PROVE  MemInv' /\ NoNewFragment
  BY <1>1, AllocateInv
<1>2. ASSUME NEW size \in Requests, os_thread_create(size)
      PROVE  MemInv' /\ NoNewFragment
  <2>1. size \in Nat /\ ThdSize \in Nat
    BY RequestSizes
  <2>2. create_pair(size, ThdSize, "stack", "thread") /\ UNCHANGED statics
    BY <1>2 DEF os_thread_create
  <2>. QED
    BY <2>1, <2>2, PairInv
<1>3. ASSUME NEW size \in Requests, os_queue_create(size)
      PROVE  MemInv' /\ NoNewFragment
  <2>1. size \in Nat /\ PtrSize \in Nat
    BY RequestSizes
  <2>2. create_pair(PtrSize, size, "queue", "buffer") /\ UNCHANGED statics
    BY <1>3 DEF os_queue_create
  <2>. QED
    BY <2>1, <2>2, PairInv
<1>4. CASE object_create
  BY <1>4, ObjectCreateInv
<1>5. ASSUME NEW b \in Addr, os_memory_free(b) \/ object_delete(b)
      PROVE  MemInv' /\ NoNewFragment
  <2>1. /\ kind[b] \in {"memory", "object"} /\ heap' = mpool_free(heap, b)
        /\ kind' = [kind EXCEPT ![b] = "none"] /\ UNCHANGED <<part, statics>>
    BY <1>5 DEF os_memory_free, object_delete
  <2>. QED
    BY <2>1, FreeInv
<1>6. ASSUME NEW b \in Addr, os_thread_delete(b)
      PROVE  MemInv' /\ (NoNewFragment \/ Deletion)
  <2>1. MemInv' /\ (Owned(b) = {} => NoNewFragment)
    BY <1>6, ThreadDeleteInv
  <2>2. b \notin StaticThread /\ kind[b] = "thread" /\ kind'[b] = "none"
    BY <1>6, MemoryNamesAssumption DEF os_thread_delete
  <2>3. LiveThread(b) /\ ~LiveThread(b)'
    BY <2>2 DEF LiveThread
  <2>. QED
    BY <2>1, <2>3 DEF Deletion
<1>7. ASSUME NEW b \in Addr, os_queue_delete(b)
      PROVE  MemInv' /\ NoNewFragment
  BY <1>7, QueueDeleteInv
<1>8. ASSUME NEW t \in StaticThread, thd_create_static(t)
      PROVE  MemInv' /\ NoNewFragment
  BY <1>8, StaticCreateInv
<1>9. ASSUME NEW t \in StaticThread, thd_delete_static(t)
      PROVE  MemInv' /\ (NoNewFragment \/ Deletion)
  <2>1. MemInv' /\ (Owned(t) = {} => NoNewFragment)
    BY <1>9, StaticDeleteInv
  <2>2. LiveThread(t) /\ ~LiveThread(t)'
    BY <1>9 DEF thd_delete_static, LiveThread
  <2>. QED
    BY <2>1, <2>2 DEF Deletion
<1>. QED
  BY <1>1, <1>2, <1>3, <1>4, <1>5, <1>6, <1>7, <1>8, <1>9 DEF MemNext

\* The invariant of the memory pool: its blocks tile it, those that are free
\* are linked in the order of their addresses, and each of the others is in the
\* list of its owner (mpool_insert, mpool_remove, mlst_insert, mlst_remove and
\* everything built from them).
THEOREM PoolInvariant == MemSpec => []MemInv
<1>1. MemInit => MemInv
  BY InitMemInv
<1>2. MemInv /\ [MemNext]_memVars => MemInv'
  <2>1. MemInv /\ UNCHANGED memVars => MemInv'
    BY DEF memVars, MemInv
  <2>. QED
    BY <2>1, NextMemInv
<1>. QED
  BY <1>1, <1>2, PTL DEF MemSpec

-----------------------------------------------------------------------------
(* What the invariant says of the lists the loops see *)

LEMMA CircleIs ==
    ASSUME NEW h, NEW b, NEW s, ListAt(h, b, s)
    PROVE  /\ Circle(h, b) = s /\ Queue(s, Addr)
           /\ b # NULL => Linked(h, b, Cardinality(Addr))
           /\ b = NULL <=> Range(s) = {}
<1>1. NULL \notin Addr /\ Queue(s, Addr) /\ b = IF s = <<>> THEN NULL ELSE s[1]
  BY MemoryNamesAssumption DEF Mlst, ListAt
<1>2. CASE s = <<>>
  BY <1>1, <1>2, QueueHas DEF Circle
<1>3. CASE s # <<>>
  <2>1. b # NULL /\ Range(s) # {}
    BY <1>1, <1>3, QueueHas
  <2>2. Items(h, b, Cardinality(Addr)) = s /\ Linked(h, b, Cardinality(Addr))
    BY <1>3, ItemsOf
  <2>. QED
    BY <1>1, <2>1, <2>2 DEF Circle
<1>. QED
  BY <1>2, <1>3

LEMMA FreeAre ==
    ASSUME NEW h, NEW F, Whole(h, F, {})
    PROVE  Range(Circle(h, h.head)) = F
<1>1. PICK s : ListAt(h, h.head, s) /\ Range(s) = F
  BY DEF Whole, Links, PoolLinked
<1>. QED
  BY <1>1, CircleIs

LEMMA FreeIs ==
    ASSUME NEW F, Whole(heap, F, {})
    PROVE  Free = F
BY FreeAre DEF Free

LEMMA UsedIs ==
    ASSUME MemInv
    PROVE  Used = InUse(heap)
BY DEF MemInv, UsesOK, Used, InUse

\* Every link, size, list and use has its type, whatever is allocated and freed.
THEOREM MemTypes == MemSpec => []MemTypeOK
<1>1. ASSUME MemInv PROVE MemTypeOK
  <2>1. heap \in HeapType
    BY <1>1, HeadsIn DEF MemInv
  <2>2. /\ DOMAIN heap = {"prev", "next", "size", "p_mlst", "head", "alloc_head", "mlst"}
        /\ heap.prev \in [Addr -> Addr] /\ heap.next \in [Addr -> Addr]
        /\ heap.size \in [Addr -> 0 .. PoolSize]
        /\ heap.p_mlst \in [Addr -> Mlst \cup {NULL}]
        /\ {heap.head, heap.alloc_head} \subseteq Addr \cup {NULL}
        /\ heap.mlst \in [Mlst -> Addr \cup {NULL}]
    BY <2>1 DEF HeapType
  <2>3. kind \in [Addr -> Kind] /\ part \in [Addr -> Addr \cup {NULL}] /\ statics \subseteq StaticThread
    BY <1>1 DEF MemInv, UsesOK
  <2>. QED
    BY <2>2, <2>3 DEF MemTypeOK
<1>. QED
  BY <1>1, PoolInvariant, PTL

\* The lists are circles linked in both directions, and the pool is in the order
\* of the addresses (lstitem_prepend and lstitem_remove under every caller).
THEOREM ListsSoundAlways == MemSpec => []ListsSound
<1>1. ASSUME MemInv PROVE ListsSound
  <2>1. PICK F : Whole(heap, F, {})
    BY <1>1 DEF MemInv
  <2>2. PICK s : ListAt(heap, heap.head, s) /\ Range(s) = F /\ Increasing(s)
    BY <2>1 DEF Whole, Links, PoolLinked
  <2>3. /\ Circle(heap, heap.head) = s /\ Queue(s, Addr)
        /\ heap.head # NULL => Linked(heap, heap.head, Cardinality(Addr))
        /\ heap.head = NULL <=> F = {}
    BY <2>2, CircleIs
  <2>4. CircleOK(heap.head)
    BY <2>3 DEF CircleOK
  <2>5. ASSUME NEW b \in Range(heap.mlst) PROVE CircleOK(b)
    <3>1. heap.mlst \in [Mlst -> Addr \cup {NULL}]
      BY <2>1, HeadsIn DEF HeapType
    <3>2. PICK l \in Mlst : heap.mlst[l] = b
      BY <3>1 DEF Range
    <3>3. PICK q : ListAt(heap, b, q)
      BY <2>1, <3>2 DEF Whole, Links, MlstsLinked
    <3>. QED
      BY <3>3, CircleIs DEF CircleOK
  <2>6. heap.alloc_head \in IF F = {} THEN {NULL} ELSE F
    BY <2>1 DEF Whole, Links
  <2>7. F \subseteq Addr /\ NULL \notin Addr /\ Free = F
    BY <2>1, HeadsIn, FreeIs, MemoryNamesAssumption DEF Mlst
  <2>8. \A i, j \in DOMAIN s : i < j => s[i] < s[j]
    BY <2>2, <2>3 DEF Increasing, Queue
  <2>. QED
    BY <2>3, <2>4, <2>5, <2>6, <2>7, <2>8 DEF ListsSound
<1>. QED
  BY <1>1, PoolInvariant, PTL

\* No two blocks overlap, no byte of the pool is lost and no block is smaller
\* than the smallest one (mpool_split, mpool_merge).
THEOREM BlocksAlwaysTile == MemSpec => []BlocksTile
<1>1. ASSUME MemInv PROVE BlocksTile
  <2>1. PICK F : Whole(heap, F, {})
    BY <1>1 DEF MemInv
  <2>2. Free = F /\ Used = InUse(heap)
    BY <1>1, <2>1, FreeIs, UsedIs
  <2>3. F \cap InUse(heap) = {}
    BY <2>1, HeadsIn DEF Whole, Links, InUse
  <2>4. Tiles(heap, Free \cup Used)
    <3>1. Heads(heap, F, {}) = Free \cup Used
      BY <2>2 DEF Heads
    <3>. QED
      BY <2>1, <3>1 DEF Whole
  <2>. QED
    BY <2>2, <2>3, <2>4 DEF BlocksTile, Tiles
<1>. QED
  BY <1>1, PoolInvariant, PTL

\* A block in use is in the list of its live owner or the kernel's, and nothing
\* else is in the lists (thread_delete's loop, os_memory_free).
THEOREM ListsHoldExactlyUses == MemSpec => []ListsHoldUses
<1>1. ASSUME MemInv PROVE ListsHoldUses
  <2>1. PICK F : Whole(heap, F, {})
    BY <1>1 DEF MemInv
  <2>2. Used = InUse(heap) /\ UsesOK(heap.p_mlst, kind, part, statics)
    BY <1>1, UsedIs DEF MemInv
  <2>3. NULL \notin Mlst /\ g_mlst \notin Addr \cup StaticThread
    BY MemoryNamesAssumption
  <2>4. ASSUME NEW l \in Mlst
        PROVE  Range(Circle(heap, heap.mlst[l])) = {b \in Used : heap.p_mlst[b] = l}
    <3>1. PICK s : ListAt(heap, heap.mlst[l], s) /\ Range(s) = InList(heap, l)
      BY <2>1 DEF Whole, Links, MlstsLinked
    <3>2. Circle(heap, heap.mlst[l]) = s
      BY <3>1, CircleIs
    <3>3. InList(heap, l) = {b \in Used : heap.p_mlst[b] = l}
      BY <2>2, <2>3 DEF InList, InUse
    <3>. QED
      BY <3>1, <3>2, <3>3
  <2>5. \A b \in Used : IF kind[b] = "memory"
                        THEN heap.p_mlst[b] # g_mlst /\ LiveThread(heap.p_mlst[b])
                        ELSE heap.p_mlst[b] = g_mlst
    BY <2>2, <2>3 DEF UsesOK, Used, Live, LiveThread
  <2>6. \A b \in Addr \ Used : heap.p_mlst[b] = NULL
    BY <2>2 DEF InUse
  <2>. QED
    BY <2>4, <2>5, <2>6 DEF ListsHoldUses
<1>. QED
  BY <1>1, PoolInvariant, PTL

-----------------------------------------------------------------------------
(* A request finds a block exactly if there is one *)

\* The size of the block for a request is that of the request and a header,
\* rounded up, when that does not wrap around.
NoWrap(size) == MPOOL_ALIGN(size + MBLK_HEADER_SIZE) < UintMod

LEMMA BlockSizeFits ==
    ASSUME NEW size \in Nat, NoWrap(size), NEW n \in Nat, Aligned(n), MBLK_SMALLEST_SIZE <= n
    PROVE  mblk_size(size) <= n <=> MBLK_HEADER_SIZE + size <= n
<1>. DEFINE r == size + MBLK_HEADER_SIZE
            m == MPOOL_ALIGN(r)
<1>1. r \in Nat /\ r = MBLK_HEADER_SIZE + size /\ MBLK_SMALLEST_SIZE \in Nat /\ UintMod \in Nat
  BY Sizes, MemoryAssumption
<1>2. mblk_size(size) = IF m % UintMod < MBLK_SMALLEST_SIZE THEN MBLK_SMALLEST_SIZE
                                                            ELSE m % UintMod
  BY DEF mblk_size
<1>3. m < UintMod
  BY DEF NoWrap
<1>. HIDE DEF r
<1>4. /\ m \in Nat /\ Aligned(m) /\ r <= m
      /\ \A c \in Nat : Aligned(c) /\ r <= c => m <= c
  BY <1>1, AlignUp
<1>. HIDE DEF m
<1>5. m % UintMod = m
  BY <1>1, <1>3, <1>4
<1>. QED
  BY <1>1, <1>2, <1>4, <1>5

\* A request finds a free block that is large enough exactly if there is one,
\* provided that no size wraps around with its header (mpool_alloc).
THEOREM AllocAlwaysFindsFit ==
    (\A size \in Requests \cup {ThdSize} : NoWrap(size)) => (MemSpec => []AllocFindsFit)
<1>. SUFFICES ASSUME \A size \in Requests \cup {ThdSize} : NoWrap(size)
              PROVE  MemSpec => []AllocFindsFit
  OBVIOUS
<1>1. ASSUME MemInv PROVE AllocFindsFit
  <2>1. PICK F : Whole(heap, F, {})
    BY <1>1 DEF MemInv
  <2>2. Free = F /\ heap \in HeapType /\ NULL \notin Addr
    BY <2>1, FreeIs, HeadsIn, MemoryNamesAssumption DEF Mlst
  <2>. SUFFICES ASSUME NEW size \in Requests \cup {ThdSize}
                PROVE  LET b == mpool_alloc(heap, size, g_mlst).block
                           enough(i) == heap.size[i] >= MBLK_HEADER_SIZE + size
                       IN  IF b = NULL THEN \A i \in F : ~enough(i) ELSE b \in F /\ enough(b)
    BY <2>2 DEF AllocFindsFit
  <2>. DEFINE a == mpool_alloc(heap, size, g_mlst)
  <2>3. size \in Nat /\ g_mlst \in Mlst /\ NoWrap(size)
    BY RequestSizes DEF Mlst
  <2>4. Allocated(heap, a, F, size, g_mlst)
    BY <2>1, <2>3, Alloc
  <2>. HIDE DEF a
  <2>5. ASSUME NEW i \in F
        PROVE  mblk_size(size) <= heap.size[i] <=> heap.size[i] >= MBLK_HEADER_SIZE + size
    <3>1. Tiles(heap, Heads(heap, F, {})) /\ i \in Heads(heap, F, {})
      BY <2>1, HeadsIn DEF Whole
    <3>2. /\ heap.size[i] \in Nat /\ Aligned(heap.size[i])
          /\ MBLK_SMALLEST_SIZE <= heap.size[i] /\ MBLK_SMALLEST_SIZE \in Nat
      BY <2>2, <3>1, TileSizes, Sizes DEF Tiles
    <3>3. MBLK_HEADER_SIZE + size \in Nat
      BY <2>3, Sizes
    <3>. DEFINE n == heap.size[i]
    <3>. HIDE DEF n
    <3>4. mblk_size(size) <= n <=> MBLK_HEADER_SIZE + size <= n
      BY <2>3, <3>2, BlockSizeFits DEF n
    <3>. QED
      BY <3>2, <3>3, <3>4 DEF n
  <2>6. CASE a.block = NULL
    BY <2>4, <2>5, <2>6 DEF Allocated, a
  <2>7. CASE a.block # NULL
    BY <2>4, <2>5, <2>7 DEF Allocated, a
  <2>. QED
    BY <2>6, <2>7
<1>. QED
  BY <1>1, PoolInvariant, PTL

\* Free neighbours come from the deletion of a thread that leaves memory behind,
\* and from nothing else (mpool_merge in mpool_free; release does not merge).
THEOREM DeletionAloneFragments == MemSpec => OnlyDeletionFragments
<1>1. ASSUME NoNewFragment PROVE ~(Cardinality(Fragments') > Cardinality(Fragments))
  <2>1. PICK F, G : Whole(heap, F, {}) /\ Whole(heap', G, {}) /\ Fewer(heap, F, heap', G)
    BY <1>1 DEF NoNewFragment
  <2>2. Range(Circle(heap, heap.head)) = F /\ Range(Circle(heap', heap'.head)) = G
    BY <2>1, FreeAre
  <2>3. Fragments = Frag(heap, F) /\ Fragments' = Frag(heap', G)
    BY <2>2 DEF Fragments, Free, Frag
  <2>4. F \subseteq Addr /\ G \subseteq Addr
    BY <2>1, HeadsIn
  <2>5. Cardinality(Frag(heap, F)) \in Nat /\ Cardinality(Frag(heap', G)) \in Nat
    BY <2>4, FragFinite
  <2>. QED
    BY <2>1, <2>3, <2>5 DEF Fewer
<1>2. MemInv /\ [MemNext]_memVars
      => [Cardinality(Fragments') > Cardinality(Fragments)
          => \E t \in Addr \cup StaticThread :
                Owned(t) # {} /\ LiveThread(t) /\ ~LiveThread(t)']_memVars
  BY <1>1, NextMemInv DEF Deletion
<1>. QED
  BY <1>2, PoolInvariant, PTL DEF MemSpec, OnlyDeletionFragments
=============================================================================
