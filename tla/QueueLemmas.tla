----------------------------- MODULE QueueLemmas -----------------------------
(***************************************************************************)
(* What the operations on scheduler queues do to the set of their items:   *)
(* facts about sequences that hold every item once.                        *)
(***************************************************************************)
EXTENDS SequencesExt, SequenceTheorems, WellFoundedInduction, TLAPS

\* A set of naturals that is not empty has a least element.
LEMMA LeastNat ==
    ASSUME NEW T \in SUBSET Nat, T # {}
    PROVE  \E m \in T : \A n \in T : m <= n
<1>1. PICK m \in T : \A n \in T : <<n, m>> \notin OpToRel(<, Nat)
  BY NatLessThanWellFounded, WFMin
<1>2. \A n \in T : ~(n < m)
  <2>. SUFFICES ASSUME NEW n \in T, n < m PROVE <<n, m>> \in OpToRel(<, Nat)
    BY <1>1
  <2>1. <<n, m>> \in Nat \X Nat /\ <<n, m>>[1] = n /\ <<n, m>>[2] = m
    OBVIOUS
  <2>. QED
    BY <2>1, Zenon DEF OpToRel
<1>. QED
  BY <1>2

LEMMA MinProperty ==
    ASSUME NEW T \in SUBSET Nat, T # {}
    PROVE  Min(T) \in T /\ \A n \in T : Min(T) <= n
BY LeastNat DEF Min

\* q is a queue of items from S: no item is in it twice.
Queue(q, S) == q \in Seq(S) /\ IsInjective(q)

LEMMA EmptyRange ==
    ASSUME NEW S, NEW q \in Seq(S), Range(q) = {}
    PROVE  q = <<>>
<1>. SUFFICES ASSUME q # <<>> PROVE q[1] \in Range(q)
  OBVIOUS
<1>1. Len(q) \in Nat \ {0} /\ DOMAIN q = 1 .. Len(q)
  BY EmptySeq
<1>. QED
  BY <1>1 DEF Range

LEMMA AppendQueue ==
    ASSUME NEW S, NEW q, Queue(q, S), NEW e \in S, e \notin Range(q)
    PROVE  /\ Queue(Append(q, e), S)
           /\ Range(Append(q, e)) = Range(q) \cup {e}
<1>1. /\ q \in Seq(S) /\ Len(q) \in Nat /\ DOMAIN q = 1 .. Len(q)
      /\ \A i \in 1 .. Len(q) : q[i] \in Range(q)
  BY DEF Queue, Range
<1>2. /\ Append(q, e) \in Seq(S)
      /\ DOMAIN Append(q, e) = 1 .. (Len(q) + 1)
      /\ \A i \in 1 .. Len(q) : Append(q, e)[i] = q[i]
      /\ Append(q, e)[Len(q) + 1] = e
  BY <1>1
<1>3. IsInjective(Append(q, e))
  <2>. SUFFICES ASSUME NEW a \in 1 .. (Len(q) + 1), NEW b \in 1 .. (Len(q) + 1),
                       Append(q, e)[a] = Append(q, e)[b]
                PROVE  a = b
    BY <1>2 DEF IsInjective
  <2>. QED
    BY <1>1, <1>2 DEF Queue, IsInjective
<1>4. Range(Append(q, e)) = Range(q) \cup {e}
  BY <1>1, <1>2 DEF Range
<1>. QED
  BY <1>2, <1>3, <1>4 DEF Queue

LEMMA RemoveAtQueue ==
    ASSUME NEW S, NEW q, Queue(q, S), NEW k \in 1 .. Len(q)
    PROVE  /\ Queue(RemoveAt(q, k), S)
           /\ Range(RemoveAt(q, k)) = Range(q) \ {q[k]}
           /\ Len(RemoveAt(q, k)) = Len(q) - 1
           /\ \A i \in 1 .. (Len(q) - 1) :
                 RemoveAt(q, k)[i] = IF i < k THEN q[i] ELSE q[i + 1]
<1>. DEFINE r == RemoveAt(q, k)
<1>1. q \in Seq(S) /\ Len(q) \in Nat /\ DOMAIN q = 1 .. Len(q)
  BY DEF Queue
<1>2. /\ SubSeq(q, 1, k - 1) \in Seq(S) /\ Len(SubSeq(q, 1, k - 1)) = k - 1
      /\ \A i \in 1 .. (k - 1) : SubSeq(q, 1, k - 1)[i] = q[i]
  BY <1>1
<1>3. /\ SubSeq(q, k + 1, Len(q)) \in Seq(S)
      /\ Len(SubSeq(q, k + 1, Len(q))) = Len(q) - k
      /\ \A i \in 1 .. (Len(q) - k) : SubSeq(q, k + 1, Len(q))[i] = q[k + i]
  <2>1. \A i \in (k + 1) .. Len(q) : q[i] \in S
    BY <1>1
  <2>. DEFINE m == k + 1
              n == Len(q)
              b == SubSeq(q, m, n)
  <2>2. m \in Int /\ n \in Int /\ k \in Int /\ m <= n + 1 /\ \A i \in m .. n : q[i] \in S
    BY <1>1, <2>1
  <2>3. m = k + 1
    OBVIOUS
  <2>. HIDE DEF m, n
  <2>4. /\ b \in Seq(S)
        /\ Len(b) = IF m <= n THEN n - m + 1 ELSE 0
        /\ \A i \in 1 .. n - m + 1 : b[i] = q[m + i - 1]
    BY <2>2, SubSeqProperties
  <2>. HIDE DEF b
  <2>5. /\ Len(b) = n - k
        /\ \A i \in 1 .. (n - k) : b[i] = q[k + i]
    <3>1. n - m + 1 = n - k /\ (m <= n \/ n - k = 0)
      BY <2>2, <2>3
    <3>2. \A i \in 1 .. (n - k) : m + i - 1 = k + i
      BY <2>2, <2>3
    <3>3. \A i \in 1 .. (n - k) : b[i] = q[k + i]
      BY <2>4, <3>1, <3>2
    <3>. QED
      BY <2>2, <2>4, <3>1, <3>3
  <2>. QED
    BY <2>4, <2>5 DEF b, m, n
<1>4. /\ r \in Seq(S) /\ Len(r) = Len(q) - 1
      /\ \A i \in 1 .. (Len(q) - 1) : r[i] = IF i < k THEN q[i] ELSE q[i + 1]
  <2>. DEFINE a == SubSeq(q, 1, k - 1)
              b == SubSeq(q, k + 1, Len(q))
  <2>1. /\ a \o b \in Seq(S)
        /\ Len(a \o b) = Len(a) + Len(b)
        /\ \A i \in 1 .. (Len(a) + Len(b)) :
              (a \o b)[i] = IF i <= Len(a) THEN a[i] ELSE b[i - Len(a)]
    BY <1>2, <1>3, ConcatProperties
  <2>2. r = a \o b
    BY DEF RemoveAt
  <2>. HIDE DEF a, b, r
  <2>3. /\ Len(a) = k - 1 /\ \A i \in 1 .. (k - 1) : a[i] = q[i]
        /\ Len(b) = Len(q) - k /\ \A i \in 1 .. (Len(q) - k) : b[i] = q[k + i]
    BY <1>2, <1>3 DEF a, b
  <2>4. Len(a) + Len(b) = Len(q) - 1
    BY <1>1, <2>3
  <2>5. ASSUME NEW i \in 1 .. (Len(q) - 1), i < k PROVE r[i] = q[i]
    BY <1>1, <2>1, <2>2, <2>3, <2>4, <2>5
  <2>6. ASSUME NEW i \in 1 .. (Len(q) - 1), ~(i < k) PROVE r[i] = q[i + 1]
    <3>1. r[i] = b[i - (k - 1)]
      BY <1>1, <2>1, <2>2, <2>3, <2>4, <2>6
    <3>2. i - (k - 1) \in 1 .. (Len(q) - k) /\ k + (i - (k - 1)) = i + 1
      BY <1>1, <2>6
    <3>. QED
      BY <2>3, <3>1, <3>2
  <2>. QED
    BY <2>1, <2>2, <2>4, <2>5, <2>6
<1>5. IsInjective(r)
  BY <1>1, <1>4 DEF IsInjective, Queue
<1>6. Range(r) \subseteq Range(q) \ {q[k]}
  BY <1>1, <1>4 DEF Range, IsInjective, Queue
<1>7. ASSUME NEW x \in Range(q), x # q[k] PROVE x \in Range(r)
  <2>1. PICK i \in 1 .. Len(q) : q[i] = x
    BY <1>1 DEF Range
  <2>2. CASE i < k
    BY <1>1, <1>4, <2>1, <2>2 DEF Range
  <2>3. CASE i > k
    <3>1. i - 1 \in 1 .. (Len(q) - 1) /\ r[i - 1] = x
      BY <1>1, <1>4, <2>1, <2>3
    <3>. QED
      BY <1>4, <3>1 DEF Range
  <2>. QED
    BY <1>1, <1>7, <2>1, <2>2, <2>3
<1>. QED
  BY <1>4, <1>5, <1>6, <1>7 DEF Queue

LEMMA RemoveFirstQueue ==
    ASSUME NEW S, NEW q, Queue(q, S), NEW e \in Range(q)
    PROVE  \E k \in 1 .. Len(q) : q[k] = e /\ RemoveFirst(q, e) = RemoveAt(q, k)
<1>1. Len(q) \in Nat /\ DOMAIN q = 1 .. Len(q)
  BY DEF Queue
<1>. DEFINE I == {i \in 1 .. Len(q) : q[i] = e}
<1>2. I # {} /\ I \in SUBSET Nat
  BY <1>1 DEF Range
<1>3. Min(I) \in I
  BY <1>2, MinProperty
<1>4. RemoveFirst(q, e) = RemoveAt(q, Min(I))
  BY <1>2 DEF RemoveFirst, SelectInSeq
<1>. QED
  BY <1>3, <1>4

\* Removing an item removes it and nothing else.
LEMMA RemoveQueue ==
    ASSUME NEW S, NEW q, Queue(q, S), NEW e \in Range(q)
    PROVE  /\ Queue(RemoveFirst(q, e), S)
           /\ Range(RemoveFirst(q, e)) = Range(q) \ {e}
BY RemoveFirstQueue, RemoveAtQueue

\* Removing the first item leaves the others in their order.
LEMMA RemoveHead ==
    ASSUME NEW S, NEW q, Queue(q, S), q # <<>>
    PROVE  RemoveFirst(q, Head(q)) = Tail(q)
<1>1. /\ q \in Seq(S) /\ Len(q) \in Nat \ {0} /\ DOMAIN q = 1 .. Len(q)
      /\ Head(q) = q[1] /\ 1 \in 1 .. Len(q)
  BY EmptySeq DEF Queue
<1>2. Head(q) \in Range(q)
  BY <1>1 DEF Range
<1>3. PICK k \in 1 .. Len(q) : q[k] = Head(q) /\ RemoveFirst(q, Head(q)) = RemoveAt(q, k)
  BY <1>2, RemoveFirstQueue
<1>4. k = 1
  BY <1>1, <1>3 DEF Queue, IsInjective
<1>5. /\ RemoveAt(q, 1) \in Seq(S) /\ Len(RemoveAt(q, 1)) = Len(q) - 1
      /\ \A i \in 1 .. (Len(q) - 1) : RemoveAt(q, 1)[i] = q[i + 1]
  <2>1. /\ Queue(RemoveAt(q, k), S) /\ Len(RemoveAt(q, k)) = Len(q) - 1
        /\ \A i \in 1 .. (Len(q) - 1) :
              RemoveAt(q, k)[i] = IF i < k THEN q[i] ELSE q[i + 1]
    BY RemoveAtQueue, Zenon
  <2>2. ASSUME NEW i \in 1 .. (Len(q) - 1) PROVE RemoveAt(q, 1)[i] = q[i + 1]
    <3>1. ~(i < 1)
      BY <1>1
    <3>. QED
      BY <1>4, <2>1, <3>1
  <2>. QED
    BY <1>4, <2>1, <2>2 DEF Queue
<1>6. /\ Tail(q) \in Seq(S) /\ Len(Tail(q)) = Len(q) - 1
      /\ \A i \in 1 .. (Len(q) - 1) : Tail(q)[i] = q[i + 1]
  BY <1>1, HeadTailProperties
<1>. QED
  BY <1>3, <1>4, <1>5, <1>6, SeqEqual

\* Moving the head pointer on keeps the items.
LEMMA RotateQueue ==
    ASSUME NEW S, NEW q, Queue(q, S), q # <<>>
    PROVE  /\ Head(q) \in S /\ Head(q) \in Range(q)
           /\ Queue(Append(Tail(q), Head(q)), S)
           /\ Range(Append(Tail(q), Head(q))) = Range(q)
<1>1. /\ q \in Seq(S) /\ Len(q) \in Nat \ {0} /\ DOMAIN q = 1 .. Len(q)
      /\ Head(q) = q[1] /\ q[1] \in S
  BY EmptySeq DEF Queue
<1>2. /\ Tail(q) \in Seq(S) /\ Len(Tail(q)) = Len(q) - 1
      /\ DOMAIN Tail(q) = 1 .. (Len(q) - 1)
      /\ \A i \in 1 .. (Len(q) - 1) : Tail(q)[i] = q[i + 1]
  BY <1>1, HeadTailProperties
<1>3. IsInjective(Tail(q))
  BY <1>1, <1>2 DEF IsInjective, Queue
<1>4. Range(Tail(q)) = Range(q) \ {q[1]}
  <2>1. ASSUME NEW x \in Range(q), x # q[1] PROVE x \in Range(Tail(q))
    <3>1. PICK i \in 1 .. Len(q) : q[i] = x
      BY <1>1 DEF Range
    <3>2. i - 1 \in 1 .. (Len(q) - 1) /\ Tail(q)[i - 1] = x
      BY <1>1, <1>2, <2>1, <3>1
    <3>. QED
      BY <1>2, <3>2 DEF Range
  <2>2. Range(Tail(q)) \subseteq Range(q) \ {q[1]}
    BY <1>1, <1>2 DEF Range, IsInjective, Queue
  <2>. QED
    BY <2>1, <2>2
<1>5. Queue(Tail(q), S) /\ q[1] \notin Range(Tail(q)) /\ q[1] \in Range(q)
  BY <1>1, <1>2, <1>3, <1>4 DEF Queue, Range
<1>6. /\ Queue(Append(Tail(q), q[1]), S)
      /\ Range(Append(Tail(q), q[1])) = Range(Tail(q)) \cup {q[1]}
  BY <1>1, <1>5, AppendQueue
<1>7. Range(Tail(q)) \cup {q[1]} = Range(q)
  BY <1>4, <1>5
<1>. QED
  BY <1>1, <1>5, <1>6, <1>7

LEMMA InsertQueue ==
    ASSUME NEW S, NEW q, Queue(q, S), NEW e \in S, e \notin Range(q),
           NEW k \in 1 .. Len(q)
    PROVE  /\ Queue(InsertAt(q, k, e), S)
           /\ Range(InsertAt(q, k, e)) = Range(q) \cup {e}
           /\ Len(InsertAt(q, k, e)) = Len(q) + 1
           /\ \A i \in 1 .. (Len(q) + 1) :
                 InsertAt(q, k, e)[i] = IF i < k THEN q[i]
                                        ELSE IF i = k THEN e ELSE q[i - 1]
<1>. DEFINE r == InsertAt(q, k, e)
            a == SubSeq(q, 1, k - 1)
            b == SubSeq(q, k, Len(q))
<1>1. /\ q \in Seq(S) /\ Len(q) \in Nat /\ DOMAIN q = 1 .. Len(q)
      /\ \A i \in 1 .. Len(q) : q[i] \in Range(q)
  BY DEF Queue, Range
<1>2. /\ a \in Seq(S) /\ Len(a) = k - 1
      /\ \A i \in 1 .. (k - 1) : a[i] = q[i]
  BY <1>1
<1>3. /\ b \in Seq(S) /\ Len(b) = Len(q) - k + 1
      /\ \A i \in 1 .. (Len(q) - k + 1) : b[i] = q[k + i - 1]
  <2>1. \A i \in k .. Len(q) : q[i] \in S
    BY <1>1
  <2>. QED
    BY <1>1, <2>1, SubSeqProperties
<1>4. /\ r = (a \o <<e>>) \o b
      /\ <<e>> \in Seq(S) /\ Len(<<e>>) = 1 /\ <<e>>[1] = e
  BY DEF InsertAt
<1>. HIDE DEF a, b, r
<1>5. /\ a \o <<e>> \in Seq(S) /\ Len(a \o <<e>>) = k
      /\ \A i \in 1 .. k : (a \o <<e>>)[i] = IF i < k THEN q[i] ELSE e
  BY <1>1, <1>2, <1>4, ConcatProperties
<1>6. /\ r \in Seq(S) /\ Len(r) = k + Len(b)
      /\ \A i \in 1 .. (k + Len(b)) :
            r[i] = IF i <= k THEN (a \o <<e>>)[i] ELSE b[i - k]
  <2>. DEFINE c == a \o <<e>>
  <2>1. c \in Seq(S) /\ Len(c) = k /\ r = c \o b
    BY <1>4, <1>5
  <2>. HIDE DEF c
  <2>2. /\ r \in Seq(S) /\ Len(r) = k + Len(b)
        /\ \A i \in 1 .. (k + Len(b)) : r[i] = IF i <= k THEN c[i] ELSE b[i - k]
    BY <1>3, <2>1, ConcatProperties, ZenonT(60)
  <2>. QED
    BY <2>2 DEF c
<1>7. /\ Len(r) = Len(q) + 1 /\ DOMAIN r = 1 .. (Len(q) + 1)
      /\ \A i \in 1 .. (Len(q) + 1) : r[i] \in Range(r)
  <2>1. Len(r) = Len(q) + 1
    BY <1>1, <1>3, <1>6
  <2>2. DOMAIN r = 1 .. (Len(q) + 1)
    BY <1>6, <2>1, LenProperties
  <2>. QED
    BY <2>1, <2>2 DEF Range
<1>8. /\ \A i \in 1 .. (k - 1) : r[i] = q[i]
      /\ r[k] = e
      /\ \A i \in (k + 1) .. (Len(q) + 1) : r[i] = q[i - 1]
  <2>1. ASSUME NEW i \in 1 .. k PROVE r[i] = IF i < k THEN q[i] ELSE e
    <3>1. i \in 1 .. (k + Len(b)) /\ i <= k
      BY <1>1, <1>3
    <3>2. r[i] = (a \o <<e>>)[i]
      BY <1>6, <3>1
    <3>. QED
      BY <1>5, <3>2
  <2>2. ASSUME NEW i \in (k + 1) .. (Len(q) + 1) PROVE r[i] = q[i - 1]
    <3>1. i - k \in 1 .. (Len(q) - k + 1) /\ k + (i - k) - 1 = i - 1
      BY <1>1
    <3>2. r[i] = b[i - k]
      BY <1>1, <1>3, <1>6
    <3>. QED
      BY <1>3, <3>1, <3>2
  <2>. QED
    BY <2>1, <2>2
<1>. DEFINE at(i) == IF i < k THEN i ELSE i - 1
<1>9. \A i \in 1 .. (Len(q) + 1) : i # k => at(i) \in 1 .. Len(q) /\ r[i] = q[at(i)]
  BY <1>1, <1>8
<1>10. IsInjective(r)
  <2>. SUFFICES ASSUME NEW i \in 1 .. (Len(q) + 1), NEW j \in 1 .. (Len(q) + 1),
                       r[i] = r[j]
                PROVE  i = j
    BY <1>7 DEF IsInjective
  <2>1. CASE i = k \/ j = k
    BY <1>1, <1>8, <1>9, <2>1
  <2>2. CASE i # k /\ j # k
    <3>1. at(i) = at(j)
      BY <1>1, <1>9, <2>2 DEF Queue, IsInjective
    <3>. QED
      BY <2>2, <3>1
  <2>. QED
    BY <2>1, <2>2
<1>11. Range(r) \subseteq Range(q) \cup {e}
  <2>. SUFFICES ASSUME NEW i \in 1 .. (Len(q) + 1) PROVE r[i] \in Range(q) \cup {e}
    BY <1>7 DEF Range
  <2>. QED
    BY <1>1, <1>8, <1>9
<1>13. ASSUME NEW x \in Range(q) PROVE x \in Range(r)
  <2>1. PICK i \in 1 .. Len(q) : q[i] = x
    BY <1>1 DEF Range
  <2>2. CASE i < k
    BY <1>1, <1>7, <1>8, <2>1, <2>2
  <2>3. CASE i >= k
    <3>1. i + 1 \in (k + 1) .. (Len(q) + 1) /\ i + 1 \in 1 .. (Len(q) + 1) /\ r[i + 1] = x
      BY <1>1, <1>8, <2>1, <2>3
    <3>. QED
      BY <1>7, <3>1
  <2>. QED
    BY <2>1, <2>2, <2>3
<1>14. e \in Range(r)
  BY <1>1, <1>7, <1>8
<1>. QED
  <2>1. Queue(r, S) /\ Range(r) = Range(q) \cup {e}
    BY <1>6, <1>10, <1>11, <1>13, <1>14 DEF Queue
  <2>2. ASSUME NEW i \in 1 .. (Len(q) + 1)
        PROVE  r[i] = IF i < k THEN q[i] ELSE IF i = k THEN e ELSE q[i - 1]
    BY <1>1, <1>8
  <2>. QED
    BY <1>7, <2>1, <2>2 DEF r
=============================================================================
