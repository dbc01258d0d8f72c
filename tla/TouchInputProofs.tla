--------------------------- MODULE TouchInputProofs ---------------------------
(***************************************************************************)
(* Proofs about TouchInput, for any number of slots, any tracking ids and  *)
(* any stream of raw events in which an overflow is reported before the    *)
(* next one and before the caller cancels; without that the properties are *)
(* false, as the run touch_second_overflow shows.                          *)
(*                                                                         *)
(* The stream is taken as a whole: After says which contacts are down when *)
(* events have been seen, Legal that each was legal where it stood, and    *)
(* both go through a concatenation piece by piece.  Every step appends a   *)
(* piece, drops one, or takes one slot's events out.                       *)
(***************************************************************************)
EXTENDS TouchInput, FiniteSetTheorems, SequenceTheorems, TLAPS

(* Nth enumerates a finite set of numbers in their order: so the loops over
   the slots and over the frame are what EventsFor and Without say. *)
LEMMA NthOrders ==
    ASSUME NEW K \in SUBSET Nat, IsFiniteSet(K)
    PROVE  /\ Cardinality(K) \in Nat
           /\ \A n \in 1 .. Cardinality(K) : Nth(K, n) \in K
           /\ \A m, n \in 1 .. Cardinality(K) : m < n <=> Nth(K, m) < Nth(K, n)
           /\ \A k \in K : \E n \in 1 .. Cardinality(K) : Nth(K, n) = k
<1> DEFINE size == Cardinality(K)
           Below(k) == {j \in K : j < k}
           rank == [k \in K |-> Cardinality(Below(k)) + 1]
<1>0. \A k \in K : k \in Nat
  OBVIOUS
<1>1. size \in Nat
  BY FS_CardinalityType
<1>2. \A k \in K : IsFiniteSet(Below(k)) /\ Cardinality(Below(k)) \in Nat
  <2> TAKE k \in K
  <2>1. IsFiniteSet(Below(k))
    BY FS_Subset
  <2> QED
    BY <2>1, FS_CardinalityType
<1>3. \A j, k \in K : j < k => Cardinality(Below(j)) < Cardinality(Below(k))
  <2> SUFFICES ASSUME NEW j \in K, NEW k \in K, j < k
               PROVE  Cardinality(Below(j)) < Cardinality(Below(k))
    OBVIOUS
  <2>1. Below(j) \in SUBSET Below(k)
    <3>1. \A x \in K : x < j => x < k
      <4> TAKE x \in K
      <4>1. x \in Nat /\ j \in Nat /\ k \in Nat
        BY <1>0
      <4> QED
        BY <4>1
    <3> QED
      BY <3>1
  <2>2. j \in Below(k) /\ j \notin Below(j)
    BY <1>0
  <2>3. /\ Cardinality(Below(j)) <= Cardinality(Below(k))
        /\ Cardinality(Below(k)) = Cardinality(Below(j)) => Below(k) = Below(j)
    <3> HIDE DEF Below
    <3> QED
      BY <1>2, <2>1, FS_Subset
  <2>4. Below(k) # Below(j)
    <3> HIDE DEF Below
    <3> QED
      BY <2>2
  <2> HIDE DEF Below
  <2> QED
    BY <1>2, <2>3, <2>4
<1>4. \A k \in K : Cardinality(Below(k)) < size
  <2> TAKE k \in K
  <2>1. IsFiniteSet(K \ {k}) /\ Cardinality(K \ {k}) = size - 1
    BY FS_RemoveElement
  <2>2. Below(k) \in SUBSET (K \ {k})
    OBVIOUS
  <2>3. Cardinality(Below(k)) <= Cardinality(K \ {k})
    <3> HIDE DEF Below
    <3> QED
      BY <2>1, <2>2, FS_Subset
  <2> HIDE DEF Below
  <2> QED
    BY <1>1, <1>2, <2>1, <2>3
<1> HIDE DEF Below
<1>5. rank \in [K -> 1 .. size]
  BY <1>1, <1>2, <1>4
<1>6. \A j, k \in K : j < k <=> rank[j] < rank[k]
  <2> TAKE j, k \in K
  <2>1. j < k => rank[j] < rank[k]
    BY <1>2, <1>3
  <2>2. k < j => rank[k] < rank[j]
    BY <1>2, <1>3
  <2>3. j \in Nat /\ k \in Nat /\ rank[j] \in Nat /\ rank[k] \in Nat
    BY <1>0, <1>2
  <2> HIDE DEF rank
  <2> QED
    BY <2>1, <2>2, <2>3
<1>7. rank \in Injection(K, 1 .. size)
  <2>1. ASSUME NEW j \in K, NEW k \in K, rank[j] = rank[k]
        PROVE  j = k
    <3>1. j \in Nat /\ k \in Nat /\ rank[j] \in Nat /\ rank[k] \in Nat
      BY <1>0, <1>2
    <3> HIDE DEF rank
    <3> QED
      BY <1>6, <2>1, <3>1
  <2> HIDE DEF rank
  <2> QED
    BY <1>5, <2>1 DEF Injection, IsInjective
<1>8. IsFiniteSet(1 .. size) /\ Cardinality(1 .. size) = size
  BY <1>1, FS_Interval
<1>9. rank \in Surjection(K, 1 .. size)
  <2> HIDE DEF rank, size
  <2>1. Cardinality(K) = size
    BY DEF size
  <2> QED
    BY <1>7, <1>8, <2>1, FS_Injection
<1>10. \A n \in 1 .. size : Nth(K, n) \in K /\ rank[Nth(K, n)] = n
  <2> TAKE n \in 1 .. size
  <2>1. PICK k \in K : rank[k] = n
    BY <1>9 DEF Surjection
  <2>2. Cardinality(Below(k)) = n - 1
    BY <1>2, <2>1
  <2>3. Nth(K, n) \in K /\ Cardinality(Below(Nth(K, n))) = n - 1
    BY <2>2 DEF Nth, Below
  <2> QED
    BY <1>1, <2>3
<1> HIDE DEF rank
<1>11. \A m, n \in 1 .. size : m < n <=> Nth(K, m) < Nth(K, n)
  <2> TAKE m, n \in 1 .. size
  <2>1. Nth(K, m) \in K /\ rank[Nth(K, m)] = m
    BY <1>10
  <2>2. Nth(K, n) \in K /\ rank[Nth(K, n)] = n
    BY <1>10
  <2>3. Nth(K, m) < Nth(K, n) <=> rank[Nth(K, m)] < rank[Nth(K, n)]
    BY <1>6, <2>1, <2>2
  <2> QED
    BY <2>1, <2>2, <2>3
<1>12. \A k \in K : \E n \in 1 .. size : Nth(K, n) = k
  <2> TAKE k \in K
  <2>1. rank[k] \in 1 .. size
    BY <1>5
  <2>2. Nth(K, rank[k]) \in K /\ rank[Nth(K, rank[k])] = rank[k]
    BY <1>10, <2>1
  <2>3. Nth(K, rank[k]) = k
    BY <1>7, <2>2 DEF Injection, IsInjective
  <2> QED
    BY <2>1, <2>3
<1> QED
  BY <1>1, <1>10, <1>11, <1>12

-----------------------------------------------------------------------------
AnEvent == [kind : Kinds, slot : Slots]

(* The contacts that are down after the events q, those of v before them;
   and: every event of q is legal where it stands. *)
After(v, q) == [s \in Slots |-> Visible(v[s], q, s)]

Legal(v, q) ==
    \A i \in DOMAIN q :
        q[i].kind = "DOWN" <=> ~VisibleAfter(v[q[i].slot], q, i - 1, q[i].slot)

Views == [Slots -> BOOLEAN]

(* What is visible is known. *)
LEMMA AfterType ==
    ASSUME NEW v \in Views, NEW q
    PROVE  After(v, q) \in Views
BY DEF Views, After, Visible, VisibleAfter

(* Of no events, the state before them remains. *)
LEMMA NothingVisible ==
    ASSUME NEW b, NEW q, NEW s
    PROVE  VisibleAfter(b, q, 0, s) = b
<1>1. 1 .. 0 = {}
  OBVIOUS
<1> QED
  BY <1>1 DEF VisibleAfter, Turns

(* Events of which none is a turn of the slot change nothing for it. *)
LEMMA NoTurn ==
    ASSUME NEW b, NEW q, NEW n, NEW s, Turns(q, n, s) = {}
    PROVE  VisibleAfter(b, q, n, s) = b
BY DEF VisibleAfter

(* The first part of two is seen by itself. *)
LEMMA VisibleInFirst ==
    ASSUME NEW q \in Seq(AnEvent), NEW r \in Seq(AnEvent), NEW b, NEW s,
           NEW n \in 0 .. Len(q)
    PROVE  VisibleAfter(b, q \o r, n, s) = VisibleAfter(b, q, n, s)
<1>1. \A i \in 1 .. n : (q \o r)[i] = q[i]
  BY ConcatProperties
<1>2. Turns(q \o r, n, s) = Turns(q, n, s)
  BY <1>1 DEF Turns
<1>3. \A i \in Turns(q, n, s) : i \in 1 .. n
  BY DEF Turns
<1> QED
  BY <1>1, <1>2, <1>3 DEF VisibleAfter

(* The second part is seen from what the first leaves. *)
LEMMA VisibleInSecond ==
    ASSUME NEW q \in Seq(AnEvent), NEW r \in Seq(AnEvent),
           NEW b \in BOOLEAN, NEW s, NEW n \in 0 .. Len(r)
    PROVE  VisibleAfter(b, q \o r, Len(q) + n, s)
             = VisibleAfter(Visible(b, q, s), r, n, s)
<1> DEFINE all == Turns(q \o r, Len(q) + n, s)
           old == Turns(q, Len(q), s)
           new == Turns(r, n, s)
           Kind(i) == (q \o r)[i].kind
<1>1. Len(q) \in Nat /\ Len(r) \in Nat /\ n \in Nat
  OBVIOUS
<1>2. \A i \in 1 .. Len(q) : (q \o r)[i] = q[i]
  BY ConcatProperties
<1>3. \A i \in 1 .. n : (q \o r)[Len(q) + i] = r[i]
  BY <1>1, ConcatProperties
<1>4. \A i \in 1 .. Len(q) : i \in all <=> i \in old
  BY <1>1, <1>2 DEF Turns
<1>5. \A i \in 1 .. n : Len(q) + i \in all <=> i \in new
  BY <1>1, <1>3 DEF Turns
<1>6. /\ \A i \in old : i \in 1 .. Len(q) /\ i \in all /\ Kind(i) = q[i].kind
      /\ \A i \in new : i \in 1 .. n /\ Len(q) + i \in all
                        /\ Kind(Len(q) + i) = r[i].kind
  <2>1. \A i \in old : i \in 1 .. Len(q)
    BY DEF Turns
  <2>2. \A i \in new : i \in 1 .. n
    BY DEF Turns
  <2> QED
    BY <1>2, <1>3, <1>4, <1>5, <2>1, <2>2
<1>7. \A i \in all : \/ i \in 1 .. Len(q) /\ i \in old
                     \/ \E k \in new : i = Len(q) + k
  <2> TAKE i \in all
  <2>1. i \in 1 .. Len(q) + n
    BY DEF Turns
  <2>2. CASE i <= Len(q)
    BY <1>1, <1>4, <2>1, <2>2
  <2>3. CASE i > Len(q)
    <3>1. i - Len(q) \in 1 .. n /\ i = Len(q) + (i - Len(q))
      BY <1>1, <2>1, <2>3
    <3> QED
      BY <1>5, <3>1
  <2> QED
    BY <1>1, <2>1, <2>2, <2>3
<1> DEFINE was == Visible(b, q, s)
           LastDown(T, f) == \E i \in T : f[i].kind = "DOWN" /\ \A j \in T : j <= i
<1> HIDE DEF all, old, new
<1>8. CASE new = {}
  <2>1. all = old
    BY <1>6, <1>7, <1>8
  <2>2. LastDown(all, q \o r) <=> LastDown(old, q)
    BY <1>6, <2>1
  <2>3. VisibleAfter(b, q \o r, Len(q) + n, s) = was
    BY <2>1, <2>2 DEF VisibleAfter, Visible, all, old
  <2> QED
    BY <1>8, <2>3, NoTurn DEF new
<1>9. CASE new # {}
  <2>1. all # {}
    BY <1>6, <1>9
  <2>2. LastDown(all, q \o r) <=> LastDown(new, r)
    <3>1. ASSUME NEW i \in all, Kind(i) = "DOWN", \A j \in all : j <= i
          PROVE  LastDown(new, r)
      <4>1. PICK k \in new : TRUE
        BY <1>9
      <4>2. Len(q) + k <= i /\ k \in 1 .. n
        BY <1>6, <3>1
      <4>3. PICK l \in new : i = Len(q) + l
        BY <1>1, <1>7, <4>2
      <4>4. \A j \in new : j <= l
        <5> TAKE j \in new
        <5>1. Len(q) + j <= Len(q) + l /\ j \in Nat /\ l \in Nat
          BY <1>6, <3>1, <4>3
        <5> QED
          BY <1>1, <5>1
      <4> QED
        BY <1>6, <3>1, <4>3, <4>4
    <3>2. ASSUME NEW l \in new, r[l].kind = "DOWN", \A j \in new : j <= l
          PROVE  LastDown(all, q \o r)
      <4>1. Len(q) + l \in all /\ Kind(Len(q) + l) = "DOWN" /\ l \in 1 .. n
        BY <1>6, <3>2
      <4>2. \A j \in all : j <= Len(q) + l
        <5> TAKE j \in all
        <5>1. CASE j \in 1 .. Len(q)
          BY <1>1, <4>1, <5>1
        <5>2. ASSUME NEW k \in new, j = Len(q) + k
              PROVE  j <= Len(q) + l
          <6>1. k <= l /\ k \in Nat /\ l \in Nat
            BY <1>6, <3>2
          <6> QED
            BY <1>1, <5>2, <6>1
        <5> QED
          BY <1>7, <5>1, <5>2
      <4> QED
        BY <4>1, <4>2
    <3> QED
      BY <3>1, <3>2
  <2>3. VisibleAfter(b, q \o r, Len(q) + n, s) <=> LastDown(all, q \o r)
    BY <2>1 DEF VisibleAfter, all
  <2>4. VisibleAfter(was, r, n, s) <=> LastDown(new, r)
    BY <1>9 DEF VisibleAfter, new
  <2>5. /\ VisibleAfter(b, q \o r, Len(q) + n, s) \in BOOLEAN
        /\ VisibleAfter(was, r, n, s) \in BOOLEAN
    BY DEF VisibleAfter, Visible
  <2> HIDE DEF LastDown
  <2> QED
    BY <2>2, <2>3, <2>4, <2>5
<1> QED
  BY <1>8, <1>9

(* Two lots of events: seen one after the other, legal one after the other. *)
LEMMA Concatenated ==
    ASSUME NEW q \in Seq(AnEvent), NEW r \in Seq(AnEvent), NEW v \in Views
    PROVE  /\ q \o r \in Seq(AnEvent)
           /\ After(v, q \o r) = After(After(v, q), r)
           /\ Legal(v, q \o r) <=> Legal(v, q) /\ Legal(After(v, q), r)
<1> DEFINE both == q \o r
<1>1. /\ both \in Seq(AnEvent) /\ Len(both) = Len(q) + Len(r)
      /\ \A i \in 1 .. Len(q) : both[i] = q[i]
      /\ \A i \in 1 .. Len(r) : both[Len(q) + i] = r[i]
  BY ConcatProperties
<1>2. Len(q) \in Nat /\ Len(r) \in Nat
  OBVIOUS
<1>3. \A s \in Slots : v[s] \in BOOLEAN
  BY DEF Views
<1> HIDE DEF both
<1>4. \A s \in Slots :
         /\ \A n \in 0 .. Len(q) : VisibleAfter(v[s], both, n, s)
                                     = VisibleAfter(v[s], q, n, s)
         /\ \A n \in 0 .. Len(r) : VisibleAfter(v[s], both, Len(q) + n, s)
                                     = VisibleAfter(After(v, q)[s], r, n, s)
  BY <1>3, VisibleInFirst, VisibleInSecond DEF both, After
<1>5. After(v, both) = After(After(v, q), r)
  BY <1>1, <1>2, <1>4 DEF After, Visible
<1>6. \A i \in 1 .. Len(q) :
         VisibleAfter(v[q[i].slot], both, i - 1, q[i].slot)
           = VisibleAfter(v[q[i].slot], q, i - 1, q[i].slot)
  <2> TAKE i \in 1 .. Len(q)
  <2>1. q[i] \in AnEvent /\ i - 1 \in 0 .. Len(q)
    BY <1>2
  <2>2. q[i].slot \in Slots
    BY <2>1 DEF AnEvent
  <2> QED
    BY <1>4, <2>1, <2>2
<1>7. \A i \in 1 .. Len(r) :
         VisibleAfter(v[r[i].slot], both, Len(q) + i - 1, r[i].slot)
           = VisibleAfter(After(v, q)[r[i].slot], r, i - 1, r[i].slot)
  <2> TAKE i \in 1 .. Len(r)
  <2>1. r[i] \in AnEvent /\ i - 1 \in 0 .. Len(r)
        /\ Len(q) + i - 1 = Len(q) + (i - 1)
    BY <1>2
  <2>2. r[i].slot \in Slots
    BY <2>1 DEF AnEvent
  <2> QED
    BY <1>4, <2>1, <2>2
<1> DEFINE LegalAt(w, f, i, k) ==
        f[i].kind = "DOWN" <=> ~VisibleAfter(w[f[i].slot], f, k, f[i].slot)
<1>8. \A i \in 1 .. Len(q) : LegalAt(v, both, i, i - 1) <=> LegalAt(v, q, i, i - 1)
  BY <1>1, <1>6
<1>9. \A i \in 1 .. Len(r) : LegalAt(v, both, Len(q) + i, Len(q) + i - 1)
                               <=> LegalAt(After(v, q), r, i, i - 1)
  BY <1>1, <1>7
<1>10. /\ Legal(v, both) <=> \A i \in 1 .. Len(q) + Len(r) : LegalAt(v, both, i, i - 1)
       /\ Legal(v, q) <=> \A i \in 1 .. Len(q) : LegalAt(v, q, i, i - 1)
       /\ Legal(After(v, q), r) <=>
            \A i \in 1 .. Len(r) : LegalAt(After(v, q), r, i, i - 1)
  <2>1. /\ DOMAIN both = 1 .. Len(q) + Len(r)
        /\ DOMAIN q = 1 .. Len(q) /\ DOMAIN r = 1 .. Len(r)
    BY <1>1
  <2> QED
    BY <2>1 DEF Legal
<1> HIDE DEF LegalAt
<1>11. /\ \A i \in 1 .. Len(q) : i \in 1 .. Len(q) + Len(r)
       /\ \A i \in 1 .. Len(r) : Len(q) + i \in 1 .. Len(q) + Len(r)
       /\ \A i \in 1 .. Len(q) + Len(r) :
             \/ i \in 1 .. Len(q)
             \/ i - Len(q) \in 1 .. Len(r) /\ i = Len(q) + (i - Len(q))
  BY <1>2
<1>12. Legal(v, both) <=> Legal(v, q) /\ Legal(After(v, q), r)
  <2>1. Legal(v, both) => Legal(v, q)
    BY <1>8, <1>10, <1>11
  <2>2. ASSUME Legal(v, both)
        PROVE  Legal(After(v, q), r)
    BY <1>9, <1>10, <1>11, <2>2
  <2>3. ASSUME Legal(v, q), Legal(After(v, q), r), NEW i \in 1 .. Len(q) + Len(r)
        PROVE  LegalAt(v, both, i, i - 1)
    <3>1. CASE i \in 1 .. Len(q)
      BY <1>8, <1>10, <2>3, <3>1
    <3>2. CASE i - Len(q) \in 1 .. Len(r) /\ i = Len(q) + (i - Len(q))
      <4>1. PICK k \in 1 .. Len(r) : i = Len(q) + k
        BY <3>2
      <4>2. LegalAt(v, both, Len(q) + k, Len(q) + k - 1)
        BY <1>9, <1>10, <2>3
      <4> QED
        BY <4>1, <4>2
    <3> QED
      BY <1>11, <3>1, <3>2
  <2> QED
    BY <1>10, <2>1, <2>2, <2>3
<1> QED
  BY <1>1, <1>5, <1>12 DEF both

-----------------------------------------------------------------------------
(* One event. *)
LEMMA OneEvent ==
    ASSUME NEW e \in AnEvent, NEW v \in Views
    PROVE  /\ <<e>> \in Seq(AnEvent)
           /\ Legal(v, <<e>>) <=> (e.kind = "DOWN" <=> ~v[e.slot])
           /\ After(v, <<e>>) = IF e.kind = "MOVE" THEN v
                                ELSE [v EXCEPT ![e.slot] = (e.kind = "DOWN")]
<1> DEFINE q == <<e>>
<1>1. q \in Seq(AnEvent) /\ Len(q) = 1 /\ q[1] = e /\ DOMAIN q = {1}
  OBVIOUS
<1>2. e.slot \in Slots /\ e.kind \in Kinds
  BY DEF AnEvent
<1> HIDE DEF q
<1>3. Legal(v, q) <=> (e.kind = "DOWN" <=> ~v[e.slot])
  <2>1. VisibleAfter(v[e.slot], q, 1 - 1, e.slot) = v[e.slot]
    BY NothingVisible
  <2> QED
    BY <1>1, <2>1 DEF Legal
<1>4. \A s \in Slots : Visible(v[s], q, s) =
           IF e.slot = s /\ e.kind # "MOVE" THEN (e.kind = "DOWN") ELSE v[s]
  <2> TAKE s \in Slots
  <2>1. CASE e.slot = s /\ e.kind # "MOVE"
    <3>1. Turns(q, Len(q), s) = {1}
      BY <1>1, <2>1 DEF Turns
    <3>2. Visible(v[s], q, s) <=> e.kind = "DOWN"
      BY <1>1, <3>1 DEF Visible, VisibleAfter
    <3>3. Visible(v[s], q, s) \in BOOLEAN
      BY <3>1 DEF Visible, VisibleAfter
    <3> QED
      BY <2>1, <3>2, <3>3
  <2>2. CASE ~(e.slot = s /\ e.kind # "MOVE")
    <3>1. Turns(q, Len(q), s) = {}
      BY <1>1, <2>2 DEF Turns
    <3> QED
      BY <2>2, <3>1 DEF Visible, VisibleAfter
  <2> QED
    BY <2>1, <2>2
<1>5. After(v, q) = IF e.kind = "MOVE" THEN v
                    ELSE [v EXCEPT ![e.slot] = (e.kind = "DOWN")]
  <2> DEFINE w == IF e.kind = "MOVE" THEN v
                  ELSE [v EXCEPT ![e.slot] = (e.kind = "DOWN")]
  <2>1. w \in Views
    BY <1>2 DEF Views
  <2>2. \A s \in Slots : w[s] =
           IF e.slot = s /\ e.kind # "MOVE" THEN (e.kind = "DOWN") ELSE v[s]
    BY <1>2 DEF Views
  <2> HIDE DEF w
  <2>3. \A s \in Slots : w[s] = Visible(v[s], q, s)
    BY <1>4, <2>2
  <2>4. After(v, q) = w
    BY <2>1, <2>3 DEF After, Views
  <2> QED
    BY <2>4 DEF w
<1> QED
  BY <1>1, <1>3, <1>5 DEF q

(* A batch names each of its slots once. *)
LEMMA EventsForSlots ==
    ASSUME NEW S \in SUBSET Slots, NEW kind \in Kinds
    PROVE  LET q == EventsFor(kind, S)
           IN  /\ q \in Seq(AnEvent)
               /\ \A i \in 1 .. Len(q) : q[i].kind = kind /\ q[i].slot \in S
               /\ \A i, j \in 1 .. Len(q) : q[i].slot = q[j].slot => i = j
               /\ \A s \in S : \E i \in 1 .. Len(q) : q[i].slot = s
<1> DEFINE q == EventsFor(kind, S)
           size == Cardinality(S)
<1>1. S \in SUBSET Nat /\ IsFiniteSet(S)
  BY SlotAssumption, FS_Subset
<1>2. /\ size \in Nat
      /\ \A n \in 1 .. size : Nth(S, n) \in S
      /\ \A m, n \in 1 .. size : m < n <=> Nth(S, m) < Nth(S, n)
      /\ \A s \in S : \E n \in 1 .. size : Nth(S, n) = s
  BY <1>1, NthOrders
<1> HIDE DEF size
<1>3. q = [i \in 1 .. size |-> Event(kind, Nth(S, i))]
  BY DEF EventsFor, size
<1>4. \A s \in S : Event(kind, s) \in AnEvent /\ Event(kind, s).kind = kind
                   /\ Event(kind, s).slot = s
  BY DEF Event, AnEvent
<1>5. q \in Seq(AnEvent) /\ Len(q) = size
      /\ \A i \in 1 .. size : q[i] = Event(kind, Nth(S, i))
  <2>1. q \in [1 .. size -> AnEvent]
    BY <1>2, <1>3, <1>4
  <2> QED
    BY <1>2, <1>3, <2>1, SeqDef
<1> HIDE DEF q
<1>6. \A i, j \in 1 .. size : Nth(S, i) = Nth(S, j) => i = j
  <2> SUFFICES ASSUME NEW i \in 1 .. size, NEW j \in 1 .. size, i # j
               PROVE  Nth(S, i) # Nth(S, j)
    OBVIOUS
  <2>1. i < j \/ j < i
    BY <1>2
  <2>2. Nth(S, i) \in Nat /\ Nth(S, j) \in Nat
    BY <1>1, <1>2
  <2> QED
    BY <1>2, <2>1, <2>2
<1> QED
  BY <1>2, <1>4, <1>5, <1>6 DEF q

(* A batch of DOWNs for contacts that are up, or of CANCELs for contacts that
   are down, is legal, and turns them all. *)
LEMMA Batch ==
    ASSUME NEW S \in SUBSET Slots, NEW kind \in {"DOWN", "CANCEL"},
           NEW v \in Views, \A s \in S : v[s] = (kind = "CANCEL")
    PROVE  /\ EventsFor(kind, S) \in Seq(AnEvent)
           /\ Legal(v, EventsFor(kind, S))
           /\ \A s \in Slots : After(v, EventsFor(kind, S))[s] =
                                 IF s \in S THEN (kind = "DOWN") ELSE v[s]
<1> DEFINE q == EventsFor(kind, S)
<1>1. /\ q \in Seq(AnEvent)
      /\ \A i \in 1 .. Len(q) : q[i].kind = kind /\ q[i].slot \in S
      /\ \A i, j \in 1 .. Len(q) : q[i].slot = q[j].slot => i = j
      /\ \A s \in S : \E i \in 1 .. Len(q) : q[i].slot = s
  <2>1. kind \in Kinds
    BY DEF Kinds
  <2> QED
    BY <2>1, EventsForSlots
<1> HIDE DEF q
<1>2. Len(q) \in Nat /\ DOMAIN q = 1 .. Len(q)
  BY <1>1
<1>3. Legal(v, q)
  <2> SUFFICES ASSUME NEW i \in 1 .. Len(q)
               PROVE  q[i].kind = "DOWN"
                        <=> ~VisibleAfter(v[q[i].slot], q, i - 1, q[i].slot)
    BY <1>2 DEF Legal
  <2>1. Turns(q, i - 1, q[i].slot) = {}
    <3> SUFFICES ASSUME NEW j \in 1 .. i - 1, q[j].slot = q[i].slot
                 PROVE  FALSE
      BY DEF Turns
    <3>1. j \in 1 .. Len(q) /\ j # i
      BY <1>2
    <3> QED
      BY <1>1, <3>1
  <2>2. VisibleAfter(v[q[i].slot], q, i - 1, q[i].slot) = v[q[i].slot]
    BY <2>1, NoTurn
  <2>3. q[i].kind = kind /\ v[q[i].slot] = (kind = "CANCEL")
    BY <1>1
  <2> QED
    BY <2>2, <2>3
<1>4. \A s \in Slots : Visible(v[s], q, s) =
                         IF s \in S THEN (kind = "DOWN") ELSE v[s]
  <2> TAKE s \in Slots
  <2>1. CASE s \in S
    <3>1. PICK i \in 1 .. Len(q) : q[i].slot = s
      BY <1>1, <2>1
    <3>2. Turns(q, Len(q), s) = {i}
      <4>1. i \in Turns(q, Len(q), s)
        BY <1>1, <3>1 DEF Turns
      <4>2. \A j \in Turns(q, Len(q), s) : j = i
        BY <1>1, <3>1 DEF Turns
      <4> QED
        BY <4>1, <4>2
    <3>3. Visible(v[s], q, s) <=> kind = "DOWN"
      BY <1>1, <1>2, <3>2 DEF Visible, VisibleAfter
    <3>4. Visible(v[s], q, s) \in BOOLEAN
      BY <3>2 DEF Visible, VisibleAfter
    <3> QED
      BY <2>1, <3>3, <3>4
  <2>2. CASE s \notin S
    <3>1. Turns(q, Len(q), s) = {}
      BY <1>1, <2>2 DEF Turns
    <3> QED
      BY <2>2, <3>1 DEF Visible, VisibleAfter
  <2> QED
    BY <2>1, <2>2
<1> QED
  BY <1>1, <1>3, <1>4 DEF q, After

(* DOWNs for contacts that are up. *)
LEMMA Downs ==
    ASSUME NEW S \in SUBSET Slots, NEW v \in Views, \A s \in S : ~v[s]
    PROVE  /\ EventsFor("DOWN", S) \in Seq(AnEvent)
           /\ Legal(v, EventsFor("DOWN", S))
           /\ \A s \in Slots : After(v, EventsFor("DOWN", S))[s] = (s \in S \/ v[s])
<1> DEFINE kind == "DOWN"
<1>1. \A s \in S : v[s] = (kind = "CANCEL")
  BY DEF Views
<1>2. kind \in {"DOWN", "CANCEL"}
  OBVIOUS
<1> HIDE DEF kind
<1>3. /\ EventsFor(kind, S) \in Seq(AnEvent)
      /\ Legal(v, EventsFor(kind, S))
      /\ \A s \in Slots : After(v, EventsFor(kind, S))[s] =
                            IF s \in S THEN (kind = "DOWN") ELSE v[s]
  BY <1>1, <1>2, Batch
<1> QED
  BY <1>3 DEF kind, Views

(* CANCELs for contacts that are down. *)
LEMMA Cancels ==
    ASSUME NEW S \in SUBSET Slots, NEW v \in Views, \A s \in S : v[s]
    PROVE  /\ EventsFor("CANCEL", S) \in Seq(AnEvent)
           /\ Legal(v, EventsFor("CANCEL", S))
           /\ \A s \in Slots : After(v, EventsFor("CANCEL", S))[s]
                                 = (s \notin S /\ v[s])
<1> DEFINE kind == "CANCEL"
<1>1. \A s \in S : v[s] = (kind = "CANCEL")
  BY DEF Views
<1>2. kind \in {"DOWN", "CANCEL"}
  OBVIOUS
<1> HIDE DEF kind
<1>3. /\ EventsFor(kind, S) \in Seq(AnEvent)
      /\ Legal(v, EventsFor(kind, S))
      /\ \A s \in Slots : After(v, EventsFor(kind, S))[s] =
                            IF s \in S THEN (kind = "DOWN") ELSE v[s]
  BY <1>1, <1>2, Batch
<1> QED
  BY <1>3 DEF kind, Views

(* Without the events of S, those of other slots stand in their old order,
   and each is seen and legal as before. *)
LEMMA WithoutKeeps ==
    ASSUME NEW q \in Seq(AnEvent), NEW S,
           NEW v \in Views, NEW w \in Views, \A s \in Slots \ S : w[s] = v[s]
    PROVE  LET p == Without(q, S)
           IN  /\ p \in Seq(AnEvent)
               /\ \A i \in DOMAIN p : p[i].slot \notin S
               /\ Legal(v, q) => Legal(w, p)
               /\ \A s \in Slots : After(w, p)[s] =
                     IF s \in S THEN w[s] ELSE After(v, q)[s]
<1> DEFINE p == Without(q, S)
           kept == {i \in DOMAIN q : q[i].slot \notin S}
           size == Cardinality(kept)
<1>1. Len(q) \in Nat /\ DOMAIN q = 1 .. Len(q)
  OBVIOUS
<1>2. kept \in SUBSET Nat /\ IsFiniteSet(kept)
  <2>1. IsFiniteSet(1 .. Len(q))
    BY <1>1, FS_Interval
  <2>2. kept \in SUBSET (1 .. Len(q))
    BY <1>1
  <2>3. kept \in SUBSET Nat
    BY <1>1
  <2> HIDE DEF kept
  <2> QED
    BY <2>1, <2>2, <2>3, FS_Subset
<1>3. /\ size \in Nat
      /\ \A n \in 1 .. size : Nth(kept, n) \in kept
      /\ \A m, n \in 1 .. size : m < n <=> Nth(kept, m) < Nth(kept, n)
      /\ \A k \in kept : \E n \in 1 .. size : Nth(kept, n) = k
  <2> HIDE DEF kept
  <2> QED
    BY <1>2, NthOrders
<1>4. \A k \in kept : k \in 1 .. Len(q) /\ q[k] \in AnEvent /\ q[k].slot \notin S
  BY <1>1
<1>5. \A k \in 1 .. Len(q) : q[k].slot \notin S => k \in kept
  BY <1>1
<1>6. p = [i \in 1 .. size |-> q[Nth(kept, i)]]
  BY DEF Without
<1> HIDE DEF kept, size, p
<1>7. /\ p \in Seq(AnEvent) /\ Len(p) = size /\ DOMAIN p = 1 .. size
      /\ \A i \in 1 .. size : p[i] = q[Nth(kept, i)]
  <2>1. p \in [1 .. size -> AnEvent]
    BY <1>3, <1>4, <1>6
  <2> QED
    BY <1>3, <1>6, <2>1, SeqDef
<1>8. \A i \in DOMAIN p : p[i].slot \notin S
  BY <1>3, <1>4, <1>7
<1>9. ASSUME NEW s \in Slots \ S, NEW n \in 0 .. size, NEW m \in 0 .. Len(q),
             \A i \in 1 .. size : i <= n <=> Nth(kept, i) <= m
      PROVE  VisibleAfter(w[s], p, n, s) = VisibleAfter(v[s], q, m, s)
  <2> DEFINE old == Turns(q, m, s)
             new == Turns(p, n, s)
  <2>1. \A i \in new : i \in 1 .. size /\ Nth(kept, i) \in old
                       /\ q[Nth(kept, i)].kind = p[i].kind
    <3> TAKE i \in new
    <3>1. i \in 1 .. n /\ p[i].slot = s /\ p[i].kind # "MOVE"
      BY DEF Turns
    <3>2. i \in 1 .. size /\ i <= n
      BY <1>3, <3>1
    <3>3. Nth(kept, i) \in 1 .. Len(q) /\ Nth(kept, i) <= m
      BY <1>3, <1>4, <1>9, <3>2
    <3>4. Nth(kept, i) \in 1 .. m
      BY <1>1, <3>3
    <3> QED
      BY <1>7, <3>1, <3>2, <3>4 DEF Turns
  <2>2. \A k \in old : \E i \in new : k = Nth(kept, i)
    <3> TAKE k \in old
    <3>1. k \in 1 .. m /\ k \in 1 .. Len(q) /\ q[k].slot = s /\ q[k].kind # "MOVE"
      BY <1>1 DEF Turns
    <3>2. PICK i \in 1 .. size : Nth(kept, i) = k
      BY <1>3, <1>5, <3>1
    <3>3. i \in 1 .. n
      BY <1>3, <1>9, <3>1, <3>2
    <3> QED
      BY <1>7, <3>1, <3>2, <3>3 DEF Turns
  <2>3. \A i, j \in new : j <= i <=> Nth(kept, j) <= Nth(kept, i)
    <3> TAKE i, j \in new
    <3>1. i \in 1 .. size /\ j \in 1 .. size
      BY <2>1
    <3>2. /\ i < j <=> Nth(kept, i) < Nth(kept, j)
          /\ Nth(kept, i) \in Nat /\ Nth(kept, j) \in Nat
      BY <1>2, <1>3, <3>1
    <3> QED
      BY <1>3, <3>1, <3>2
  <2> HIDE DEF old, new
  <2>4. old = {} <=> new = {}
    BY <2>1, <2>2
  <2>5. (\E i \in new : p[i].kind = "DOWN" /\ \A j \in new : j <= i)
          <=> \E k \in old : q[k].kind = "DOWN" /\ \A l \in old : l <= k
    <3>1. ASSUME NEW i \in new, p[i].kind = "DOWN", \A j \in new : j <= i
          PROVE  /\ Nth(kept, i) \in old /\ q[Nth(kept, i)].kind = "DOWN"
                 /\ \A l \in old : l <= Nth(kept, i)
      BY <2>1, <2>2, <2>3, <3>1
    <3>2. ASSUME NEW k \in old, q[k].kind = "DOWN", \A l \in old : l <= k
          PROVE  \E i \in new : p[i].kind = "DOWN" /\ \A j \in new : j <= i
      <4>1. PICK i \in new : k = Nth(kept, i)
        BY <2>2
      <4>2. p[i].kind = "DOWN"
        BY <2>1, <3>2, <4>1
      <4>3. \A j \in new : j <= i
        BY <2>1, <2>3, <3>2, <4>1
      <4> QED
        BY <4>2, <4>3
    <3> QED
      BY <3>1, <3>2
  <2>6. w[s] = v[s] /\ v[s] \in BOOLEAN
    BY DEF Views
  <2>7. /\ VisibleAfter(w[s], p, n, s) <=> VisibleAfter(v[s], q, m, s)
        /\ VisibleAfter(w[s], p, n, s) \in BOOLEAN
        /\ VisibleAfter(v[s], q, m, s) \in BOOLEAN
    BY <2>4, <2>5, <2>6 DEF VisibleAfter, old, new
  <2> QED
    BY <2>7
<1>10. ASSUME Legal(v, q)
       PROVE  Legal(w, p)
  <2> SUFFICES ASSUME NEW i \in 1 .. size
               PROVE  p[i].kind = "DOWN"
                        <=> ~VisibleAfter(w[p[i].slot], p, i - 1, p[i].slot)
    BY <1>7 DEF Legal
  <2> DEFINE k == Nth(kept, i)
  <2>1. k \in kept /\ k \in 1 .. Len(q) /\ p[i] = q[k]
    BY <1>3, <1>4, <1>7
  <2>2. p[i].slot \in Slots \ S
    BY <1>4, <2>1 DEF AnEvent
  <2>3. i - 1 \in 0 .. size /\ k - 1 \in 0 .. Len(q)
    BY <1>1, <1>3, <2>1
  <2>4. \A j \in 1 .. size : j <= i - 1 <=> Nth(kept, j) <= k - 1
    <3> TAKE j \in 1 .. size
    <3>1. j < i <=> Nth(kept, j) < k
      BY <1>3
    <3>2. Nth(kept, j) \in Nat /\ k \in Nat
      BY <1>2, <1>3
    <3> HIDE DEF k
    <3> QED
      BY <1>3, <3>1, <3>2
  <2> HIDE DEF k
  <2>5. VisibleAfter(w[p[i].slot], p, i - 1, p[i].slot)
          = VisibleAfter(v[p[i].slot], q, k - 1, p[i].slot)
    BY <1>9, <2>2, <2>3, <2>4
  <2>6. q[k].kind = "DOWN" <=> ~VisibleAfter(v[q[k].slot], q, k - 1, q[k].slot)
    BY <1>1, <1>10, <2>1 DEF Legal
  <2> QED
    BY <2>1, <2>5, <2>6
<1>11. \A s \in Slots : After(w, p)[s] = IF s \in S THEN w[s] ELSE After(v, q)[s]
  <2> TAKE s \in Slots
  <2>1. CASE s \in S
    <3>1. Turns(p, Len(p), s) = {}
      BY <1>7, <1>8, <2>1 DEF Turns
    <3> QED
      BY <2>1, <3>1 DEF After, Visible, VisibleAfter
  <2>2. CASE s \notin S
    <3>1. \A i \in 1 .. size : i <= size <=> Nth(kept, i) <= Len(q)
      BY <1>1, <1>3, <1>4
    <3>2. VisibleAfter(w[s], p, size, s) = VisibleAfter(v[s], q, Len(q), s)
      BY <1>1, <1>3, <1>9, <2>2, <3>1
    <3> QED
      BY <1>7, <2>2, <3>2 DEF After, Visible
  <2> QED
    BY <2>1, <2>2
<1> QED
  BY <1>7, <1>8, <1>10, <1>11 DEF p

-----------------------------------------------------------------------------
(* The kernel's queue as the runs take it: one overflow to a packet, and no
   cancel between the overflow and its report. *)
WholePackets == ~Redropped /\ ~MidDiscardCalls

(* What is on its way is legal, ends in the driver's contacts, and has so far
   announced what `announced' says. *)
Flow ==
    /\ Legal(view, Pipeline)
    /\ active = After(view, Pipeline)
    /\ announced = After(view, IF discarding THEN Pipeline ELSE ready)

(* After an overflow nothing is down, and nothing is asked before the report. *)
DiscardFindsNothing ==
    discarding => ~resyncNeeded /\ \A s \in Slots : ~active[s] /\ ~announced[s]

Sound == Flow /\ FrameIndexExact /\ ResyncFindsNothing /\ DiscardFindsNothing

IInv == TypeOK /\ Sound

-----------------------------------------------------------------------------
(* What is appended to the frame is indexed. *)
LEMMA AppendedType ==
    ASSUME TypeOK, NEW s \in Slots, NEW new \in Seq(AnEvent),
           AppendToFrame(s, new)
    PROVE  /\ frame' \in Seq(AnEvent) /\ Len(frame') = Len(frame) + Len(new)
           /\ frameEvent' \in [Slots -> 0 .. Len(frame')]
<1>1. frame \in Seq(AnEvent) /\ frameEvent \in [Slots -> 0 .. Len(frame)]
  BY DEF TypeOK, AnEvent
<1>2. frame' \in Seq(AnEvent) /\ Len(frame') = Len(frame) + Len(new)
  BY <1>1, ConcatProperties DEF AppendToFrame
<1>3. Len(frame) \in Nat /\ Len(new) \in Nat
  BY <1>1
<1>4. \A t \in Slots : frameEvent'[t] \in 0 .. Len(frame')
  BY <1>1, <1>2, <1>3 DEF AppendToFrame
<1> QED
  BY <1>1, <1>2, <1>4 DEF AppendToFrame

(* Cleared slots keep their types. *)
LEMMA ClearedType ==
    ASSUME TypeOK, NEW S, ClearSlots(S)
    PROVE  /\ active' \in Views /\ announced' \in Views
           /\ tracking' \in [Slots -> Ids \union {NoId}]
           /\ \A s \in Slots : /\ active'[s] = (s \notin S /\ active[s])
                               /\ announced'[s] = (s \notin S /\ announced[s])
BY DEF TypeOK, ClearSlots, Views

(* So do those that a resynchronisation finds. *)
LEMMA ResyncType ==
    ASSUME TypeOK, NEW live \in LiveContacts,
           NEW selected \in Slots \union {BadSlot}, Resync(live, selected)
    PROVE  /\ DOMAIN live \in SUBSET Slots
           /\ active' \in Views /\ announced' \in Views
           /\ tracking' \in [Slots -> Ids \union {NoId}]
           /\ silent' \in [Slots -> BOOLEAN]
           /\ current' \in Slots \union {BadSlot, 0}
<1>1. PICK S \in SUBSET Slots : live \in [S -> Ids]
  BY DEF LiveContacts
<1>2. DOMAIN live \in SUBSET Slots
  BY <1>1
<1>3. \A s \in DOMAIN live : live[s] \in Ids
  BY <1>1
<1> QED
  BY <1>2, <1>3 DEF TypeOK, Resync, Views

(* The frame without some slots' events is a frame, and its indices lie in
   it, one for every slot that has an event left. *)
LEMMA DiscardedIndex ==
    ASSUME TypeOK, NEW S, DiscardFromFrame(S)
    PROVE  /\ frame' \in Seq(AnEvent)
           /\ frameEvent' \in [Slots -> 0 .. Len(frame')]
           /\ \A i \in DOMAIN frame' : frame'[i].slot \notin S
           /\ \A s \in Slots :
                LET at == {i \in DOMAIN frame' : frame'[i].slot = s}
                IN  IF frameEvent'[s] = 0 THEN at = {}
                    ELSE frameEvent'[s] \in at /\ \A i \in at : i <= frameEvent'[s]
<1> DEFINE at(s) == {i \in DOMAIN frame' : frame'[i].slot = s}
           last(s) == CHOOSE i \in at(s) : \A j \in at(s) : j <= i
<1>1. frame \in Seq(AnEvent) /\ view \in Views
  BY DEF TypeOK, AnEvent, Views
<1>2. frame' \in Seq(AnEvent) /\ \A i \in DOMAIN frame' : frame'[i].slot \notin S
  BY <1>1, WithoutKeeps DEF DiscardFromFrame
<1>3. Len(frame') \in Nat /\ DOMAIN frame' = 1 .. Len(frame')
  BY <1>2
<1>4. ASSUME NEW s \in Slots, at(s) # {}
      PROVE  last(s) \in at(s) /\ \A j \in at(s) : j <= last(s)
  <2> DEFINE K == at(s)
             size == Cardinality(K)
  <2>1. K \in SUBSET Nat /\ K \in SUBSET (1 .. Len(frame'))
    BY <1>3
  <2>2. IsFiniteSet(1 .. Len(frame'))
    BY <1>3, FS_Interval
  <2>3. K # {}
    BY <1>4
  <2> HIDE DEF K
  <2>4. IsFiniteSet(K)
    BY <2>1, <2>2, FS_Subset
  <2>5. /\ size \in Nat
        /\ \A n \in 1 .. size : Nth(K, n) \in K
        /\ \A m, n \in 1 .. size : m < n <=> Nth(K, m) < Nth(K, n)
        /\ \A k \in K : \E n \in 1 .. size : Nth(K, n) = k
    BY <2>1, <2>4, NthOrders
  <2> HIDE DEF size
  <2>6. size \in 1 .. size
    BY <2>3, <2>5
  <2>7. \A k \in K : k <= Nth(K, size)
    <3> TAKE k \in K
    <3>1. PICK n \in 1 .. size : Nth(K, n) = k
      BY <2>5
    <3>2. k \in Nat /\ Nth(K, size) \in Nat
      BY <2>1, <2>5, <2>6
    <3>3. CASE n = size
      BY <3>1, <3>2, <3>3
    <3>4. CASE n < size
      BY <2>5, <2>6, <3>1, <3>2, <3>4
    <3> QED
      BY <2>5, <3>3, <3>4
  <2>8. \E i \in K : \A j \in K : j <= i
    BY <2>5, <2>6, <2>7
  <2> QED
    BY <2>8 DEF K
<1>5. \A s \in Slots : frameEvent'[s] =
        IF s \in S THEN 0 ELSE IF at(s) = {} THEN 0 ELSE last(s)
  BY DEF DiscardFromFrame
<1>6. \A s \in Slots : \A i \in at(s) : i \in 1 .. Len(frame') /\ i # 0
  BY <1>3
<1>7. \A s \in Slots : s \in S => at(s) = {}
  BY <1>2
<1> HIDE DEF at, last
<1>8. \A s \in Slots : IF frameEvent'[s] = 0 THEN at(s) = {}
                       ELSE /\ frameEvent'[s] \in at(s)
                            /\ \A i \in at(s) : i <= frameEvent'[s]
  <2> TAKE s \in Slots
  <2>1. CASE at(s) = {}
    BY <1>5, <2>1
  <2>2. CASE at(s) # {}
    <3>1. s \notin S
      BY <1>7, <2>2
    <3>2. frameEvent'[s] = last(s)
      BY <1>5, <2>2, <3>1
    <3> QED
      BY <1>4, <1>6, <2>2, <3>2
  <2> QED
    BY <2>1, <2>2
<1>9. \A s \in Slots : frameEvent'[s] \in 0 .. Len(frame')
  BY <1>3, <1>6, <1>8
<1>10. frameEvent' \in [Slots -> 0 .. Len(frame')]
  BY <1>9 DEF DiscardFromFrame
<1> QED
  BY <1>2, <1>8, <1>10 DEF at

(* No step, under any packets, takes a variable out of its type. *)
LEMMA TypeStep == TypeOK /\ [Next]_vars => TypeOK'
<1> SUFFICES ASSUME TypeOK, [Next]_vars
             PROVE  TypeOK'
  OBVIOUS
<1> USE DEF AnEvent, Views
<1>0. /\ frame \in Seq(AnEvent) /\ ready \in Seq(AnEvent)
      /\ Len(frame) \in Nat /\ <<>> \in Seq(AnEvent) /\ Len(<<>>) = 0
  BY DEF TypeOK
<1>1. ASSUME NEW s \in Slots \union {BadSlot}, SelectSlot(s)
      PROVE  TypeOK'
  BY <1>1 DEF TypeOK, SelectSlot, slotVars
<1>2. CASE TrackingUp
  <2>1. CASE active[current]
    <3>1. <<Event("UP", current)>> \in Seq(AnEvent)
      BY <1>2 DEF TrackingUp, Event, Kinds
    <3>2. current \in Slots /\ AppendToFrame(current, <<Event("UP", current)>>)
      BY <1>2, <2>1 DEF TrackingUp
    <3>3. frame' \in Seq(AnEvent) /\ frameEvent' \in [Slots -> 0 .. Len(frame')]
      BY <3>1, <3>2, AppendedType
    <3>4. tracking' \in [Slots -> Ids \union {NoId}] /\ active' \in Views
          /\ silent' \in [Slots -> BOOLEAN]
      BY <1>2, <2>1 DEF TrackingUp, TypeOK, Speak
    <3> QED
      BY <1>2, <3>3, <3>4 DEF TrackingUp, TypeOK
  <2>2. CASE ~active[current]
    BY <1>2, <2>2 DEF TrackingUp, TypeOK, Speak
  <2> QED
    BY <2>1, <2>2
<1>3. ASSUME NEW id \in Ids, TrackingDown(id)
      PROVE  TypeOK'
  <2> DEFINE first == IF active[current] THEN <<Event("CANCEL", current)>> ELSE <<>>
             new == first \o <<Event("DOWN", current)>>
  <2>1. current \in Slots
    BY <1>3 DEF TrackingDown
  <2>2. CASE active[current] /\ tracking[current] = id
    BY <1>3, <2>2 DEF TrackingDown, TypeOK, Speak
  <2>3. CASE ~(active[current] /\ tracking[current] = id)
    <3>1. first \in Seq(AnEvent) /\ <<Event("DOWN", current)>> \in Seq(AnEvent)
      <4>1. Event("CANCEL", current) \in AnEvent /\ Event("DOWN", current) \in AnEvent
        BY <2>1 DEF Event, Kinds
      <4>2. <<Event("CANCEL", current)>> \in Seq(AnEvent)
            /\ <<Event("DOWN", current)>> \in Seq(AnEvent)
        BY <4>1
      <4> QED
        BY <1>0, <4>2
    <3>2. new \in Seq(AnEvent)
      BY <3>1, ConcatProperties
    <3>3. AppendToFrame(current, new)
      BY <1>3, <2>3 DEF TrackingDown
    <3> HIDE DEF new
    <3>4. frame' \in Seq(AnEvent) /\ frameEvent' \in [Slots -> 0 .. Len(frame')]
      BY <2>1, <3>2, <3>3, AppendedType
    <3>5. tracking' \in [Slots -> Ids \union {NoId}] /\ active' \in Views
          /\ silent' \in [Slots -> BOOLEAN]
      BY <1>3, <2>3 DEF TrackingDown, TypeOK, Speak
    <3> QED
      BY <1>3, <3>4, <3>5 DEF TrackingDown, TypeOK
  <2> QED
    BY <2>2, <2>3
<1>4. CASE Position
  <2> DEFINE moves == active[current] /\ (\/ frameEvent[current] = 0
                        \/ frame[frameEvent[current]].kind \notin {"DOWN", "MOVE"})
  <2>1. CASE moves
    <3>1. <<Event("MOVE", current)>> \in Seq(AnEvent)
      BY <1>4 DEF Position, Event, Kinds
    <3>2. current \in Slots /\ AppendToFrame(current, <<Event("MOVE", current)>>)
      BY <1>4, <2>1 DEF Position
    <3>3. frame' \in Seq(AnEvent) /\ frameEvent' \in [Slots -> 0 .. Len(frame')]
      BY <3>1, <3>2, AppendedType
    <3>4. silent' \in [Slots -> BOOLEAN]
      BY <1>4 DEF Position, TypeOK, Speak
    <3> QED
      BY <1>4, <3>3, <3>4 DEF Position, TypeOK
  <2>2. CASE ~moves
    BY <1>4, <2>2 DEF Position, TypeOK, Speak
  <2> QED
    BY <2>1, <2>2
<1>5. CASE SynReport
  <2>1. ready' \in Seq(AnEvent)
    BY <1>0, <1>5, ConcatProperties DEF SynReport, Publish
  <2>2. announced' \in Views
    BY <1>5 DEF SynReport, TypeOK, Visible, VisibleAfter
  <2>3. frame' = <<>> /\ frameEvent' \in [Slots -> 0 .. Len(frame')]
    BY <1>0, <1>5 DEF SynReport, Publish
  <2> QED
    BY <1>0, <1>5, <2>1, <2>2, <2>3 DEF SynReport, TypeOK
<1>6. CASE SynDropped
  <2>1. frame' \in Seq(AnEvent)
    BY <1>6, EventsForSlots DEF SynDropped, Kinds, Announced
  <2>2. /\ active' \in Views /\ announced' \in Views
        /\ tracking' \in [Slots -> Ids \union {NoId}]
    BY <1>6, ClearedType DEF SynDropped
  <2>3. frameEvent' \in [Slots -> 0 .. Len(frame')]
    BY <1>6, <2>1 DEF SynDropped
  <2> QED
    BY <1>6, <2>1, <2>2, <2>3 DEF SynDropped, TypeOK
<1>7. CASE SynReportResync
  <2>1. ASSUME NEW live \in LiveContacts, NEW selected \in Slots \union {BadSlot},
               Publish(EventsFor("DOWN", DOMAIN live)), Resync(live, selected)
        PROVE  TypeOK'
    <3>1. /\ DOMAIN live \in SUBSET Slots
          /\ active' \in Views /\ announced' \in Views
          /\ tracking' \in [Slots -> Ids \union {NoId}]
          /\ silent' \in [Slots -> BOOLEAN]
          /\ current' \in Slots \union {BadSlot, 0}
      BY <2>1, ResyncType
    <3>2. EventsFor("DOWN", DOMAIN live) \in Seq(AnEvent)
      BY <3>1, EventsForSlots DEF Kinds
    <3>3. ready' \in Seq(AnEvent)
      BY <1>0, <2>1, <3>2, ConcatProperties DEF Publish
    <3>4. frame' = <<>> /\ frameEvent' \in [Slots -> 0 .. Len(frame')]
      BY <1>0, <2>1 DEF Publish
    <3>5. discarding' \in BOOLEAN /\ resyncNeeded' \in BOOLEAN /\ view' = view
      BY <1>7 DEF SynReportResync
    <3> QED
      BY <1>0, <3>1, <3>3, <3>4, <3>5 DEF TypeOK
  <2>2. CASE /\ Publish(<<>>)
             /\ UNCHANGED <<active, announced, tracking, silent, current>>
    <3>1. ready' \in Seq(AnEvent)
      BY <1>0, <2>2, ConcatProperties DEF Publish
    <3>2. frame' = <<>> /\ frameEvent' \in [Slots -> 0 .. Len(frame')]
      BY <1>0, <2>2 DEF Publish
    <3>3. discarding' \in BOOLEAN /\ resyncNeeded' \in BOOLEAN /\ view' = view
      BY <1>7 DEF SynReportResync
    <3> QED
      BY <1>0, <2>2, <3>1, <3>2, <3>3 DEF TypeOK
  <2> QED
    BY <1>7, <2>1, <2>2 DEF SynReportResync
<1>8. CASE ResyncRetry
  <2>1. PICK live \in LiveContacts, selected \in Slots \union {BadSlot} :
          /\ ready' = ready \o EventsFor("DOWN", DOMAIN live)
          /\ Resync(live, selected)
          /\ frameEvent' = [s \in Slots |->
                IF s \in DOMAIN live THEN 0 ELSE frameEvent[s]]
    BY <1>8 DEF ResyncRetry
  <2>2. /\ DOMAIN live \in SUBSET Slots
        /\ active' \in Views /\ announced' \in Views
        /\ tracking' \in [Slots -> Ids \union {NoId}]
        /\ silent' \in [Slots -> BOOLEAN]
        /\ current' \in Slots \union {BadSlot, 0}
    BY <2>1, ResyncType
  <2>3. EventsFor("DOWN", DOMAIN live) \in Seq(AnEvent)
    BY <2>2, EventsForSlots DEF Kinds
  <2>4. ready' \in Seq(AnEvent)
    BY <1>0, <2>1, <2>3, ConcatProperties
  <2>5. frameEvent' \in [Slots -> 0 .. Len(frame)]
    BY <1>0, <2>1 DEF TypeOK
  <2>6. /\ resyncNeeded' \in BOOLEAN
        /\ UNCHANGED <<discarding, frame, view>>
    BY <1>8 DEF ResyncRetry
  <2> QED
    BY <2>2, <2>4, <2>5, <2>6 DEF TypeOK
<1>9. CASE Expire
  <2>1. /\ frame' \in Seq(AnEvent) /\ frameEvent' \in [Slots -> 0 .. Len(frame')]
    BY <1>9, DiscardedIndex DEF Expire
  <2>2. /\ active' \in Views /\ announced' \in Views
        /\ tracking' \in [Slots -> Ids \union {NoId}]
    BY <1>9, ClearedType DEF Expire
  <2>3. EventsFor("CANCEL", Stale \intersect Announced) \in Seq(AnEvent)
    BY EventsForSlots DEF Kinds, Announced
  <2>4. ready' \in Seq(AnEvent)
    BY <1>0, <1>9, <2>3, ConcatProperties DEF Expire
  <2> QED
    BY <1>9, <2>1, <2>2, <2>4 DEF Expire, TypeOK
<1>10. CASE CancelAll
  <2>1. /\ active' \in Views /\ announced' \in Views
        /\ tracking' \in [Slots -> Ids \union {NoId}]
    BY <1>10, ClearedType DEF CancelAll
  <2>2. EventsFor("CANCEL", Announced) \in Seq(AnEvent)
    BY EventsForSlots DEF Kinds, Announced
  <2>3. ready' \in Seq(AnEvent)
    BY <1>0, <1>10, <2>2, ConcatProperties DEF CancelAll
  <2>4. frame' = <<>> /\ frameEvent' \in [Slots -> 0 .. Len(frame')]
    BY <1>0, <1>10 DEF CancelAll
  <2> QED
    BY <1>0, <1>10, <2>1, <2>3, <2>4 DEF CancelAll, TypeOK
<1>11. CASE Drain
  <2>1. ready' \in Seq(AnEvent) /\ Head(ready) \in AnEvent
    BY <1>0, <1>11, HeadTailProperties DEF Drain
  <2>2. view' \in Views
    BY <1>11, <2>1 DEF Drain, TypeOK, Visible, VisibleAfter
  <2> QED
    BY <1>11, <2>1, <2>2 DEF Drain, TypeOK, slotVars
<1>12. ASSUME NEW s \in Slots, FallSilent(s)
       PROVE  TypeOK'
  BY <1>12 DEF FallSilent, TypeOK, slotVars
<1>13. CASE UNCHANGED vars
  BY <1>13 DEF vars, slotVars, TypeOK
<1> QED
  BY <1>1, <1>2, <1>3, <1>4, <1>5, <1>6, <1>7, <1>8, <1>9, <1>10, <1>11, <1>12,
     <1>13 DEF Next, RawEvent

-----------------------------------------------------------------------------
(* The three parts of the stream, and what they are taken from. *)
LEMMA Streams ==
    ASSUME TypeOK
    PROVE  /\ frame \in Seq(AnEvent) /\ ready \in Seq(AnEvent)
           /\ Pipeline \in Seq(AnEvent)
           /\ view \in Views /\ active \in Views /\ announced \in Views
           /\ Pipeline = ready \o frame
BY ConcatProperties DEF TypeOK, AnEvent, Views, Pipeline

(* A legal event more in the frame. *)
LEMMA AppendedFlow ==
    ASSUME TypeOK, Flow, ~discarding,
           NEW new \in Seq(AnEvent), Legal(active, new),
           frame' = frame \o new, active' = After(active, new),
           UNCHANGED <<announced, discarding, ready, view>>
    PROVE  Flow'
<1>1. /\ frame \in Seq(AnEvent) /\ ready \in Seq(AnEvent)
      /\ Pipeline \in Seq(AnEvent) /\ view \in Views
  BY Streams
<1>2. Pipeline' = Pipeline \o new
  BY <1>1, ConcatAssociative DEF Pipeline
<1>3. /\ After(view, Pipeline \o new) = After(active, new)
      /\ Legal(view, Pipeline \o new)
  BY <1>1, Concatenated DEF Flow
<1> QED
  BY <1>2, <1>3 DEF Flow

(* The last of the events appended is the slot's latest. *)
LEMMA AppendedIndex ==
    ASSUME TypeOK, FrameIndexExact, NEW s \in Slots,
           NEW new \in Seq(AnEvent), new # <<>>,
           \A i \in 1 .. Len(new) : new[i].slot = s,
           AppendToFrame(s, new), UNCHANGED discarding
    PROVE  FrameIndexExact'
<1> DEFINE at(t) == {i \in DOMAIN frame : frame[i].slot = t}
           now(t) == {i \in DOMAIN frame' : frame'[i].slot = t}
<1>1. frame \in Seq(AnEvent) /\ Len(frame) \in Nat /\ Len(new) \in Nat
      /\ Len(new) > 0 /\ frameEvent \in [Slots -> 0 .. Len(frame)]
  BY DEF TypeOK, AnEvent
<1>2. /\ frame' \in Seq(AnEvent) /\ Len(frame') = Len(frame) + Len(new)
      /\ \A i \in 1 .. Len(frame) + Len(new) :
            frame'[i] = IF i <= Len(frame) THEN frame[i] ELSE new[i - Len(frame)]
  BY <1>1, ConcatProperties DEF AppendToFrame
<1>3. DOMAIN frame = 1 .. Len(frame) /\ DOMAIN frame' = 1 .. Len(frame')
  BY <1>1, <1>2
<1>4. ASSUME NEW t \in Slots
      PROVE  IF frameEvent'[t] = 0 THEN discarding' \/ now(t) = {}
             ELSE frameEvent'[t] \in now(t) /\ \A i \in now(t) : i <= frameEvent'[t]
  <2>1. CASE t = s
    <3>1. frameEvent'[t] = Len(frame') /\ Len(frame') # 0
      BY <1>1, <1>2, <2>1 DEF AppendToFrame
    <3>2. frame'[Len(frame')].slot = s
      BY <1>1, <1>2
    <3> QED
      BY <1>1, <1>2, <1>3, <2>1, <3>1, <3>2
  <2>2. CASE t # s
    <3>1. \A i \in 1 .. Len(frame') :
             frame'[i].slot = t <=> i <= Len(frame) /\ frame[i].slot = t
      <4> TAKE i \in 1 .. Len(frame')
      <4>1. CASE i <= Len(frame)
        BY <1>1, <1>2, <4>1
      <4>2. CASE i > Len(frame)
        <5>1. i - Len(frame) \in 1 .. Len(new)
          BY <1>1, <1>2, <4>2
        <5> QED
          BY <1>1, <1>2, <2>2, <4>2, <5>1
      <4> QED
        BY <1>1, <1>2, <4>1, <4>2
    <3>2. now(t) = at(t)
      BY <1>1, <1>2, <1>3, <3>1
    <3>3. frameEvent'[t] = frameEvent[t]
      BY <1>1, <2>2 DEF AppendToFrame
    <3> HIDE DEF now
    <3> QED
      BY <3>2, <3>3 DEF FrameIndexExact
  <2> QED
    BY <2>1, <2>2
<1> QED
  BY <1>4 DEF FrameIndexExact

(* A lift ends a contact that is visible by then. *)
LEMMA UpStep ==
    ASSUME TypeOK, Sound, TrackingUp
    PROVE  Sound'
<1> DEFINE e == Event("UP", current)
<1>1. /\ ~discarding /\ ~resyncNeeded /\ current \in Slots
      /\ UNCHANGED <<announced, discarding, ready, resyncNeeded, view>>
  BY DEF TrackingUp, Decoding, Reading
<1>2. ResyncFindsNothing' /\ DiscardFindsNothing'
  BY <1>1 DEF ResyncFindsNothing, DiscardFindsNothing
<1>3. CASE ~active[current]
  BY <1>1, <1>2, <1>3
     DEF TrackingUp, Sound, Flow, FrameIndexExact, Pipeline
<1>4. CASE active[current]
  <2>1. e \in AnEvent /\ e.kind = "UP" /\ e.slot = current
    BY <1>1 DEF Event, AnEvent, Kinds
  <2>2. /\ AppendToFrame(current, <<e>>)
        /\ active' = [active EXCEPT ![current] = FALSE]
    BY <1>4 DEF TrackingUp
  <2> HIDE DEF e
  <2>3. /\ <<e>> \in Seq(AnEvent)
        /\ Legal(active, <<e>>)
        /\ After(active, <<e>>) = active'
    BY <1>4, <2>1, <2>2, OneEvent, Streams
  <2>4. Flow'
    BY <1>1, <2>2, <2>3, AppendedFlow DEF Sound, AppendToFrame
  <2>5. <<e>> # <<>> /\ \A i \in 1 .. Len(<<e>>) : <<e>>[i].slot = current
    BY <2>1
  <2>6. FrameIndexExact'
    BY <1>1, <2>2, <2>3, <2>5, AppendedIndex DEF Sound
  <2> QED
    BY <1>2, <2>4, <2>6 DEF Sound
<1> QED
  BY <1>3, <1>4

(* A contact that begins over another cancels it first. *)
LEMMA DownStep ==
    ASSUME TypeOK, Sound, NEW id \in Ids, TrackingDown(id)
    PROVE  Sound'
<1> DEFINE cancel == Event("CANCEL", current)
           down == Event("DOWN", current)
           new == (IF active[current] THEN <<cancel>> ELSE <<>>) \o <<down>>
<1>1. /\ ~discarding /\ ~resyncNeeded /\ current \in Slots
      /\ UNCHANGED <<announced, discarding, ready, resyncNeeded, view>>
  BY DEF TrackingDown, Decoding, Reading
<1>2. ResyncFindsNothing' /\ DiscardFindsNothing'
  BY <1>1 DEF ResyncFindsNothing, DiscardFindsNothing
<1>3. CASE active[current] /\ tracking[current] = id
  BY <1>1, <1>2, <1>3
     DEF TrackingDown, Sound, Flow, FrameIndexExact, Pipeline
<1>4. CASE ~(active[current] /\ tracking[current] = id)
  <2>1. /\ down \in AnEvent /\ down.kind = "DOWN" /\ down.slot = current
        /\ cancel \in AnEvent /\ cancel.kind = "CANCEL" /\ cancel.slot = current
    BY <1>1 DEF Event, AnEvent, Kinds
  <2>2. /\ AppendToFrame(current, new)
        /\ active' = [active EXCEPT ![current] = TRUE]
    BY <1>4 DEF TrackingDown
  <2>3. active \in Views /\ active[current] \in BOOLEAN
    BY <1>1 DEF TypeOK, Views
  <2> HIDE DEF cancel, down
  <2>4. <<cancel>> \in Seq(AnEvent) /\ <<down>> \in Seq(AnEvent)
        /\ <<>> \in Seq(AnEvent)
    BY <2>1
  <2>5. CASE active[current]
    <3> DEFINE ended == [active EXCEPT ![current] = FALSE]
    <3>1. new = <<cancel>> \o <<down>>
      BY <2>5
    <3>2. ended \in Views /\ ~ended[current]
          /\ [ended EXCEPT ![current] = TRUE] = active'
      BY <1>1, <2>2, <2>3 DEF Views
    <3>3. Legal(active, <<cancel>>) /\ After(active, <<cancel>>) = ended
      BY <2>1, <2>3, <2>5, OneEvent
    <3> HIDE DEF ended
    <3>4. Legal(ended, <<down>>) /\ After(ended, <<down>>) = active'
      BY <2>1, <3>2, OneEvent
    <3> HIDE DEF new
    <3>5. /\ new \in Seq(AnEvent) /\ Legal(active, new)
          /\ After(active, new) = active'
      <4>1. /\ <<cancel>> \o <<down>> \in Seq(AnEvent)
            /\ After(active, <<cancel>> \o <<down>>) = After(ended, <<down>>)
            /\ Legal(active, <<cancel>> \o <<down>>)
        BY <2>3, <2>4, <3>3, <3>4, Concatenated
      <4> QED
        BY <3>1, <3>4, <4>1
    <3>6. new # <<>> /\ \A i \in 1 .. Len(new) : new[i].slot = current
      <4>1. /\ Len(<<cancel>>) = 1 /\ Len(<<down>>) = 1
            /\ <<cancel>>[1] = cancel /\ <<down>>[1] = down
        OBVIOUS
      <4>2. /\ Len(new) = 2
            /\ \A i \in 1 .. 2 : new[i] = IF i <= 1 THEN <<cancel>>[i]
                                         ELSE <<down>>[i - 1]
        BY <2>4, <3>1, <4>1, ConcatProperties
      <4>3. new[1] = cancel /\ new[2] = down
        BY <4>1, <4>2
      <4> QED
        BY <2>1, <4>2, <4>3
    <3>7. Flow'
      BY <1>1, <2>2, <3>5, AppendedFlow DEF Sound, AppendToFrame
    <3>8. FrameIndexExact'
      BY <1>1, <2>2, <3>5, <3>6, AppendedIndex DEF Sound
    <3> QED
      BY <1>2, <3>7, <3>8 DEF Sound
  <2>6. CASE ~active[current]
    <3>1. new = <<down>>
      BY <2>4, <2>6
    <3>2. /\ new \in Seq(AnEvent) /\ Legal(active, new)
          /\ After(active, new) = active'
      BY <2>1, <2>2, <2>3, <2>4, <2>6, <3>1, OneEvent
    <3>3. new # <<>> /\ \A i \in 1 .. Len(new) : new[i].slot = current
      BY <2>1, <3>1
    <3> HIDE DEF new
    <3>4. Flow'
      BY <1>1, <2>2, <3>2, AppendedFlow DEF Sound, AppendToFrame
    <3>5. FrameIndexExact'
      BY <1>1, <2>2, <3>2, <3>3, AppendedIndex DEF Sound
    <3> QED
      BY <1>2, <3>4, <3>5 DEF Sound
  <2> QED
    BY <2>3, <2>5, <2>6
<1> QED
  BY <1>3, <1>4

(* A position only moves a contact that is there. *)
LEMMA PositionStep ==
    ASSUME TypeOK, Sound, Position
    PROVE  Sound'
<1> DEFINE e == Event("MOVE", current)
           moves == active[current] /\ (\/ frameEvent[current] = 0
                        \/ frame[frameEvent[current]].kind \notin {"DOWN", "MOVE"})
<1>1. /\ ~discarding /\ ~resyncNeeded /\ current \in Slots
      /\ UNCHANGED <<active, announced, discarding, ready, resyncNeeded, view>>
  BY DEF Position, Decoding, Reading
<1>2. ResyncFindsNothing' /\ DiscardFindsNothing'
  BY <1>1 DEF ResyncFindsNothing, DiscardFindsNothing
<1>3. CASE ~moves
  BY <1>1, <1>2, <1>3
     DEF Position, Sound, Flow, FrameIndexExact, Pipeline
<1>4. CASE moves
  <2>1. e \in AnEvent /\ e.kind = "MOVE" /\ e.slot = current
    BY <1>1 DEF Event, AnEvent, Kinds
  <2>2. AppendToFrame(current, <<e>>) /\ active[current]
    BY <1>4 DEF Position
  <2> HIDE DEF e, moves
  <2>3. /\ <<e>> \in Seq(AnEvent)
        /\ Legal(active, <<e>>)
        /\ After(active, <<e>>) = active'
    BY <1>1, <2>1, <2>2, OneEvent, Streams
  <2>4. Flow'
    BY <1>1, <2>2, <2>3, AppendedFlow DEF Sound, AppendToFrame
  <2>5. <<e>> # <<>> /\ \A i \in 1 .. Len(<<e>>) : <<e>>[i].slot = current
    BY <2>1
  <2>6. FrameIndexExact'
    BY <1>1, <2>2, <2>3, <2>5, AppendedIndex DEF Sound
  <2> QED
    BY <1>2, <2>4, <2>6 DEF Sound
<1> QED
  BY <1>3, <1>4

-----------------------------------------------------------------------------
(* An empty frame has no index to be wrong about. *)
LEMMA EmptyFrameIndex ==
    ASSUME frame' = <<>>, frameEvent' = [s \in Slots |-> 0]
    PROVE  FrameIndexExact'
BY DEF FrameIndexExact

(* A frame, and what follows it, moves from the frame to the ready events. *)
LEMMA Published ==
    ASSUME TypeOK, NEW tail \in Seq(AnEvent), Publish(tail)
    PROVE  /\ ready' = Pipeline \o tail /\ Pipeline' = Pipeline \o tail
           /\ frame' = <<>> /\ frameEvent' = [s \in Slots |-> 0]
<1>1. frame \in Seq(AnEvent) /\ ready \in Seq(AnEvent) /\ Pipeline \in Seq(AnEvent)
  BY Streams
<1>2. ready' = Pipeline \o tail /\ frame' = <<>> /\ ready' \in Seq(AnEvent)
  BY <1>1, ConcatProperties DEF Publish, Pipeline
<1>3. ready' \o <<>> = ready'
  BY <1>2, ConcatEmptySeq
<1> QED
  BY <1>2, <1>3 DEF Publish, Pipeline

(* The report of a packet publishes it. *)
LEMMA SynReportStep ==
    ASSUME TypeOK, Sound, SynReport
    PROVE  Sound'
<1>1. /\ ~discarding /\ ~resyncNeeded
      /\ UNCHANGED <<active, discarding, resyncNeeded, view>>
      /\ announced' = After(announced, frame)
  BY DEF SynReport, After
<1>2. /\ frame \in Seq(AnEvent) /\ ready \in Seq(AnEvent)
      /\ Pipeline \in Seq(AnEvent) /\ view \in Views /\ Pipeline = ready \o frame
      /\ <<>> \in Seq(AnEvent)
  BY Streams
<1>3. /\ ready' = Pipeline \o <<>> /\ Pipeline' = Pipeline \o <<>>
      /\ frame' = <<>> /\ frameEvent' = [s \in Slots |-> 0]
  BY <1>2, Published DEF SynReport
<1>4. Pipeline \o <<>> = Pipeline
  BY <1>2, ConcatEmptySeq
<1>5. After(view, Pipeline) = After(announced, frame)
  BY <1>1, <1>2, Concatenated DEF Sound, Flow
<1>6. Flow'
  BY <1>1, <1>3, <1>4, <1>5 DEF Sound, Flow
<1> QED
  BY <1>1, <1>3, <1>6, EmptyFrameIndex
     DEF Sound, ResyncFindsNothing, DiscardFindsNothing

(* An overflow replaces the frame by the CANCELs of what was announced. *)
LEMMA SynDroppedStep ==
    ASSUME WholePackets, TypeOK, Sound, SynDropped
    PROVE  Sound'
<1>1. /\ ~discarding /\ discarding' /\ ~resyncNeeded' /\ ~resyncNeeded
      /\ UNCHANGED <<ready, view>>
      /\ frame' = EventsFor("CANCEL", Announced)
      /\ frameEvent' = [s \in Slots |-> 0]
  BY DEF SynDropped, WholePackets
<1>2. /\ frame \in Seq(AnEvent) /\ ready \in Seq(AnEvent)
      /\ view \in Views /\ announced \in Views /\ Pipeline = ready \o frame
  BY Streams
<1>3. Legal(view, ready) /\ announced = After(view, ready)
  BY <1>1, <1>2, Concatenated DEF Sound, Flow
<1>4. /\ active' \in Views /\ announced' \in Views
      /\ \A s \in Slots : ~active'[s] /\ ~announced'[s]
  BY ClearedType DEF SynDropped
<1>5. /\ frame' \in Seq(AnEvent) /\ Legal(announced, frame')
      /\ \A s \in Slots : After(announced, frame')[s] =
                            (s \notin Announced /\ announced[s])
  <2>1. Announced \in SUBSET Slots /\ \A s \in Announced : announced[s]
    BY DEF Announced
  <2> QED
    BY <1>1, <1>2, <2>1, Cancels
<1>6. After(announced, frame') \in Views
  BY <1>2, AfterType
<1>7. \A s \in Slots : ~After(announced, frame')[s]
  BY <1>5 DEF Announced
<1>8. After(announced, frame') = active' /\ active' = announced'
  BY <1>4, <1>6, <1>7 DEF Views
<1>9. Pipeline' = ready \o frame'
  BY <1>1 DEF Pipeline
<1>10. Flow'
  <2>1. /\ After(view, ready \o frame') = After(announced, frame')
        /\ Legal(view, ready \o frame')
    BY <1>2, <1>3, <1>5, Concatenated
  <2> QED
    BY <1>1, <1>8, <1>9, <2>1 DEF Flow
<1>11. FrameIndexExact'
  BY <1>1 DEF FrameIndexExact
<1> QED
  BY <1>1, <1>4, <1>10, <1>11 DEF Sound, ResyncFindsNothing, DiscardFindsNothing

(* What the kernel names is announced where nothing is. *)
LEMMA Announces ==
    ASSUME TypeOK, Sound, \A s \in Slots : ~active[s] /\ ~announced[s],
           NEW live \in LiveContacts, NEW selected \in Slots \union {BadSlot},
           Resync(live, selected), ~discarding', UNCHANGED view,
           ready' = Pipeline \o EventsFor("DOWN", DOMAIN live),
           frame' = <<>>
    PROVE  Flow'
<1> DEFINE new == EventsFor("DOWN", DOMAIN live)
<1>1. /\ Pipeline \in Seq(AnEvent) /\ view \in Views /\ active \in Views
  BY Streams
<1>2. /\ DOMAIN live \in SUBSET Slots /\ active' \in Views /\ announced' \in Views
  BY ResyncType
<1>3. /\ new \in Seq(AnEvent) /\ Legal(active, new)
      /\ \A s \in Slots : After(active, new)[s] = (s \in DOMAIN live \/ active[s])
  <2>1. \A s \in DOMAIN live : ~active[s]
    BY <1>2
  <2> QED
    BY <1>1, <1>2, <2>1, Downs
<1> HIDE DEF new
<1>4. After(active, new) \in Views
  BY <1>1, AfterType
<1>5. \A s \in Slots : /\ active'[s] = (s \in DOMAIN live)
                       /\ announced'[s] = (s \in DOMAIN live)
                       /\ After(active, new)[s] = (s \in DOMAIN live)
  BY <1>1, <1>3 DEF Resync, Views
<1>6. active' = After(active, new) /\ announced' = After(active, new)
  BY <1>2, <1>4, <1>5 DEF Views
<1>7. /\ Pipeline \o new \in Seq(AnEvent)
      /\ After(view, Pipeline \o new) = After(active, new)
      /\ Legal(view, Pipeline \o new)
  BY <1>1, <1>3, Concatenated DEF Sound, Flow
<1>8. ready' = Pipeline \o new /\ Pipeline' = Pipeline \o new
  <2>1. (Pipeline \o new) \o <<>> = Pipeline \o new
    BY <1>7, ConcatEmptySeq
  <2> QED
    BY <2>1 DEF new, Pipeline
<1> QED
  BY <1>6, <1>7, <1>8 DEF Flow

(* The report after an overflow: the CANCELs go out, and then what the kernel
   names, or nothing if it does not answer. *)
LEMMA SynReportResyncStep ==
    ASSUME TypeOK, Sound, SynReportResync
    PROVE  Sound'
<1>1. /\ discarding /\ ~discarding' /\ UNCHANGED view
      /\ \A s \in Slots : ~active[s] /\ ~announced[s]
  BY DEF SynReportResync, Sound, DiscardFindsNothing
<1>2. Pipeline \in Seq(AnEvent) /\ <<>> \in Seq(AnEvent)
  BY Streams
<1>3. ASSUME NEW live \in LiveContacts, NEW selected \in Slots \union {BadSlot},
             Publish(EventsFor("DOWN", DOMAIN live)), Resync(live, selected),
             ~resyncNeeded'
      PROVE  Sound'
  <2>1. EventsFor("DOWN", DOMAIN live) \in Seq(AnEvent)
    BY <1>3, ResyncType, EventsForSlots DEF Kinds
  <2>2. /\ ready' = Pipeline \o EventsFor("DOWN", DOMAIN live)
        /\ frame' = <<>> /\ frameEvent' = [s \in Slots |-> 0]
    BY <1>3, <2>1, Published
  <2>3. Flow'
    BY <1>1, <1>3, <2>2, Announces
  <2> QED
    BY <1>1, <1>3, <2>2, <2>3, EmptyFrameIndex
       DEF Sound, ResyncFindsNothing, DiscardFindsNothing
<1>4. CASE Publish(<<>>) /\ UNCHANGED <<active, announced, tracking, silent, current>>
  <2>1. /\ ready' = Pipeline \o <<>> /\ Pipeline' = Pipeline \o <<>>
        /\ frame' = <<>> /\ frameEvent' = [s \in Slots |-> 0]
    BY <1>2, <1>4, Published
  <2>2. Pipeline \o <<>> = Pipeline
    BY <1>2, ConcatEmptySeq
  <2>3. Flow'
    BY <1>1, <1>4, <2>1, <2>2 DEF Sound, Flow
  <2> QED
    BY <1>1, <1>4, <2>1, <2>3, EmptyFrameIndex
       DEF Sound, ResyncFindsNothing, DiscardFindsNothing
<1> QED
  BY <1>3, <1>4 DEF SynReportResync

(* The retry finds an empty frame, and nothing announced. *)
LEMMA ResyncRetryStep ==
    ASSUME TypeOK, Sound, ResyncRetry
    PROVE  Sound'
<1>1. /\ ~resyncNeeded' /\ ~discarding /\ UNCHANGED <<discarding, frame, view>>
      /\ frame = <<>> /\ \A s \in Slots : ~active[s] /\ ~announced[s]
  BY DEF ResyncRetry, Sound, ResyncFindsNothing, DiscardFindsNothing
<1>2. PICK live \in LiveContacts, selected \in Slots \union {BadSlot} :
        /\ ready' = ready \o EventsFor("DOWN", DOMAIN live)
        /\ Resync(live, selected)
        /\ frameEvent' = [s \in Slots |->
              IF s \in DOMAIN live THEN 0 ELSE frameEvent[s]]
  BY DEF ResyncRetry
<1>3. Pipeline = ready
  <2>1. ready \in Seq(AnEvent)
    BY Streams
  <2> QED
    BY <1>1, <2>1, ConcatEmptySeq DEF Pipeline
<1>4. Flow'
  BY <1>1, <1>2, <1>3, Announces
<1>5. frameEvent' = [s \in Slots |-> 0]
  <2>1. \A s \in Slots : frameEvent[s] = 0
    BY <1>1 DEF TypeOK
  <2> QED
    BY <1>2, <2>1
<1> QED
  BY <1>1, <1>4, <1>5, EmptyFrameIndex
     DEF Sound, ResyncFindsNothing, DiscardFindsNothing

(* Contacts that are cancelled into the ready events, some or all of them. *)
LEMMA Cancelled ==
    ASSUME TypeOK, Sound, ~discarding, NEW S \in SUBSET Slots, ClearSlots(S),
           ready' = ready \o EventsFor("CANCEL", S \intersect Announced),
           UNCHANGED view
    PROVE  /\ ready' \in Seq(AnEvent) /\ Legal(view, ready')
           /\ announced' = After(view, ready')
<1> DEFINE new == EventsFor("CANCEL", S \intersect Announced)
<1>1. /\ frame \in Seq(AnEvent) /\ ready \in Seq(AnEvent)
      /\ view \in Views /\ announced \in Views /\ Pipeline = ready \o frame
  BY Streams
<1>2. Legal(view, ready) /\ announced = After(view, ready)
  BY <1>1, Concatenated DEF Sound, Flow
<1>3. /\ new \in Seq(AnEvent) /\ Legal(announced, new)
      /\ \A s \in Slots : After(announced, new)[s] =
             (s \notin S \intersect Announced /\ announced[s])
  <2>1. /\ S \intersect Announced \in SUBSET Slots
        /\ \A s \in S \intersect Announced : announced[s]
    BY DEF Announced
  <2> QED
    BY <1>1, <2>1, Cancels
<1> HIDE DEF new
<1>4. After(announced, new) \in Views
  BY <1>1, AfterType
<1>5. announced' \in Views /\ \A s \in Slots :
          announced'[s] = (s \notin S /\ announced[s])
  BY ClearedType
<1>6. \A s \in Slots : announced'[s] = After(announced, new)[s]
  BY <1>1, <1>3, <1>5 DEF Announced, Views
<1>7. announced' = After(announced, new)
  BY <1>4, <1>5, <1>6 DEF Views
<1>8. /\ ready \o new \in Seq(AnEvent)
      /\ After(view, ready \o new) = After(announced, new)
      /\ Legal(view, ready \o new)
  BY <1>1, <1>2, <1>3, Concatenated
<1> QED
  BY <1>7, <1>8 DEF new

(* What falls silent is cancelled and leaves the frame. *)
LEMMA ExpireStep ==
    ASSUME TypeOK, Sound, Expire
    PROVE  Sound'
<1>1. /\ ~discarding /\ ~resyncNeeded
      /\ UNCHANGED <<discarding, resyncNeeded, view>>
      /\ Stale \in SUBSET Slots
  BY DEF Expire, Stale, Sound, ResyncFindsNothing, DiscardFindsNothing
<1>2. /\ frame \in Seq(AnEvent) /\ ready \in Seq(AnEvent)
      /\ view \in Views /\ announced \in Views /\ active \in Views
      /\ Pipeline = ready \o frame
  BY Streams
<1>3. /\ ready' \in Seq(AnEvent) /\ Legal(view, ready')
      /\ announced' = After(view, ready')
  BY <1>1, Cancelled DEF Expire
<1>4. /\ active' \in Views /\ announced' \in Views
      /\ \A s \in Slots : /\ active'[s] = (s \notin Stale /\ active[s])
                          /\ announced'[s] = (s \notin Stale /\ announced[s])
  BY ClearedType DEF Expire
<1>5. Legal(announced, frame) /\ active = After(announced, frame)
  BY <1>1, <1>2, Concatenated DEF Sound, Flow
<1>6. frame' = Without(frame, Stale)
  BY DEF Expire, DiscardFromFrame
<1>7. \A s \in Slots \ Stale : announced'[s] = announced[s]
  BY <1>2, <1>4 DEF Views
<1>8. /\ frame' \in Seq(AnEvent) /\ Legal(announced', frame')
      /\ \A s \in Slots : After(announced', frame')[s] =
             IF s \in Stale THEN announced'[s] ELSE active[s]
  <2> DEFINE w == announced'
  <2>1. w \in Views /\ \A s \in Slots \ Stale : w[s] = announced[s]
    BY <1>4, <1>7
  <2> HIDE DEF w
  <2>2. /\ Without(frame, Stale) \in Seq(AnEvent)
        /\ Legal(w, Without(frame, Stale))
        /\ \A s \in Slots : After(w, Without(frame, Stale))[s] =
               IF s \in Stale THEN w[s] ELSE After(announced, frame)[s]
    BY <1>2, <1>5, <2>1, WithoutKeeps
  <2> QED
    BY <1>5, <1>6, <2>2 DEF w
<1>9. After(announced', frame') \in Views
  BY <1>4, AfterType
<1>10. \A s \in Slots : active'[s] = After(announced', frame')[s]
  BY <1>2, <1>4, <1>8 DEF Views
<1>11. active' = After(announced', frame')
  BY <1>4, <1>9, <1>10 DEF Views
<1>12. Flow'
  <2>1. /\ After(view, ready' \o frame') = After(announced', frame')
        /\ Legal(view, ready' \o frame')
    BY <1>2, <1>3, <1>8, Concatenated
  <2> QED
    BY <1>1, <1>3, <1>11, <2>1 DEF Flow, Pipeline
<1>13. FrameIndexExact'
  BY DiscardedIndex DEF Expire, FrameIndexExact
<1> QED
  BY <1>1, <1>12, <1>13 DEF Sound, ResyncFindsNothing, DiscardFindsNothing

(* Everything visible is cancelled, and the frame is dropped. *)
LEMMA CancelAllStep ==
    ASSUME WholePackets, TypeOK, Sound, CancelAll
    PROVE  /\ Sound'
           /\ \A s \in Slots : ~Visible(view[s], ready', s)
<1>1. /\ ~discarding /\ ~discarding' /\ UNCHANGED <<resyncNeeded, view>>
      /\ frame' = <<>> /\ frameEvent' = [s \in Slots |-> 0]
      /\ ready' = ready \o EventsFor("CANCEL", Slots \intersect Announced)
  <2>1. Slots \intersect Announced = Announced
    BY DEF Announced
  <2> QED
    BY <2>1 DEF CancelAll, WholePackets
<1>2. /\ active' \in Views /\ announced' \in Views
      /\ \A s \in Slots : ~active'[s] /\ ~announced'[s]
  BY ClearedType DEF CancelAll
<1>3. /\ ready' \in Seq(AnEvent) /\ Legal(view, ready')
      /\ announced' = After(view, ready')
  BY <1>1, Cancelled DEF CancelAll
<1>4. Pipeline' = ready'
  BY <1>1, <1>3, ConcatEmptySeq DEF Pipeline
<1>5. active' = announced'
  BY <1>2 DEF Views
<1>6. Flow'
  BY <1>1, <1>3, <1>4, <1>5 DEF Flow
<1>7. \A s \in Slots : ~Visible(view[s], ready', s)
  BY <1>2, <1>3 DEF After
<1> QED
  BY <1>1, <1>2, <1>6, <1>7, EmptyFrameIndex
     DEF Sound, ResyncFindsNothing, DiscardFindsNothing

(* The caller takes an event, and sees what it says. *)
LEMMA DrainStep ==
    ASSUME TypeOK, Sound, Drain
    PROVE  Sound'
<1> DEFINE e == Head(ready)
           rest == Tail(ready)
<1>1. /\ ready # <<>> /\ ready' = rest
      /\ UNCHANGED <<slotVars, silent, current, discarding, frame, resyncNeeded>>
      /\ view' = [view EXCEPT ![e.slot] = Visible(@, <<e>>, e.slot)]
  BY DEF Drain
<1>2. /\ frame \in Seq(AnEvent) /\ ready \in Seq(AnEvent)
      /\ view \in Views /\ Pipeline = ready \o frame
  BY Streams
<1>3. e \in AnEvent /\ rest \in Seq(AnEvent) /\ <<e>> \o rest = ready
  BY <1>1, <1>2, HeadTailProperties
<1> HIDE DEF e, rest
<1>4. <<e>> \in Seq(AnEvent) /\ e.slot \in Slots
  BY <1>3 DEF AnEvent
<1>5. view' = After(view, <<e>>)
  <2>1. After(view, <<e>>) = IF e.kind = "MOVE" THEN view
                             ELSE [view EXCEPT ![e.slot] = (e.kind = "DOWN")]
    BY <1>2, <1>3, OneEvent
  <2>2. \A s \in Slots : s # e.slot => After(view, <<e>>)[s] = view[s]
    BY <1>2, <1>4, <2>1 DEF Views
  <2>3. After(view, <<e>>)[e.slot] = Visible(view[e.slot], <<e>>, e.slot)
    BY <1>4 DEF After
  <2>4. After(view, <<e>>) \in Views
    BY <1>2, AfterType
  <2>5. view' \in [Slots -> BOOLEAN] /\ \A s \in Slots : view'[s] =
            IF s = e.slot THEN Visible(view[e.slot], <<e>>, e.slot) ELSE view[s]
    BY <1>1, <1>2, <1>4, <2>3, <2>4 DEF Views
  <2>6. \A s \in Slots : view'[s] = After(view, <<e>>)[s]
    BY <2>2, <2>3, <2>5
  <2> QED
    BY <2>4, <2>5, <2>6 DEF Views
<1>6. view' \in Views
  BY <1>2, <1>5, AfterType
<1>7. ready \o frame = <<e>> \o (rest \o frame) /\ rest \o frame \in Seq(AnEvent)
  <2>1. (<<e>> \o rest) \o frame = <<e>> \o (rest \o frame)
    BY <1>2, <1>3, <1>4, ConcatAssociative
  <2>2. rest \o frame \in Seq(AnEvent)
    BY <1>2, <1>3, ConcatProperties
  <2> QED
    BY <1>3, <2>1, <2>2
<1>8. /\ Legal(view', rest \o frame)
      /\ After(view', rest \o frame) = After(view, Pipeline)
  <2> DEFINE later == rest \o frame
  <2>1. Pipeline = <<e>> \o later /\ later \in Seq(AnEvent)
    BY <1>2, <1>7
  <2> HIDE DEF later
  <2>2. /\ After(view, <<e>> \o later) = After(After(view, <<e>>), later)
        /\ Legal(view, <<e>> \o later)
             <=> Legal(view, <<e>>) /\ Legal(After(view, <<e>>), later)
    BY <1>2, <1>4, <2>1, Concatenated
  <2>3. Legal(view, <<e>> \o later)
    BY <2>1 DEF Sound, Flow
  <2> QED
    BY <1>5, <2>1, <2>2, <2>3 DEF later
<1>9. After(view', rest) = After(view, ready)
  BY <1>2, <1>3, <1>4, <1>5, Concatenated
<1>10. Pipeline' = rest \o frame
  BY <1>1 DEF Pipeline
<1>11. Flow'
  BY <1>1, <1>8, <1>9, <1>10 DEF Sound, Flow, slotVars
<1> QED
  BY <1>1, <1>11
     DEF Sound, FrameIndexExact, ResyncFindsNothing, DiscardFindsNothing, slotVars

-----------------------------------------------------------------------------
(* A decoder that was just opened knows and says nothing. *)
LEMMA InitIInv == Init => IInv
<1> SUFFICES ASSUME Init
             PROVE  IInv
  OBVIOUS
<1>1. TypeOK
  <2>1. <<>> \in Seq([kind : Kinds, slot : Slots]) /\ 0 \in 0 .. Len(<<>>)
    OBVIOUS
  <2> QED
    BY <2>1 DEF Init, TypeOK
<1>2. Pipeline = <<>> /\ ready = <<>> /\ frame = <<>> /\ ~discarding
  BY DEF Init, Pipeline
<1>3. After(view, <<>>) = view
  <2>1. \A s \in Slots : Visible(view[s], <<>>, s) = view[s]
    BY NothingVisible DEF Visible
  <2> QED
    BY <2>1 DEF After, Init
<1>4. Flow
  BY <1>2, <1>3 DEF Flow, Legal, Init
<1>5. FrameIndexExact /\ ResyncFindsNothing /\ DiscardFindsNothing
  BY DEF Init, FrameIndexExact, ResyncFindsNothing, DiscardFindsNothing
<1> QED
  BY <1>1, <1>4, <1>5 DEF IInv, Sound

(* With whole packets every step keeps the invariant. *)
LEMMA IInvStep ==
    ASSUME WholePackets, IInv, [Next]_vars
    PROVE  IInv'
<1>1. TypeOK /\ Sound /\ TypeOK'
  BY TypeStep DEF IInv
<1> SUFFICES Sound'
  BY <1>1 DEF IInv
<1>2. ASSUME NEW s \in Slots \union {BadSlot}, SelectSlot(s)
      PROVE  Sound'
  BY <1>1, <1>2 DEF SelectSlot, slotVars, Sound, Flow, Pipeline,
     FrameIndexExact, ResyncFindsNothing, DiscardFindsNothing
<1>3. ASSUME NEW s \in Slots, FallSilent(s)
      PROVE  Sound'
  BY <1>1, <1>3 DEF FallSilent, slotVars, Sound, Flow, Pipeline,
     FrameIndexExact, ResyncFindsNothing, DiscardFindsNothing
<1>4. CASE UNCHANGED vars
  BY <1>1, <1>4 DEF vars, slotVars, Sound, Flow, Pipeline,
     FrameIndexExact, ResyncFindsNothing, DiscardFindsNothing
<1>5. CASE TrackingUp
  BY <1>1, <1>5, UpStep
<1>6. ASSUME NEW id \in Ids, TrackingDown(id)
      PROVE  Sound'
  BY <1>1, <1>6, DownStep
<1>7. CASE Position
  BY <1>1, <1>7, PositionStep
<1>8. CASE SynReport
  BY <1>1, <1>8, SynReportStep
<1>9. CASE SynDropped
  BY <1>1, <1>9, SynDroppedStep
<1>10. CASE SynReportResync
  BY <1>1, <1>10, SynReportResyncStep
<1>11. CASE ResyncRetry
  BY <1>1, <1>11, ResyncRetryStep
<1>12. CASE Expire
  BY <1>1, <1>12, ExpireStep
<1>13. CASE CancelAll
  BY <1>1, <1>13, CancelAllStep
<1>14. CASE Drain
  BY <1>1, <1>14, DrainStep
<1> QED
  BY <1>2, <1>3, <1>4, <1>5, <1>6, <1>7, <1>8, <1>9, <1>10, <1>11, <1>12,
     <1>13, <1>14 DEF Next, RawEvent

(* Slots, indices and buffers keep their types whatever the kernel sends,
   also with overflows in a row: above all, frame_event never points past
   the frame. *)
THEOREM TypeCorrect == Spec => []TypeOK
<1>1. Init => TypeOK
  BY InitIInv DEF IInv
<1> QED
  BY <1>1, TypeStep, PTL DEF Spec

(* With one overflow to a packet the invariant holds, for any number of
   slots, any raw events, any answer of the kernel and any pace of the
   caller. *)
THEOREM DecoderInductive ==
    ASSUME WholePackets
    PROVE  Spec => []IInv
<1>1. IInv /\ [Next]_vars => IInv'
  BY IInvStep
<1> QED
  BY <1>1, InitIInv, PTL DEF Spec

(* No contact is announced over another or ended twice: publish_frame,
   touch_input_expire and resync_driver together keep a legal stream. *)
THEOREM StreamAlternatesThm ==
    ASSUME WholePackets
    PROVE  Spec => []StreamAlternates
<1>1. IInv => StreamAlternates
  BY DEF IInv, Sound, Flow, Legal, StreamAlternates
<1> QED
  BY <1>1, DecoderInductive, PTL

(* slot->announced is what the caller will see once it has taken everything
   that is ready, and the CANCELs of an overflow. *)
THEOREM AnnouncedIsVisibleThm ==
    ASSUME WholePackets
    PROVE  Spec => []AnnouncedIsVisible
<1>1. IInv => AnnouncedIsVisible
  BY DEF IInv, Sound, Flow, After, AnnouncedIsVisible
<1> QED
  BY <1>1, DecoderInductive, PTL

(* Publishing makes the caller's contacts the driver's, frame_event names the
   slot's latest event however discard_frame_slot compacts the frame, and a
   resynchronisation finds no contact to announce twice. *)
THEOREM DecoderIsExactThm ==
    ASSUME WholePackets
    PROVE  Spec => []DecoderIsExact
<1>1. IInv => DecoderIsExact
  BY DEF IInv, Sound, Flow, After, DecoderIsExact, FrameCatchesUp
<1> QED
  BY <1>1, DecoderInductive, PTL

(* touch_input_cancel_all reaches every contact the caller can see. *)
THEOREM CancelAllReachesEveryContactThm ==
    ASSUME WholePackets
    PROVE  Spec => CancelAllReachesEveryContact
<1>1. IInv /\ [Next]_vars =>
        [CancelAll => \A s \in Slots : ~Visible(view[s], ready', s)]_vars
  BY CancelAllStep DEF IInv
<1> QED
  BY <1>1, DecoderInductive, PTL DEF Spec, CancelAllReachesEveryContact
===============================================================================
