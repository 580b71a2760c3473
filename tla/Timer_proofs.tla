----------------------------- MODULE Timer_proofs -----------------------------
(***************************************************************************)
(* Proofs about the two classes of core/Timer.h, for any contents, times   *)
(* and number of calls: of Timer that the list stays sorted, that the      *)
(* thread is told to wake for its head, and that only a running Timed()    *)
(* revives an entry; of WatchDog that it never barks early.                *)
(***************************************************************************)
EXTENDS Timer, WatchDog, SequenceTheorems, WellFoundedInduction, TLAPS

-----------------------------------------------------------------------------
(* Natural numbers and sequences.                                          *)

\* A set of natural numbers has a smallest one.
LEMMA Smallest ==
    ASSUME NEW T \in SUBSET Nat, T # {}
    PROVE  \E m \in T : \A k \in T : m <= k
<1>1. \E m \in T : \A k \in T : ~(<<k, m>> \in OpToRel(<, Nat))
  BY NatLessThanWellFounded, WFMin
<1>2. \A k, m \in T : k < m => <<k, m>> \in OpToRel(<, Nat)
  BY DEF OpToRel
<1> DEFINE R == OpToRel(<, Nat)
<1> HIDE DEF R
<1>3. PICK m \in T : \A k \in T : ~(<<k, m>> \in R)
  BY <1>1 DEF R
<1>4. \A k \in T : k < m => <<k, m>> \in R
  BY <1>2 DEF R
<1>5. \A k \in T : ~(k < m)
  BY <1>3, <1>4, Zenon
<1>6. \A k \in T : k \in Nat /\ m \in Nat
  OBVIOUS
<1>7. QED
  BY <1>5, <1>6

\* Induction, over a set.
LEMMA SetInduction ==
    ASSUME NEW T, 0 \in T, \A n \in Nat : n \in T => n + 1 \in T
    PROVE  \A n \in Nat : n \in T
<1> SUFFICES ASSUME Nat \ T # {} PROVE FALSE
  OBVIOUS
<1>1. PICK m \in Nat \ T : \A k \in Nat \ T : m <= k
  BY Smallest
<1>2. m # 0 /\ m - 1 \in Nat /\ ~(m <= m - 1)
  BY <1>1
<1>3. m - 1 \in T
  BY <1>1, <1>2
<1>4. m \in T
  BY <1>2, <1>3
<1>5. QED
  BY <1>4

\* A sequence with e put at k.
LEMMA Inserted ==
    ASSUME NEW S, NEW s \in Seq(S), NEW k \in 1..(Len(s) + 1), NEW e \in S
    PROVE  /\ Lists!InsertAt(s, k, e) \in Seq(S)
           /\ Len(Lists!InsertAt(s, k, e)) = Len(s) + 1
           /\ \A j \in 1..(Len(s) + 1) :
                 Lists!InsertAt(s, k, e)[j] = IF j < k THEN s[j] ELSE IF j = k THEN e ELSE s[j - 1]
<1> DEFINE front == SubSeq(s, 1, k - 1)
           back == SubSeq(s, k, Len(s))
<1>1. /\ front \in Seq(S) /\ Len(front) = k - 1 /\ \A j \in 1..(k - 1) : front[j] = s[j]
  OBVIOUS
<1>2. /\ back \in Seq(S) /\ Len(back) = Len(s) - k + 1
      /\ \A j \in 1..(Len(s) - k + 1) : back[j] = s[k + j - 1]
  OBVIOUS
<1> HIDE DEF front, back
<1> DEFINE left == front \o <<e>>
<1>3. /\ left \in Seq(S) /\ Len(left) = k
      /\ \A j \in 1..k : left[j] = IF j < k THEN s[j] ELSE e
  BY <1>1
<1>4. Lists!InsertAt(s, k, e) = left \o back
  BY DEF front, back, Lists!InsertAt
<1> HIDE DEF left
<1>5. /\ left \o back \in Seq(S) /\ Len(left \o back) = Len(left) + Len(back)
      /\ \A j \in 1..Len(left) + Len(back) :
            (left \o back)[j] = IF j <= Len(left) THEN left[j] ELSE back[j - Len(left)]
  BY <1>2, <1>3, ConcatProperties
<1> DEFINE all == left \o back
<1> HIDE DEF all
<1>6. /\ all \in Seq(S) /\ Len(all) = Len(s) + 1
      /\ \A j \in 1..(Len(s) + 1) :
           all[j] = IF j < k THEN s[j] ELSE IF j = k THEN e ELSE s[j - 1]
  BY <1>2, <1>3, <1>5 DEF all
<1>7. QED
  BY <1>4, <1>6 DEF all

\* A sequence with its entry at k taken out.
LEMMA Removed ==
    ASSUME NEW S, NEW s \in Seq(S), NEW k \in 1..Len(s)
    PROVE  /\ Lists!RemoveAt(s, k) \in Seq(S)
           /\ Len(Lists!RemoveAt(s, k)) = Len(s) - 1
           /\ \A j \in 1..(Len(s) - 1) :
                 Lists!RemoveAt(s, k)[j] = IF j < k THEN s[j] ELSE s[j + 1]
<1> DEFINE front == SubSeq(s, 1, k - 1)
           back == SubSeq(s, k + 1, Len(s))
<1>1. /\ front \in Seq(S) /\ Len(front) = k - 1 /\ \A j \in 1..(k - 1) : front[j] = s[j]
  OBVIOUS
<1>2. /\ back \in Seq(S) /\ Len(back) = Len(s) - k
      /\ \A j \in 1..(Len(s) - k) : back[j] = s[k + j]
  OBVIOUS
<1> HIDE DEF front, back
<1> DEFINE all == front \o back
<1>3. /\ all \in Seq(S) /\ Len(all) = Len(front) + Len(back)
      /\ \A j \in 1..Len(front) + Len(back) :
            all[j] = IF j <= Len(front) THEN front[j] ELSE back[j - Len(front)]
  BY <1>1, <1>2, ConcatProperties
<1>4. Lists!RemoveAt(s, k) = all
  BY DEF front, back, Lists!RemoveAt
<1> HIDE DEF all
<1>5. /\ all \in Seq(S) /\ Len(all) = Len(s) - 1
      /\ \A j \in 1..(Len(s) - 1) : all[j] = IF j < k THEN s[j] ELSE s[j + 1]
  <2>1. /\ Len(s) \in Nat /\ k \in 1..Len(s)
        /\ all \in Seq(S) /\ Len(all) = Len(s) - 1
    BY <1>1, <1>2, <1>3
  <2> HIDE DEF front, back
  <2>2. ASSUME NEW j \in 1..(Len(s) - 1), j < k PROVE all[j] = s[j]
    <3>1. j \in 1..(k - 1) /\ j \in 1..Len(front) + Len(back) /\ j <= Len(front)
      BY <1>1, <1>2, <2>1, <2>2
    <3>2. all[j] = front[j]
      BY <1>3, <3>1
    <3>3. QED
      BY <1>1, <3>1, <3>2
  <2>3. ASSUME NEW j \in 1..(Len(s) - 1), ~(j < k) PROVE all[j] = s[j + 1]
    <3>1. j - (k - 1) \in 1..(Len(s) - k) /\ k + (j - (k - 1)) = j + 1 /\ ~(j <= k - 1)
      BY <2>1, <2>3
    <3>2. all[j] = back[j - (k - 1)]
      BY <1>1, <1>2, <1>3, <2>1, <3>1
    <3>3. QED
      BY <1>2, <3>1, <3>2
  <2>4. QED
    BY <2>1, <2>2, <2>3
<1>6. QED
  BY <1>4, <1>5

-----------------------------------------------------------------------------
(* The list of the timer: what its operations do to it.                    *)

Ordered(p) == \A j, k \in 1..Len(p) : j <= k => p[j].time <= p[k].time

\* q has entries of p only.
From(q, p) == \A k \in 1..Len(q) : \E j \in 1..Len(p) : q[k] = p[j]

LEMMA SlotFacts == \A e \in Slots : e.time \in Times /\ e.time \in Nat /\ e.info \in Contents
BY BoundsAssumption DEF Slots, Times

\* Whatever is taken out of a list, its head does not come earlier.
LEMMA HeadLater ==
    ASSUME NEW p \in Seq(Slots), NEW q \in Seq(Slots), Ordered(p), From(q, p), q # <<>>
    PROVE  p # <<>> /\ Head(p).time <= Head(q).time
<1>1. 1 \in 1..Len(q) /\ Head(q) = q[1]
  OBVIOUS
<1>2. PICK j \in 1..Len(p) : q[1] = p[j]
  BY <1>1 DEF From
<1>3. p # <<>> /\ Head(p) = p[1] /\ 1 \in 1..Len(p) /\ 1 <= j
  BY <1>2
<1>4. QED
  BY <1>1, <1>2, <1>3 DEF Ordered

\* The head is taken out.
LEMMA TailOut ==
    ASSUME NEW p \in Seq(Slots), Ordered(p), p # <<>>
    PROVE  Tail(p) \in Seq(Slots) /\ Ordered(Tail(p)) /\ From(Tail(p), p)
<1>1. /\ Tail(p) \in Seq(Slots) /\ Len(Tail(p)) = Len(p) - 1
      /\ \A k \in 1..(Len(p) - 1) : Tail(p)[k] = p[k + 1]
  OBVIOUS
<1>2. QED
  BY <1>1 DEF Ordered, From

\* An entry is taken out.
LEMMA EntryOut ==
    ASSUME NEW p \in Seq(Slots), Ordered(p), NEW k \in 1..Len(p)
    PROVE  LET q == Lists!RemoveAt(p, k)
           IN  q \in Seq(Slots) /\ Ordered(q) /\ From(q, p)
<1> DEFINE q == Lists!RemoveAt(p, k)
<1>1. /\ q \in Seq(Slots) /\ Len(q) = Len(p) - 1
      /\ \A j \in 1..(Len(p) - 1) : q[j] = IF j < k THEN p[j] ELSE p[j + 1]
  BY Removed
<1> HIDE DEF q
<1>2. \A j \in 1..Len(q) : \E n \in 1..Len(p) : q[j] = p[n] /\ n = IF j < k THEN j ELSE j + 1
  BY <1>1
<1>3. From(q, p)
  BY <1>2 DEF From
<1>4. Ordered(q)
  <2> SUFFICES ASSUME NEW j \in 1..Len(q), NEW l \in 1..Len(q), j <= l
               PROVE  q[j].time <= q[l].time
    BY DEF Ordered
  <2>1. PICK n \in 1..Len(p) : q[j] = p[n] /\ n = IF j < k THEN j ELSE j + 1
    BY <1>2
  <2>2. PICK o \in 1..Len(p) : q[l] = p[o] /\ o = IF l < k THEN l ELSE l + 1
    BY <1>2
  <2>3. n <= o
    BY <2>1, <2>2
  <2>4. QED
    BY <2>1, <2>2, <2>3 DEF Ordered
<1>5. QED
  BY <1>1, <1>3, <1>4 DEF q

\* ScheduleEntry finds a place.
LEMMA PositionFound ==
    ASSUME NEW p \in Seq(Slots), NEW e \in Slots
    PROVE  /\ Position(p, e) \in 1..(Len(p) + 1)
           /\ \A j \in 1..(Position(p, e) - 1) : e.time >= p[j].time
           /\ Position(p, e) <= Len(p) => e.time < p[Position(p, e)].time
<1> DEFINE T == {k \in 1..(Len(p) + 1) : k <= Len(p) => e.time < p[k].time}
<1>1. T \in SUBSET Nat /\ Len(p) + 1 \in T
  OBVIOUS
<1>2. PICK m \in T : \A k \in T : m <= k
  BY <1>1, Smallest
<1>3. \A j \in 1..(m - 1) : e.time >= p[j].time
  <2> SUFFICES ASSUME NEW j \in 1..(m - 1) PROVE e.time >= p[j].time
    OBVIOUS
  <2>1. j \notin T /\ j \in 1..Len(p)
    BY <1>2
  <2>2. e.time \in Nat /\ p[j].time \in Nat
    BY <2>1, SlotFacts
  <2>3. QED
    BY <2>1, <2>2
<1>4. m \in 1..(Len(p) + 1) /\ (m <= Len(p) => e.time < p[m].time)
  BY <1>2
<1> HIDE DEF T
<1>5. QED
  BY <1>3, <1>4 DEF Position

\* An entry is scheduled: the list stays sorted, its other entries are the same, and its
\* head changes only when the entry is the first.
LEMMA EntryIn ==
    ASSUME NEW p \in Seq(Slots), Ordered(p), NEW e \in Slots
    PROVE  LET q == ScheduleEntry(p, e)
           IN  /\ q \in Seq(Slots) /\ Ordered(q) /\ q # <<>>
               /\ \A k \in 1..Len(q) : q[k] = e \/ \E j \in 1..Len(p) : q[k] = p[j]
               /\ Position(p, e) # 1 => p # <<>> /\ Head(q) = Head(p)
<1> DEFINE q == ScheduleEntry(p, e)
           m == Position(p, e)
<1>1. /\ m \in 1..(Len(p) + 1)
      /\ \A j \in 1..(m - 1) : e.time >= p[j].time
      /\ m <= Len(p) => e.time < p[m].time
  BY PositionFound
<1>2. q = Lists!InsertAt(p, m, e)
  BY DEF ScheduleEntry
<1> HIDE DEF q, m
<1>3. /\ q \in Seq(Slots) /\ Len(q) = Len(p) + 1
      /\ \A j \in 1..(Len(p) + 1) : q[j] = IF j < m THEN p[j] ELSE IF j = m THEN e ELSE p[j - 1]
  <2> HIDE DEF Slots
  <2>1. /\ Lists!InsertAt(p, m, e) \in Seq(Slots) /\ Len(Lists!InsertAt(p, m, e)) = Len(p) + 1
        /\ \A j \in 1..(Len(p) + 1) : Lists!InsertAt(p, m, e)[j] =
              IF j < m THEN p[j] ELSE IF j = m THEN e ELSE p[j - 1]
    BY <1>1, Inserted
  <2>2. QED
    BY <1>2, <2>1
<1>4. e.time \in Nat /\ \A j \in 1..Len(p) : p[j].time \in Nat
  BY SlotFacts
<1>5. \A j \in 1..Len(p) : j >= m => e.time < p[j].time
  BY <1>1, <1>4 DEF Ordered
<1>6. Ordered(q)
  <2> SUFFICES ASSUME NEW j \in 1..Len(q), NEW k \in 1..Len(q), j <= k
               PROVE  q[j].time <= q[k].time
    BY DEF Ordered
  <2>1. CASE j < m /\ k < m
    BY <1>1, <1>3, <2>1 DEF Ordered
  <2>2. CASE j < m /\ k = m
    BY <1>1, <1>3, <1>4, <2>2
  <2>3. CASE j < m /\ k > m
    <3>1. q[j] = p[j] /\ q[k] = p[k - 1] /\ j \in 1..Len(p) /\ k - 1 \in 1..Len(p)
      BY <1>1, <1>3, <2>3
    <3>2. QED
      BY <2>3, <3>1, <1>1 DEF Ordered
  <2>4. CASE j = m /\ k = m
    BY <1>1, <1>3, <1>4, <2>4
  <2>5. CASE j = m /\ k > m
    <3>1. q[j] = e /\ q[k] = p[k - 1] /\ k - 1 \in 1..Len(p) /\ k - 1 >= m
      BY <1>1, <1>3, <2>5
    <3>2. e.time < p[k - 1].time /\ e.time \in Nat /\ p[k - 1].time \in Nat
      BY <1>4, <1>5, <3>1
    <3>3. QED
      BY <3>1, <3>2
  <2>6. CASE j > m
    <3>1. q[j] = p[j - 1] /\ q[k] = p[k - 1] /\ j - 1 \in 1..Len(p) /\ k - 1 \in 1..Len(p)
      BY <1>1, <1>3, <2>6
    <3>2. QED
      BY <2>6, <3>1, <1>1 DEF Ordered
  <2>7. QED
    BY <1>1, <2>1, <2>2, <2>3, <2>4, <2>5, <2>6
<1>7. \A k \in 1..Len(q) : q[k] = e \/ \E j \in 1..Len(p) : q[k] = p[j]
  <2> SUFFICES ASSUME NEW k \in 1..Len(q) PROVE q[k] = e \/ \E j \in 1..Len(p) : q[k] = p[j]
    OBVIOUS
  <2>1. CASE k < m
    <3>1. q[k] = p[k] /\ k \in 1..Len(p)
      BY <1>1, <1>3, <2>1
    <3>2. QED
      BY <3>1
  <2>2. CASE k = m
    BY <1>1, <1>3, <2>2
  <2>3. CASE k > m
    <3>1. q[k] = p[k - 1] /\ k - 1 \in 1..Len(p)
      BY <1>1, <1>3, <2>3
    <3>2. QED
      BY <3>1
  <2>4. QED
    BY <1>1, <1>3, <2>1, <2>2, <2>3
<1>8. q # <<>> /\ Head(q) = q[1]
  BY <1>3
<1>9. m # 1 => p # <<>> /\ Head(q) = Head(p)
  BY <1>1, <1>3, <1>8
<1>10. QED
  BY <1>3, <1>6, <1>7, <1>8, <1>9 DEF q, m

\* What Without leaves: entries of p that are not of i, in their order.  By induction over
\* how far the list has been gone through; the function exists because each of its
\* values is made from the one before.
LEMMA WithoutFacts ==
    ASSUME NEW p \in Seq(Slots), Ordered(p), NEW i
    PROVE  LET q == Without(p, i)
           IN  /\ q \in Seq(Slots) /\ Ordered(q) /\ From(q, p)
               /\ \A k \in 1..Len(q) : q[k].info # i
<1> DEFINE L == Len(p)
           Step(f, n) == IF n = 0 THEN <<>>
                         ELSE IF p[n].info = i THEN f[n - 1] ELSE Append(f[n - 1], p[n])
           Upto(f, m) == \A n \in 0..m : f[n] = Step(f, n)
           kept == CHOOSE f : f = [n \in 0..L |-> Step(f, n)]
<1>1. L \in Nat /\ \A n \in 1..L : p[n] \in Slots
  OBVIOUS
<1>2. \E f : f = [n \in 0..L |-> Step(f, n)]
  <2> DEFINE T == {m \in Nat : \E f : f = [n \in 0..m |-> f[n]] /\ Upto(f, m)}
  <2>1. 0 \in T
    <3> DEFINE f == [n \in 0..0 |-> <<>>]
    <3>1. f = [n \in 0..0 |-> f[n]] /\ Upto(f, 0)
      OBVIOUS
    <3>2. QED
      BY <3>1
  <2>2. ASSUME NEW m \in Nat, m \in T PROVE m + 1 \in T
    <3>1. PICK f : f = [n \in 0..m |-> f[n]] /\ Upto(f, m)
      BY <2>2
    <3> DEFINE g == [n \in 0..(m + 1) |-> IF n <= m THEN f[n] ELSE Step(f, n)]
    <3>2. \A n \in 0..m : g[n] = f[n]
      OBVIOUS
    <3>3. \A n \in 0..(m + 1) : Step(g, n) = Step(f, n)
      <4> SUFFICES ASSUME NEW n \in 0..(m + 1) PROVE Step(g, n) = Step(f, n)
        OBVIOUS
      <4>1. n # 0 => g[n - 1] = f[n - 1]
        BY <3>2
      <4>2. QED
        BY <4>1
    <3> HIDE DEF Step
    <3>4. \A n \in 0..(m + 1) : g[n] = Step(f, n)
      <4>1. \A n \in 0..m : f[n] = Step(f, n)
        BY <3>1
      <4>2. g[m + 1] = Step(f, m + 1)
        OBVIOUS
      <4>3. \A n \in 0..(m + 1) : n \in 0..m \/ n = m + 1
        OBVIOUS
      <4> HIDE DEF g
      <4>4. QED
        BY <3>2, <4>1, <4>2, <4>3
    <3>5. g = [n \in 0..(m + 1) |-> g[n]]
      OBVIOUS
    <3>6. Upto(g, m + 1)
      BY <3>3, <3>4
    <3> HIDE DEF g, Upto
    <3>7. QED
      BY <3>5, <3>6
  <2> HIDE DEF T
  <2>3. L \in T
    BY <1>1, <2>1, <2>2, SetInduction
  <2> HIDE DEF Step
  <2>4. PICK f : f = [n \in 0..L |-> f[n]] /\ Upto(f, L)
    BY <2>3 DEF T
  <2>5. f = [n \in 0..L |-> Step(f, n)]
    BY <2>4
  <2>6. QED
    BY <2>5
<1>3. kept = [n \in 0..L |-> Step(kept, n)]
  <2> HIDE DEF Step
  <2>1. QED
    BY <1>2
<1>4. Without(p, i) = kept[L]
  BY DEF Without
<1> HIDE DEF kept
<1>5. \A n \in 0..L : kept[n] = Step(kept, n)
  <2> HIDE DEF Step
  <2>1. QED
    BY <1>3
<1> DEFINE Good(q, m) ==
              /\ q \in Seq(Slots) /\ Ordered(q)
              /\ \A k \in 1..Len(q) : q[k].info # i /\ \E j \in 1..m : q[k] = p[j]
           T == {m \in Nat : m <= L => Good(kept[m], m)}
<1>6. 0 \in T
  <2>1. kept[0] = <<>>
    BY <1>1, <1>5
  <2>2. Good(<<>>, 0)
    BY DEF Ordered
  <2> HIDE DEF Good
  <2>3. QED
    BY <2>1, <2>2
<1>7. ASSUME NEW m \in Nat, m \in T PROVE m + 1 \in T
  <2> SUFFICES ASSUME m + 1 <= L PROVE Good(kept[m + 1], m + 1)
    OBVIOUS
  <2> DEFINE q == kept[m]
             r == kept[m + 1]
  <2>1. Good(q, m) /\ m + 1 \in 1..L /\ p[m + 1] \in Slots
    BY <1>1, <1>7
  <2>2. r = IF p[m + 1].info = i THEN q ELSE Append(q, p[m + 1])
    BY <1>1, <1>5
  <2> HIDE DEF q, r
  <2>3. CASE p[m + 1].info = i
    <3>1. r = q
      BY <2>2, <2>3
    <3>2. Good(r, m + 1)
      BY <2>1, <3>1
    <3>3. QED
      BY <3>2 DEF r
  <2>4. CASE p[m + 1].info # i
    <3>1. r = Append(q, p[m + 1])
      BY <2>2, <2>4
    <3>2. /\ r \in Seq(Slots) /\ Len(r) = Len(q) + 1
          /\ \A k \in 1..Len(q) : r[k] = q[k]
          /\ r[Len(q) + 1] = p[m + 1]
      BY <2>1, <3>1
    <3>3. \A k \in 1..Len(r) : r[k].info # i /\ \E j \in 1..(m + 1) : r[k] = p[j]
      <4>1. \A k \in 1..Len(q) : r[k].info # i /\ \E j \in 1..(m + 1) : r[k] = p[j]
        BY <2>1, <3>2
      <4>2. r[Len(q) + 1].info # i /\ \E j \in 1..(m + 1) : r[Len(q) + 1] = p[j]
        BY <2>4, <3>2
      <4>3. Len(q) \in Nat /\ \A k \in 1..Len(r) : k \in 1..Len(q) \/ k = Len(q) + 1
        BY <2>1, <3>2
      <4>4. QED
        BY <4>1, <4>2, <4>3
    <3>4. \A k \in 1..Len(q) : q[k].time <= p[m + 1].time
      <4> SUFFICES ASSUME NEW k \in 1..Len(q) PROVE q[k].time <= p[m + 1].time
        OBVIOUS
      <4>1. PICK j \in 1..m : q[k] = p[j]
        BY <2>1
      <4>2. j \in 1..Len(p) /\ m + 1 \in 1..Len(p) /\ j <= m + 1
        BY <1>1, <2>1
      <4>3. QED
        BY <4>1, <4>2 DEF Ordered
    <3>5. Ordered(r)
      <4> SUFFICES ASSUME NEW j \in 1..Len(r), NEW k \in 1..Len(r), j <= k
                   PROVE  r[j].time <= r[k].time
        BY DEF Ordered
      <4>1. CASE k <= Len(q)
        <5>1. j \in 1..Len(q) /\ k \in 1..Len(q)
          BY <2>1, <3>2, <4>1
        <5>2. QED
          BY <2>1, <3>2, <5>1 DEF Ordered
      <4>2. CASE j <= Len(q) /\ k = Len(q) + 1
        BY <2>1, <3>2, <3>4, <4>2
      <4>3. CASE j = Len(q) + 1 /\ k = Len(q) + 1
        <5>1. p[m + 1].time \in Nat
          BY <2>1, SlotFacts
        <5>2. QED
          BY <3>2, <4>3, <5>1
      <4>4. Len(q) \in Nat
        BY <2>1
      <4>5. QED
        BY <3>2, <4>1, <4>2, <4>3, <4>4
    <3>6. QED
      BY <3>2, <3>3, <3>5 DEF r
  <2>5. QED
    BY <2>3, <2>4
<1> HIDE DEF T
<1>8. L \in T
  BY <1>1, <1>6, <1>7, SetInduction
<1>9. Good(kept[L], L)
  BY <1>1, <1>8 DEF T
<1>10. QED
  BY <1>4, <1>9 DEF From

-----------------------------------------------------------------------------
(* The invariant: the entry that is being served is one, the list is       *)
(* sorted, and the thread is told to wake for its head.                    *)

Serving == pc = "timed" => current \in Slots
IInv == TypeOK /\ Serving /\ Ordered(pending) /\ WakesForHead

\* What RevivedByTimedOnly says of a step.
Revival ==
    \A i \in revoked' : IsPending(i)' => \/ i \in revoked /\ IsPending(i)
                                         \/ pc = "timed" /\ current.info = i

LEMMA InitIInv == Init => IInv
<1> SUFFICES ASSUME Init PROVE IInv
  OBVIOUS
<1> USE DEF Init
<1>1. TypeOK
  BY BoundsAssumption DEF TypeOK, Times, Never
<1>2. Ordered(pending)
  BY DEF Ordered
<1>3. Serving /\ WakesForHead
  BY DEF Serving, WakesForHead
<1>4. QED
  BY <1>1, <1>2, <1>3 DEF IInv

\* The list changes behind the back of a thread that is not running: when its head
\* does not come earlier, what the thread was told is still good.
LEMMA StillWakes ==
    ASSUME IInv, UNCHANGED <<now, pc, nextTrigger, owner>>, pending' \in Seq(Slots),
           state' # "RUNNING" => state # "RUNNING",
           state' # "RUNNING" /\ pending' # <<>> =>
               pending # <<>> /\ Head(pending).time <= Head(pending').time
    PROVE  WakesForHead'
<1> SUFFICES ASSUME state' # "RUNNING", pc \in {"settle", "wait"}, pending' # <<>>, owner = "alive"
             PROVE  nextTrigger <= Head(pending').time \/ nextTrigger <= now
  BY DEF WakesForHead
<1>1. nextTrigger <= Head(pending).time \/ nextTrigger <= now
  BY DEF IInv, WakesForHead
<1>2. Head(pending) \in Slots /\ Head(pending') \in Slots
  BY DEF IInv, TypeOK
<1>3. nextTrigger \in Nat /\ Head(pending).time \in Nat /\ Head(pending').time \in Nat
  BY <1>2, SlotFacts DEF IInv, TypeOK, Never
<1>4. QED
  BY <1>1, <1>3

\* An entry is scheduled, in the list as it is or without another entry.
LEMMA PutStep ==
    ASSUME IInv, NEW p \in Seq(Slots), Ordered(p), From(p, pending), NEW e \in Slots,
           calls' \in 0..MaxCalls, Put(p, e)
    PROVE  IInv' /\ Revival
<1> DEFINE q == ScheduleEntry(p, e)
<1>1. /\ q \in Seq(Slots) /\ Ordered(q) /\ q # <<>>
      /\ \A k \in 1..Len(q) : q[k] = e \/ \E j \in 1..Len(p) : q[k] = p[j]
      /\ Position(p, e) # 1 => p # <<>> /\ Head(q) = Head(p)
  BY EntryIn
<1>2. /\ pending' = q
      /\ state' = IF Position(p, e) = 1 THEN "RUNNING" ELSE state
      /\ revoked' = revoked \ {e.info}
      /\ UNCHANGED <<now, threadVars, owner>>
  BY DEF Put, AfterRun
<1> HIDE DEF q
<1>3. TypeOK'
  BY <1>1, <1>2 DEF IInv, TypeOK, threadVars
<1>4. Serving' /\ Ordered(pending')
  BY <1>1, <1>2 DEF IInv, Serving, Ordered, threadVars
<1>5. state' # "RUNNING" => pending # <<>> /\ Head(pending).time <= Head(pending').time
  <2> SUFFICES ASSUME state' # "RUNNING"
               PROVE  pending # <<>> /\ Head(pending).time <= Head(pending').time
    OBVIOUS
  <2>1. p # <<>> /\ Head(pending') = Head(p)
    BY <1>1, <1>2
  <2>2. pending \in Seq(Slots) /\ Ordered(pending)
    BY DEF IInv, TypeOK
  <2>3. QED
    BY <2>1, <2>2, HeadLater
<1>6. WakesForHead'
  BY <1>1, <1>2, <1>5, StillWakes DEF threadVars
<1>7. Revival
  <2> SUFFICES ASSUME NEW i \in revoked', IsPending(i)' PROVE i \in revoked /\ IsPending(i)
    BY DEF Revival
  <2>1. i \in revoked /\ i # e.info
    BY <1>2
  <2>2. PICK k \in 1..Len(q) : q[k].info = i
    BY <1>1, <1>2 DEF IsPending
  <2>3. PICK j \in 1..Len(p) : q[k] = p[j]
    BY <1>1, <2>1, <2>2
  <2>4. PICK n \in 1..Len(pending) : p[j] = pending[n]
    BY DEF From
  <2>5. n \in DOMAIN pending
    BY DEF IInv, TypeOK
  <2>6. QED
    BY <2>1, <2>2, <2>3, <2>4, <2>5 DEF IsPending
<1>8. QED
  BY <1>3, <1>4, <1>6, <1>7 DEF IInv

\* A list has its own entries.
LEMMA FromItself == ASSUME NEW p PROVE From(p, p)
BY DEF From

LEMMA CallFacts == IInv /\ Call => calls' \in 0..MaxCalls
BY BoundsAssumption DEF IInv, TypeOK, Call

LEMMA ScheduleStep ==
    ASSUME IInv, NEW t \in Times, NEW i \in Contents, Schedule(t, i)
    PROVE  IInv' /\ Revival
<1>1. Slot(t, i) \in Slots
  BY DEF Slot, Slots
<1>2. pending \in Seq(Slots) /\ Ordered(pending) /\ From(pending, pending)
  BY FromItself DEF IInv, TypeOK
<1>3. calls' \in 0..MaxCalls /\ Put(pending, Slot(t, i))
  BY CallFacts DEF Schedule
<1>4. QED
  BY <1>1, <1>2, <1>3, PutStep

LEMMA TriggerStep ==
    ASSUME IInv, NEW t \in Times, NEW i \in Contents, Trigger(t, i)
    PROVE  IInv' /\ Revival
<1>1. Slot(t, i) \in Slots
  BY DEF Slot, Slots
<1>2. pending \in Seq(Slots) /\ Ordered(pending) /\ From(pending, pending)
  BY FromItself DEF IInv, TypeOK
<1>3. calls' \in 0..MaxCalls
  BY CallFacts DEF Trigger
<1>4. CASE Put(pending, Slot(t, i))
  BY <1>1, <1>2, <1>3, <1>4, PutStep
<1>5. CASE \E k \in DOMAIN pending : Put(Lists!RemoveAt(pending, k), Slot(t, i))
  <2>1. PICK k \in 1..Len(pending) : Put(Lists!RemoveAt(pending, k), Slot(t, i))
    BY <1>2, <1>5
  <2> DEFINE p == Lists!RemoveAt(pending, k)
  <2>2. p \in Seq(Slots) /\ Ordered(p) /\ From(p, pending)
    BY <1>2, EntryOut
  <2>3. Put(p, Slot(t, i))
    BY <2>1
  <2> HIDE DEF p
  <2>4. QED
    BY <1>1, <1>3, <2>2, <2>3, PutStep
<1>6. QED
  BY <1>4, <1>5 DEF Trigger

LEMMA RevokeStep ==
    ASSUME IInv, NEW i \in Contents, Revoke(i)
    PROVE  IInv' /\ Revival
<1> DEFINE q == Without(pending, i)
<1>1. pending \in Seq(Slots) /\ Ordered(pending)
  BY DEF IInv, TypeOK
<1>2. /\ q \in Seq(Slots) /\ Ordered(q) /\ From(q, pending)
      /\ \A k \in 1..Len(q) : q[k].info # i
  BY <1>1, WithoutFacts
<1>3. /\ pending' = q
      /\ state' = "RUNNING" \/ state' = state
      /\ revoked' = revoked \cup {i}
      /\ UNCHANGED <<now, threadVars, owner>>
  BY DEF Revoke, AfterRun
<1> HIDE DEF q
<1>4. TypeOK'
  <2>1. calls' \in 0..MaxCalls
    BY CallFacts DEF Revoke
  <2>2. QED
    BY <1>2, <1>3, <2>1 DEF IInv, TypeOK, threadVars
<1>5. Serving' /\ Ordered(pending')
  BY <1>2, <1>3 DEF IInv, Serving, Ordered, threadVars
<1>6. pending' # <<>> => pending # <<>> /\ Head(pending).time <= Head(pending').time
  BY <1>1, <1>2, <1>3, HeadLater
<1>7. WakesForHead'
  BY <1>2, <1>3, <1>6, StillWakes DEF threadVars
<1>8. Revival
  <2> SUFFICES ASSUME NEW c \in revoked', IsPending(c)' PROVE c \in revoked /\ IsPending(c)
    BY DEF Revival
  <2>1. PICK k \in 1..Len(q) : q[k].info = c
    BY <1>2, <1>3 DEF IsPending
  <2>2. c # i /\ c \in revoked
    BY <1>2, <1>3, <2>1
  <2>3. PICK j \in 1..Len(pending) : q[k] = pending[j]
    BY <1>2 DEF From
  <2>4. j \in DOMAIN pending
    BY <1>1
  <2>5. QED
    BY <2>1, <2>2, <2>3, <2>4 DEF IsPending
<1>9. QED
  BY <1>4, <1>5, <1>7, <1>8 DEF IInv

-----------------------------------------------------------------------------
(* The thread.                                                             *)

\* Process() goes on with the list p: it serves the head, or it computes what to wake for.
LEMMA LoopStep ==
    ASSUME IInv, NEW p \in Seq(Slots), Ordered(p), Serve(p) \/ Settle(p),
           state' \in {"RUNNING", "DEACTIVATE", "BLOCKED"},
           UNCHANGED <<now, started, owner, calls, revoked>>
    PROVE  IInv' /\ From(pending', p)
<1>1. CASE Serve(p)
  <2>1. p # <<>> /\ current' = Head(p) /\ pending' = Tail(p) /\ pc' = "timed"
        /\ UNCHANGED <<delay, nextTrigger>>
    BY <1>1 DEF Serve, IsDue
  <2>2. current' \in Slots
    BY <2>1
  <2>3. pending' \in Seq(Slots) /\ Ordered(Tail(p)) /\ From(Tail(p), p)
    BY <2>1, TailOut
  <2>4. TypeOK'
    BY <2>1, <2>2, <2>3 DEF IInv, TypeOK
  <2>5. Serving' /\ Ordered(pending') /\ WakesForHead' /\ From(pending', p)
    BY <2>1, <2>2, <2>3 DEF Serving, Ordered, WakesForHead
  <2>6. QED
    BY <2>4, <2>5 DEF IInv
<1>2. CASE Settle(p)
  <2>1. /\ current' = None /\ pending' = p /\ pc' = "settle"
        /\ nextTrigger' = IF p = <<>> THEN Never
                          ELSE IF now >= Head(p).time THEN now ELSE Head(p).time
        /\ delay' = IF p = <<>> THEN Never ELSE nextTrigger' - now
    BY <1>2 DEF Settle
  <2>2. p # <<>> => Head(p).time \in Times
    <3> SUFFICES ASSUME p # <<>> PROVE Head(p).time \in Times
      OBVIOUS
    <3>1. Head(p) \in Slots
      OBVIOUS
    <3>2. QED
      BY <3>1, SlotFacts
  <2>3. now \in 0..MaxTime
    BY DEF IInv, TypeOK, Times
  <2>4. nextTrigger' \in 0..Never /\ delay' \in 0..Never
    BY <2>1, <2>2, <2>3, BoundsAssumption DEF Times, Never
  <2>5. TypeOK'
    BY <2>1, <2>4 DEF IInv, TypeOK
  <2>6. WakesForHead'
    BY <2>1, <2>2, <2>3, BoundsAssumption DEF WakesForHead, Times
  <2>7. Serving' /\ Ordered(pending') /\ From(pending', p)
    BY <2>1, FromItself DEF Serving, Ordered
  <2>8. QED
    BY <2>5, <2>6, <2>7 DEF IInv
<1>3. QED
  BY <1>1, <1>2

LEMMA ProcessStep == ASSUME IInv, Process PROVE IInv' /\ Revival
<1>1. pending \in Seq(Slots) /\ Ordered(pending)
  BY DEF IInv, TypeOK
<1>2. state' \in {"RUNNING", "DEACTIVATE", "BLOCKED"}
  BY DEF IInv, TypeOK, Process, AfterBlock
<1>3. IInv' /\ From(pending', pending)
  BY <1>1, <1>2, LoopStep DEF Process
<1>4. Revival
  <2> SUFFICES ASSUME NEW i \in revoked', IsPending(i)' PROVE i \in revoked /\ IsPending(i)
    BY DEF Revival
  <2>1. DOMAIN pending' = 1..Len(pending') /\ DOMAIN pending = 1..Len(pending)
    BY <1>1, <1>3 DEF IInv, TypeOK
  <2>2. QED
    BY <1>3, <2>1 DEF From, IsPending, Process
<1>5. QED
  BY <1>3, <1>4

LEMMA TimedReturnsStep == ASSUME IInv, TimedReturns PROVE IInv' /\ Revival
<1>1. pending \in Seq(Slots) /\ Ordered(pending) /\ pc = "timed" /\ current \in Slots
      /\ started \in 0..MaxTime
  BY DEF IInv, TypeOK, Times, Serving, TimedReturns
<1>2. state' \in {"RUNNING", "DEACTIVATE", "BLOCKED"}
      /\ UNCHANGED <<now, started, owner, calls, revoked>>
  BY DEF IInv, TypeOK, TimedReturns
<1>3. PICK p \in Seq(Slots) :
           /\ Ordered(p)
           /\ Serve(p) \/ Settle(p)
           /\ \A k \in 1..Len(p) : \/ p[k].info = current.info
                                   \/ \E j \in 1..Len(pending) : p[k] = pending[j]
  <2>1. CASE Serve(pending) \/ Settle(pending)
    BY <1>1, <2>1
  <2>2. CASE \E t \in (started + 1)..MaxTime :
               LET p == ScheduleEntry(pending, Slot(t, current.info))
               IN  Serve(p) \/ Settle(p)
    <3>1. PICK t \in (started + 1)..MaxTime :
                LET p == ScheduleEntry(pending, Slot(t, current.info))
                IN  Serve(p) \/ Settle(p)
      BY <2>2
    <3> DEFINE e == Slot(t, current.info)
               p == ScheduleEntry(pending, e)
    <3>2. e \in Slots /\ e.info = current.info
      <4>1. t \in Times /\ current.info \in Contents
        BY <1>1, BoundsAssumption, SlotFacts DEF Times
      <4>2. QED
        BY <4>1 DEF Slot, Slots
    <3>3. Serve(p) \/ Settle(p)
      BY <3>1
    <3> HIDE DEF e
    <3>4. /\ p \in Seq(Slots) /\ Ordered(p)
          /\ \A k \in 1..Len(p) : p[k] = e \/ \E j \in 1..Len(pending) : p[k] = pending[j]
      BY <1>1, <3>2, EntryIn
    <3> HIDE DEF p
    <3>5. QED
      BY <3>2, <3>3, <3>4
  <2>3. QED
    BY <2>1, <2>2 DEF TimedReturns
<1>4. IInv' /\ From(pending', p)
  BY <1>2, <1>3, LoopStep
<1>5. Revival
  <2> SUFFICES ASSUME NEW i \in revoked', IsPending(i)'
               PROVE  (i \in revoked /\ IsPending(i)) \/ current.info = i
    BY <1>1 DEF Revival
  <2>1. DOMAIN pending' = 1..Len(pending') /\ DOMAIN pending = 1..Len(pending)
    BY <1>1, <1>4 DEF IInv, TypeOK
  <2>2. PICK k \in 1..Len(pending') : pending'[k].info = i
    BY <2>1 DEF IsPending
  <2>3. PICK j \in 1..Len(p) : pending'[k] = p[j]
    BY <1>4 DEF From
  <2>4. QED
    BY <1>2, <1>3, <2>1, <2>2, <2>3 DEF IsPending
<1>6. QED
  BY <1>4, <1>5

\* The steps that leave the list alone, and the destructor, that empties it.
LEMMA OtherStep ==
    ASSUME IInv, Woke \/ Settled \/ Tick \/ Destroy \/ Destroyed
    PROVE  IInv' /\ Revival
<1> USE DEF IInv
<1>1. CASE Woke
  <2>1. TypeOK'
    BY <1>1, BoundsAssumption DEF Woke, TypeOK, Never
  <2>2. Serving' /\ Ordered(pending') /\ WakesForHead' /\ Revival
    BY <1>1 DEF Woke, Serving, Ordered, WakesForHead, Revival, IsPending
  <2>3. QED
    BY <2>1, <2>2
<1>2. CASE Settled
  <2>1. TypeOK'
    BY <1>2 DEF Settled, TypeOK
  <2>2. Serving' /\ Ordered(pending') /\ WakesForHead' /\ Revival
    BY <1>2 DEF Settled, TypeOK, Serving, Ordered, WakesForHead, Revival, IsPending
  <2>3. QED
    BY <2>1, <2>2
<1>3. CASE Tick
  <2>1. now \in Nat /\ now' \in 0..MaxTime /\ now' >= now /\ delay' \in 0..Never
    BY <1>3, BoundsAssumption DEF Tick, TypeOK, Times, Never
  <2>2. UNCHANGED <<pending, state, pc, started, current, nextTrigger, owner, calls, revoked>>
    BY <1>3 DEF Tick
  <2>3. TypeOK'
    BY <2>1, <2>2 DEF TypeOK, Times
  <2>4. WakesForHead'
    <3>1. nextTrigger \in Nat
      BY DEF TypeOK, Never
    <3>2. nextTrigger <= now => nextTrigger <= now'
      BY <2>1, <3>1, BoundsAssumption
    <3>3. QED
      BY <2>2, <3>2 DEF WakesForHead
  <2>5. Serving' /\ Ordered(pending') /\ Revival
    BY <2>2 DEF Serving, Ordered, Revival, IsPending
  <2>6. QED
    BY <2>3, <2>4, <2>5
<1>4. CASE Destroy
  <2>1. TypeOK'
    BY <1>4 DEF Destroy, TypeOK, threadVars, AfterBlock
  <2>2. Serving' /\ Ordered(pending') /\ WakesForHead' /\ Revival
    BY <1>4 DEF Destroy, threadVars, Serving, Ordered, WakesForHead, Revival, IsPending
  <2>3. QED
    BY <2>1, <2>2
<1>5. CASE Destroyed
  <2>1. TypeOK'
    BY <1>5 DEF Destroyed, TypeOK, threadVars
  <2>2. Serving' /\ Ordered(pending') /\ WakesForHead' /\ Revival
    BY <1>5 DEF Destroyed, threadVars, Serving, Ordered, WakesForHead, Revival, IsPending
  <2>3. QED
    BY <2>1, <2>2
<1>6. QED
  BY <1>1, <1>2, <1>3, <1>4, <1>5

LEMMA Step == IInv /\ [Next]_vars => IInv' /\ (Revival \/ UNCHANGED vars)
<1> SUFFICES ASSUME IInv, [Next]_vars PROVE IInv' /\ (Revival \/ UNCHANGED vars)
  OBVIOUS
<1>1. CASE UNCHANGED vars
  <2>1. TypeOK'
    BY <1>1 DEF vars, threadVars, IInv, TypeOK
  <2>2. Serving' /\ Ordered(pending') /\ WakesForHead'
    BY <1>1 DEF vars, threadVars, IInv, Serving, Ordered, WakesForHead
  <2>3. QED
    BY <1>1, <2>1, <2>2 DEF IInv
<1>2. CASE \E i \in Contents : Revoke(i) \/ \E t \in Times : Schedule(t, i) \/ Trigger(t, i)
  BY <1>2, RevokeStep, ScheduleStep, TriggerStep
<1>3. CASE Process
  BY <1>3, ProcessStep
<1>4. CASE TimedReturns
  BY <1>4, TimedReturnsStep
<1>5. CASE Woke \/ Settled \/ Tick \/ Destroy \/ Destroyed
  BY <1>5, OtherStep
<1>6. QED
  BY <1>1, <1>2, <1>3, <1>4, <1>5 DEF Next, TimerThread

LEMMA Inductive == Spec => []IInv
BY InitIInv, Step, PTL DEF Spec

-----------------------------------------------------------------------------
\* Every variable keeps its type: no delay is below 0, however late Process() settles.
THEOREM TypeCorrect == Spec => []TypeOK
BY Inductive, PTL DEF IInv

\* The list is sorted, which Process() and ScheduleEntry() rely on (Timer.h:226, :275).
THEOREM ListSorted == Spec => []Sorted
<1>1. IInv => Sorted
  BY DEF IInv, TypeOK, Ordered, Sorted
<1>2. QED
  BY <1>1, Inductive, PTL

\* A thread that is not running was told to wake no later than for the first entry, in
\* whatever order the calls and the end of Process() come (Timer.h:151, :173, :197, :246-267).
THEOREM WakesInTime == Spec => []WakesForHead
BY Inductive, PTL DEF IInv

\* A revoked content comes back only by its own Timed() (Timer.h:187-200, :233-243).
THEOREM OnlyTimedRevives == Spec => RevivedByTimedOnly
<1>1. IInv /\ [Next]_vars =>
        [\A i \in revoked' : IsPending(i)' => \/ i \in revoked /\ IsPending(i)
                                              \/ pc = "timed" /\ current.info = i]_vars
  BY Step DEF Revival
<1>2. QED
  BY <1>1, Inductive, PTL DEF Spec, RevivedByTimedOnly
-----------------------------------------------------------------------------
(* The watch dog.                                                          *)

\* A time that the thread has not taken over is not below what is left of it; a time
\* it has taken over it sleeps at least as long as is left, and it is not running.
Patient ==
    /\ armed # 0 => due <= armed
    /\ armed = 0 /\ due # 0 => /\ dogPc \in {"wait", "worked"}
                               /\ dogState # "RUNNING"
                               /\ due <= sleep

DogInv == DogTypeOK /\ Patient

\* Infinite is above every time.
LEMMA InfiniteIsLast == /\ Infinite \in Nat \ {0} /\ 0 \in Delays
                        /\ DogTimes = 0..Infinite /\ Delays \subseteq DogTimes
BY DogAssumption DEF Infinite, Delays, DogTimes

\* The steps of the thread, that take no time.
LEMMA DogStep == DogInv /\ (WaitReturn \/ DogWoke \/ TakeOver \/ Worked) => DogInv'
<1> SUFFICES ASSUME DogInv, WaitReturn \/ DogWoke \/ TakeOver \/ Worked PROVE DogInv'
  OBVIOUS
<1> USE InfiniteIsLast DEF DogInv, DogTypeOK, Patient
<1>1. CASE WaitReturn
  BY <1>1 DEF WaitReturn
<1>2. CASE DogWoke
  BY <1>2 DEF DogWoke
<1>3. CASE TakeOver
  BY <1>3 DEF TakeOver, DogAfterBlock
<1>4. CASE Worked
  BY <1>4 DEF Worked
<1>5. QED
  BY <1>1, <1>2, <1>3, <1>4

\* The calls, from outside and from Expired().
LEMMA DogCallStep ==
    ASSUME DogInv, NEW time \in DogTimes, NEW next \in DogTimes,
           ArmFor(time) \/ Expired(next) \/ ExpiredArms(time, next)
    PROVE  DogInv'
<1> USE DogAssumption, InfiniteIsLast DEF DogInv, DogTypeOK, Patient
<1>1. CASE ArmFor(time)
  BY <1>1 DEF ArmFor
<1>2. CASE Expired(next)
  BY <1>2 DEF Expired, Expires, DogAfterBlock
<1>3. CASE ExpiredArms(time, next)
  BY <1>3 DEF ExpiredArms, Expires
<1>4. QED
  BY <1>1, <1>2, <1>3

\* Time passes for the sleep only while the thread waits, and for what is due always.
LEMMA DogTickStep == DogInv /\ DogTick => DogInv'
<1> SUFFICES ASSUME DogInv, DogTick PROVE DogInv'
  OBVIOUS
<1> DEFINE Less(left) == IF left \in 1..MaxDelay THEN left - 1 ELSE left
<1>1. \A left \in 0..Infinite :
         /\ Less(left) \in 0..Infinite /\ Less(left) <= left
         /\ Less(left) # 0 => left # 0
  BY DogAssumption, InfiniteIsLast
<1>2. \A l1, l2 \in 0..Infinite : l1 <= l2 => Less(l1) <= Less(l2)
  BY DogAssumption DEF Infinite
<1>3. /\ due' = Less(due) /\ (sleep' = Less(sleep) \/ (sleep' = sleep /\ dogPc # "wait"))
      /\ UNCHANGED <<dogState, armed, dogPc, dogCalls>>
  BY DEF DogTick
<1> HIDE DEF Less
<1>4. /\ sleep \in 0..Infinite /\ due \in 0..Infinite
      /\ Infinite \in Nat /\ Infinite' = Infinite
  BY InfiniteIsLast DEF DogInv, DogTypeOK, Infinite
<1>5. /\ Less(sleep) \in 0..Infinite /\ Less(due) \in 0..Infinite
      /\ Less(due) <= due /\ (Less(due) # 0 => due # 0)
  BY <1>1, <1>4
<1>6. due <= sleep => Less(due) <= Less(sleep)
  BY <1>2, <1>4
<1>7. DogTypeOK'
  BY <1>3, <1>4, <1>5 DEF DogInv, DogTypeOK
<1>8. Patient'
  <2>1. armed' # 0 => due' <= armed'
    BY <1>3, <1>4, <1>5 DEF DogInv, DogTypeOK, Patient
  <2>2. armed' = 0 /\ due' # 0 => dogPc' \in {"wait", "worked"} /\ dogState' # "RUNNING"
    BY <1>3, <1>5 DEF DogInv, Patient
  <2>3. armed' = 0 /\ due' # 0 => due' <= sleep'
    BY <1>3, <1>4, <1>5, <1>6 DEF DogInv, Patient
  <2>4. QED
    BY <2>1, <2>2, <2>3 DEF Patient
<1>9. QED
  BY <1>7, <1>8 DEF DogInv

\* The invariant is inductive.
LEMMA DogInductive == DogSpec => []DogInv
<1>1. DogInit => DogInv
  BY DogAssumption, InfiniteIsLast DEF DogInit, DogInv, DogTypeOK, Patient
<1>2. DogInv /\ [DogNext]_dogVars => DogInv'
  <2> SUFFICES ASSUME DogInv, [DogNext]_dogVars PROVE DogInv'
    OBVIOUS
  <2>1. CASE UNCHANGED dogVars
    BY <2>1 DEF DogInv, DogTypeOK, Patient, dogVars
  <2>2. CASE (\E time \in Delays : Arm(time)) \/ Reset
    <3>1. \E time \in DogTimes : ArmFor(time)
      BY <2>2 DEF Arm, Reset, DogTimes
    <3>2. QED
      BY <3>1, DogCallStep
  <2>3. CASE WaitReturn \/ DogWoke \/ TakeOver \/ Worked
    BY <2>3, DogStep
  <2>4. CASE \E next \in DogTimes : Expired(next) \/ \E time \in DogTimes : ExpiredArms(time, next)
    BY <2>4, DogCallStep
  <2>5. CASE DogTick
    BY <2>5, DogTickStep
  <2>6. QED
    BY <2>1, <2>2, <2>3, <2>4, <2>5 DEF DogNext, Dog, Worker
<1>3. QED
  BY <1>1, <1>2, PTL DEF DogSpec

\* Every variable keeps its type: no sleep and no time goes below 0.
THEOREM DogTypeCorrect == DogSpec => []DogTypeOK
BY DogInductive, PTL DEF DogInv

\* Expired() is called only when the last time asked for has passed, never after a
\* Reset, whatever call races with a sleep that ends (Timer.h:350-393).
THEOREM NeverTooEarly == DogSpec => NeverEarly
<1>1. DogInv /\ [DogNext]_dogVars => [dogPc = "work" /\ armed = 0 /\ dogPc' = "worked" => due = 0]_dogVars
  BY DEF DogInv, Patient
<1>2. QED
  BY <1>1, DogInductive, PTL DEF DogSpec, NeverEarly
=============================================================================
