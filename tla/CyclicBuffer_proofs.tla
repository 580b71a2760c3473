------------------------- MODULE CyclicBuffer_proofs -------------------------
(***************************************************************************)
(* Proofs about CyclicBuffer, for a buffer of any size, traces of any      *)
(* length and whatever data reads as when it is taken for a length: its    *)
(* types; that until a trace fills it to the last cell only whole traces   *)
(* are put out, in order; and that what stands between tail and head are   *)
(* whole traces.                                                           *)
(*                                                                         *)
(* The argument lays the traces one behind the other on a line that has no *)
(* end: trace k begins at base[k].  Until the buffer is filled the tail is *)
(* the place where one of them begins, the head is the remainder of the    *)
(* place where the next one will, less than Size further, and a cell holds *)
(* what stands at that place of the line.                                  *)
(***************************************************************************)
EXTENDS CyclicBuffer, SequenceTheorems, WellFoundedInduction, TLAPS

-----------------------------------------------------------------------------
(* Remainders.                                                             *)

LEMMA Divided ==
    ASSUME NEW x \in Nat
    PROVE  x \div Size \in Nat /\ x % Size \in Offsets /\ x = (x \div Size) * Size + (x % Size)
BY SizeAssumption DEF Offsets

\* A quotient and a remainder are the only ones.
LEMMA OneQuotient ==
    ASSUME NEW q \in Nat, NEW p \in Nat, NEW r \in Offsets, NEW s \in Offsets,
           q * Size + r = p * Size + s
    PROVE  q = p /\ r = s
<1>1. ASSUME NEW a \in Nat, NEW b \in Nat, a < b PROVE a * Size + Size <= b * Size
  BY <1>1, SizeAssumption
<1>2. q * Size \in Nat /\ p * Size \in Nat
  BY SizeAssumption
<1>3. ~(q < p) /\ ~(p < q)
  BY <1>1, <1>2, SizeAssumption DEF Offsets
<1>4. QED
  BY <1>3, <1>2 DEF Offsets

LEMMA Quotient ==
    ASSUME NEW q \in Nat, NEW r \in Offsets
    PROVE  (q * Size + r) % Size = r /\ (q * Size + r) \div Size = q
<1>1. q * Size + r \in Nat
  BY SizeAssumption DEF Offsets
<1>2. QED
  BY <1>1, Divided, OneQuotient

\* Less than a round further on the line.
LEMMA Wrap ==
    ASSUME NEW x \in Nat, NEW d \in 0 .. Size
    PROVE  /\ (x % Size) + d < Size => /\ (x + d) % Size = (x % Size) + d
                                       /\ (x + d) \div Size = x \div Size
           /\ (x % Size) + d >= Size => /\ (x + d) % Size = (x % Size) + d - Size
                                        /\ (x + d) \div Size = (x \div Size) + 1
<1> DEFINE q == x \div Size
           r == x % Size
<1>1. q \in Nat /\ r \in Offsets /\ x = q * Size + r
  BY Divided
<1> HIDE DEF q, r
<1>2. q * Size \in Nat /\ (q + 1) * Size = q * Size + Size
  BY <1>1, SizeAssumption
<1>3. ASSUME r + d < Size PROVE (x + d) % Size = r + d /\ (x + d) \div Size = q
  <2>1. r + d \in Offsets /\ x + d = q * Size + (r + d)
    BY <1>1, <1>2, <1>3, SizeAssumption DEF Offsets
  <2>2. QED
    BY <1>1, <2>1, Quotient
<1>4. ASSUME r + d >= Size PROVE (x + d) % Size = r + d - Size /\ (x + d) \div Size = q + 1
  <2>1. r + d - Size \in Offsets /\ x + d = (q + 1) * Size + (r + d - Size) /\ q + 1 \in Nat
    BY <1>1, <1>2, <1>4, SizeAssumption DEF Offsets
  <2>2. QED
    BY <2>1, Quotient
<1>5. QED
  BY <1>3, <1>4 DEF q, r

\* Places less than a round apart do not share a cell.
LEMMA Apart ==
    ASSUME NEW x \in Nat, NEW y \in Nat, x < y, y < x + Size
    PROVE  x % Size # y % Size
<1>1. PICK d \in 1 .. Size - 1 : y = x + d
  <2>1. y - x \in 1 .. Size - 1 /\ y = x + (y - x)
    BY SizeAssumption
  <2>2. QED
    BY <2>1
<1>2. x % Size \in Offsets /\ d \in 0 .. Size
  BY Divided, SizeAssumption
<1>3. /\ (x % Size) + d < Size => (x + d) % Size = (x % Size) + d
      /\ (x % Size) + d >= Size => (x + d) % Size = (x % Size) + d - Size
  BY <1>2, Wrap
<1>4. QED
  BY <1>1, <1>2, <1>3, SizeAssumption DEF Offsets

\* A remainder may be taken before something is added.
LEMMA Remainder ==
    ASSUME NEW x \in Nat, NEW y \in Nat
    PROVE  ((x % Size) + y) % Size = (x + y) % Size
<1> DEFINE q == x \div Size
           r == x % Size
           p == (r + y) \div Size
           s == (r + y) % Size
<1>1. q \in Nat /\ r \in Offsets /\ x = q * Size + r
  BY Divided
<1>2. p \in Nat /\ s \in Offsets /\ r + y = p * Size + s
  <2>1. r + y \in Nat
    BY <1>1 DEF Offsets
  <2>2. QED
    BY <2>1, Divided
<1> HIDE DEF q, r, p, s
<1>3. x + y = (q + p) * Size + s /\ q + p \in Nat
  BY <1>1, <1>2, SizeAssumption DEF Offsets
<1>4. (x + y) % Size = s
  BY <1>2, <1>3, Quotient
<1>5. QED
  BY <1>4 DEF s, r

\* Used and Free measure the distance on the line, as long as it is less than a round.
LEMMA Distance ==
    ASSUME NEW t \in Nat, NEW x \in Nat, t <= x, x < t + Size
    PROVE  Used(x % Size, t) = x - t /\ Free(x % Size, t) = Size - (x - t)
<1>1. PICK d \in 0 .. Size - 1 : x = t + d
  <2>1. x - t \in 0 .. Size - 1 /\ x = t + (x - t)
    BY SizeAssumption
  <2>2. QED
    BY <2>1
<1>2. t % Size \in Offsets /\ d \in 0 .. Size
  BY Divided, SizeAssumption
<1>3. /\ (t % Size) + d < Size => (t + d) % Size = (t % Size) + d
      /\ (t % Size) + d >= Size => (t + d) % Size = (t % Size) + d - Size
  BY <1>2, Wrap
<1>4. QED
  BY <1>1, <1>2, <1>3, SizeAssumption DEF Used, Free, Offset, Offsets

\* GetCompleteTail is an addition, as long as it is less than a round.
LEMMA Ahead ==
    ASSUME NEW t \in Nat, NEW d \in 0 .. Size - 1
    PROVE  CompleteTail(t, d) = t + d
<1> DEFINE r == t % Size
           q == t \div Size
<1>1. q \in Nat /\ r \in Offsets /\ t = q * Size + r /\ d \in 0 .. Size
  BY Divided, SizeAssumption
<1>2. (r + d) % Size = (t + d) % Size
  BY Remainder
<1>3. /\ r + d < Size => (t + d) % Size = r + d
      /\ r + d >= Size => (t + d) % Size = r + d - Size
  BY <1>1, Wrap
<1>4. CompleteTail(t, d) = (IF (t + d) % Size < r THEN q + 1 ELSE q) * Size + ((t + d) % Size)
  BY <1>2 DEF CompleteTail, Offset
<1> HIDE DEF q, r
<1>5. q * Size \in Nat /\ (q + 1) * Size = q * Size + Size
  BY <1>1, SizeAssumption
<1>6. CASE r + d < Size
  <2>1. (t + d) % Size = r + d /\ ~(r + d < r)
    BY <1>1, <1>3, <1>6, SizeAssumption DEF Offsets
  <2>2. CompleteTail(t, d) = q * Size + (r + d)
    BY <1>4, <2>1
  <2>3. QED
    BY <1>1, <1>5, <2>2, SizeAssumption DEF Offsets
<1>7. CASE r + d >= Size
  <2>1. (t + d) % Size = r + d - Size /\ r + d - Size < r
    BY <1>1, <1>3, <1>7, SizeAssumption DEF Offsets
  <2>2. CompleteTail(t, d) = (q + 1) * Size + (r + d - Size)
    BY <1>4, <2>1
  <2>3. QED
    BY <1>1, <1>5, <2>2, SizeAssumption DEF Offsets
<1>8. QED
  BY <1>1, <1>6, <1>7, SizeAssumption DEF Offsets

-----------------------------------------------------------------------------
(* Induction.                                                              *)

\* A set of natural numbers has a smallest one.
LEMMA Smallest ==
    ASSUME NEW T \in SUBSET Nat, T # {}
    PROVE  \E m \in T : \A k \in T : m <= k
<1>1. \E m \in T : \A k \in T : ~(<<k, m>> \in OpToRel(<, Nat))
  BY NatLessThanWellFounded, WFMin
<1>2. \A k, m \in T : k < m => <<k, m>> \in OpToRel(<, Nat)
  BY DEF OpToRel
<1> DEFINE R == OpToRel(<, Nat)
<1> HIDE DEF R
<1>3. PICK m \in T : \A k \in T : ~(<<k, m>> \in R)
  BY <1>1 DEF R
<1>4. \A k \in T : k < m => <<k, m>> \in R
  BY <1>2 DEF R
<1>5. \A k \in T : ~(k < m)
  BY <1>3, <1>4, Zenon
<1>6. \A k \in T : k \in Nat /\ m \in Nat
  OBVIOUS
<1>7. QED
  BY <1>5, <1>6

\* Induction, over a set.
LEMMA SetInduction ==
    ASSUME NEW T, 0 \in T, \A n \in Nat : n \in T => n + 1 \in T
    PROVE  \A n \in Nat : n \in T
<1> SUFFICES ASSUME Nat \ T # {} PROVE FALSE
  OBVIOUS
<1>1. PICK m \in Nat \ T : \A k \in Nat \ T : m <= k
  BY Smallest
<1>2. m # 0 /\ m - 1 \in Nat /\ ~(m <= m - 1)
  BY <1>1
<1>3. m - 1 \in T
  BY <1>1, <1>2
<1>4. m \in T
  BY <1>2, <1>3
<1>5. QED
  BY <1>4

-----------------------------------------------------------------------------
(* How much is overwritten.                                                *)

\* f[n] is where the search that has come to n ends.
Search(f, t, required, junk) ==
    /\ OverwriteSize(t, required, junk) = f[0]
    /\ \A n \in Nat : f[n] = IF n >= required THEN n ELSE f[n + Peek(t + n, junk)]
    /\ \A n \in Nat : f[n] \in Nat /\ f[n] >= required

\* GetOverwriteSize ends, for every length it may meet is above 0, and finds enough.
LEMMA OverwriteFacts ==
    ASSUME NEW t \in Nat, NEW required \in Nat, NEW junk,
           \A n \in Nat : Peek(t + n, junk) \in Nat \ {0}
    PROVE  \E f : Search(f, t, required, junk)
<1> DEFINE step == [n \in Nat |-> Peek(t + n, junk)]
           Found(f, n) == IF n >= required THEN n ELSE f[n + step[n]]
           from == CHOOSE f : f = [n \in Nat |-> Found(f, n)]
<1>1. /\ \A n \in Nat : step[n] = Peek(t + n, junk) /\ step[n] \in Nat \ {0}
      /\ OverwriteSize(t, required, junk) = from[0]
  BY DEF OverwriteSize
<1> HIDE DEF step
<1>2. \E f : f = [n \in Nat |-> Found(f, n)]
  <2> DEFINE Right(f, k) == \A n \in Nat : n + k >= required => f[n] = Found(f, n)
             T == {k \in Nat : \E f \in [Nat -> Nat] : Right(f, k)}
  <2>1. 0 \in T
    <3> DEFINE f == [n \in Nat |-> n]
    <3>1. f \in [Nat -> Nat] /\ Right(f, 0)
      OBVIOUS
    <3>2. QED
      BY <3>1
  <2>2. ASSUME NEW k \in Nat, k \in T PROVE k + 1 \in T
    <3>1. PICK f \in [Nat -> Nat] : Right(f, k)
      BY <2>2
    <3>2. CASE k >= required
      <4>1. Right(f, k + 1)
        BY <3>1, <3>2
      <4>2. QED
        BY <4>1
    <3>3. CASE k < required
      <4>1. PICK m \in Nat : m + k + 1 = required
        <5>1. required - (k + 1) \in Nat /\ (required - (k + 1)) + k + 1 = required
          BY <3>3
        <5>2. QED
          BY <5>1
      <4> DEFINE g == [f EXCEPT ![m] = f[m + step[m]]]
      <4>2. /\ g \in [Nat -> Nat] /\ g[m] = f[m + step[m]]
            /\ \A n \in Nat : n # m => g[n] = f[n]
        BY <1>1
      <4> HIDE DEF g
      <4>3. ASSUME NEW n \in Nat, n + (k + 1) >= required PROVE g[n] = Found(g, n)
        <5>1. n + step[n] \in Nat /\ n + step[n] # m /\ n >= m
          <6>1. step[n] \in Nat \ {0}
            BY <1>1
          <6>2. n >= m
            BY <4>1, <4>3
          <6> HIDE DEF Right, T
          <6>3. QED
            BY <6>1, <6>2
        <5>2. g[n + step[n]] = f[n + step[n]]
          BY <4>2, <5>1
        <5>3. CASE n = m
          BY <4>1, <4>2, <5>2, <5>3
        <5>4. CASE n # m
          <6>1. n + k >= required
            BY <4>1, <5>1, <5>4
          <6>2. f[n] = Found(f, n)
            BY <3>1, <6>1
          <6>3. QED
            BY <4>2, <5>2, <5>4, <6>2
        <5>5. QED
          BY <5>3, <5>4
      <4>4. Right(g, k + 1)
        BY <4>3
      <4>5. QED
        BY <4>2, <4>4
    <3>4. QED
      BY <3>2, <3>3
  <2> HIDE DEF T
  <2>3. required \in T
    BY <2>1, <2>2, SetInduction
  <2>4. PICK f \in [Nat -> Nat] : Right(f, required)
    BY <2>3 DEF T
  <2>5. \A n \in Nat : n + required >= required
    OBVIOUS
  <2>6. \A n \in Nat : f[n] = Found(f, n)
    BY <2>4, <2>5
  <2> HIDE DEF Found
  <2>7. f = [n \in Nat |-> Found(f, n)]
    BY <2>6
  <2>8. QED
    BY <2>7
<1>3. from = [n \in Nat |-> Found(from, n)]
  <2> HIDE DEF Found
  <2>1. QED
    BY <1>2
<1> HIDE DEF from
<1>4. \A n \in Nat : from[n] = Found(from, n)
  <2> HIDE DEF Found
  <2>1. QED
    BY <1>3
<1>5. \A n \in Nat : from[n] \in Nat /\ from[n] >= required
  <2> DEFINE T == {k \in Nat : \A n \in Nat : n + k >= required => from[n] \in Nat /\ from[n] >= required}
  <2>1. 0 \in T
    BY <1>4
  <2>2. ASSUME NEW k \in Nat, k \in T PROVE k + 1 \in T
    <3> SUFFICES ASSUME NEW n \in Nat, n + (k + 1) >= required
                 PROVE  from[n] \in Nat /\ from[n] >= required
      OBVIOUS
    <3>1. CASE n >= required
      BY <1>4, <3>1
    <3>2. CASE ~(n >= required)
      <4>1. n + step[n] \in Nat /\ (n + step[n]) + k >= required
        BY <1>1
      <4>2. from[n] = from[n + step[n]]
        BY <1>4, <3>2
      <4>3. QED
        BY <2>2, <4>1, <4>2
    <3>3. QED
      BY <3>1, <3>2
  <2> HIDE DEF T
  <2>3. required \in T
    BY <2>1, <2>2, SetInduction
  <2>4. \A n \in Nat : n + required >= required
    OBVIOUS
  <2>5. QED
    BY <2>3, <2>4 DEF T
<1>6. \A n \in Nat : from[n] = IF n >= required THEN n ELSE from[n + Peek(t + n, junk)]
  BY <1>1, <1>4
<1>7. Search(from, t, required, junk)
  BY <1>1, <1>5, <1>6 DEF Search
<1>8. QED
  BY <1>7

-----------------------------------------------------------------------------
(* The types, and the numbers that go with the places of the two sides.    *)

Shape ==
    /\ TypeOK
    /\ cells \in [Offsets -> ((1 .. Current) \X Nat) \cup {Blank}]
    /\ writer # "idle" => Current > 0
    /\ writer = "assure" => written = 0
    /\ writer = "write" => written < Reserved
    /\ writer = "publish" => written + 1 = Reserved
    /\ writer = "move" => written = Reserved
    /\ reader = "copy" => Len(copied) < readSize
    /\ reader \in {"take", "check", "flush", "dispatch"} => readSize > 0 /\ Len(copied) = readSize

LEMMA LengthFacts ==
    ASSUME Shape
    PROVE  /\ Current \in Nat /\ Current <= MaxTraces
           /\ \A k \in 1 .. Current : lengths[k] \in 1 .. Size - 1
           /\ writer # "idle" => Reserved \in 1 .. Size - 1
<1>1. lengths \in Seq(1 .. Size - 1) /\ Current <= MaxTraces /\ (writer # "idle" => Current > 0)
  BY DEF Shape, TypeOK, Current
<1>2. Current \in Nat /\ \A k \in 1 .. Current : lengths[k] \in 1 .. Size - 1
  <2> DEFINE S == 1 .. Size - 1
  <2>1. lengths \in Seq(S)
    BY <1>1
  <2> HIDE DEF S
  <2>2. Len(lengths) \in Nat /\ \A k \in 1 .. Len(lengths) : lengths[k] \in S
    BY <2>1
  <2>3. QED
    BY <2>2 DEF S, Current
<1>3. QED
  BY <1>1, <1>2 DEF Reserved

\* What is taken for a length is one, or junk.
LEMMA PeekFacts ==
    ASSUME Shape, NEW t \in Nat, NEW junk
    PROVE  \/ Peek(t, junk) = junk
           \/ \E k \in 1 .. Current : Peek(t, junk) = lengths[k]
<1>1. Offset(t) \in Offsets
  BY Divided DEF Offset
<1>2. cells[Offset(t)] \in ((1 .. Current) \X Nat) \cup {Blank}
  BY <1>1 DEF Shape
<1>3. 0 \notin Traces
  BY DEF Traces
<1>4. cells[Offset(t)] \in Traces \X {0} => cells[Offset(t)][1] \in 1 .. Current
  BY <1>2, <1>3 DEF Blank
<1>5. QED
  BY <1>4 DEF Peek

LEMMA NumberFacts ==
    ASSUME NEW h \in Offsets, NEW t \in Nat, NEW d \in Nat
    PROVE  /\ Used(h, t) \in 0 .. Size - 1 /\ Free(h, t) \in 1 .. Size
           /\ CompleteTail(t, d) \in Nat
<1>1. /\ Offset(t) \in Offsets /\ t \div Size \in Nat /\ Size \in Nat /\ h \in Nat
  BY Divided, SizeAssumption DEF Offset, Offsets
<1>2. Used(h, t) \in 0 .. Size - 1 /\ Free(h, t) \in 1 .. Size
  BY <1>1, SizeAssumption DEF Used, Free, Offsets
<1>3. (Offset(t) + d) % Size \in Nat
  <2>1. Offset(t) + d \in Nat
    BY <1>1 DEF Offsets
  <2>2. QED
    BY <2>1, Divided DEF Offsets
<1>4. CompleteTail(t, d) \in Nat
  BY <1>1, <1>3 DEF CompleteTail
<1>5. QED
  BY <1>2, <1>4

\* How much Assure overwrites, whatever stands there.
LEMMA AssureFacts ==
    ASSUME Shape, NEW junk \in Junk \ {0}, NEW t \in Nat, NEW required \in Nat
    PROVE  /\ \A n \in Nat : Peek(t + n, junk) \in Nat \ {0}
           /\ OverwriteSize(t, required, junk) \in Nat
           /\ OverwriteSize(t, required, junk) >= required
<1>1. \A n \in Nat : Peek(t + n, junk) \in Nat \ {0}
  <2> SUFFICES ASSUME NEW n \in Nat PROVE Peek(t + n, junk) \in Nat \ {0}
    OBVIOUS
  <2>1. t + n \in Nat /\ junk \in Nat \ {0}
    BY JunkAssumption
  <2>2. QED
    BY <2>1, PeekFacts, LengthFacts, SizeAssumption
<1>2. QED
  BY <1>1, OverwriteFacts DEF Search

LEMMA InitShape == Init => Shape
<1> SUFFICES ASSUME Init PROVE Shape
  OBVIOUS
<1>1. /\ Len(lengths) = 0 /\ lengths \in Seq(1 .. Size - 1) /\ copied \in Seq(Cells \cup {Blank})
      /\ 0 \in Offsets
  BY SizeAssumption DEF Init, Offsets
<1>2. QED
  BY <1>1, BoundAssumption DEF Init, Shape, TypeOK, Current

\* A cell of a trace that is being written.
LEMMA CopyShape ==
    ASSUME Shape, Copy, writer # "idle"
    PROVE  /\ cells' \in [Offsets -> ((1 .. Current) \X Nat) \cup {Blank}]
           /\ cells' \in [Offsets -> Cells \cup {Blank}]
           /\ (head + written) % Size \in Offsets
           /\ cells' = [cells EXCEPT ![(head + written) % Size] = <<Current, written>>]
           /\ written' = written + 1
<1>1. /\ head \in Nat /\ written \in Nat /\ Current \in 1 .. Current /\ Current \in Traces
      /\ cells \in [Offsets -> ((1 .. Current) \X Nat) \cup {Blank}]
      /\ cells \in [Offsets -> Cells \cup {Blank}]
  BY LengthFacts DEF Shape, TypeOK, Offsets, Traces
<1>2. (head + written) % Size \in Offsets
  BY <1>1, Divided
<1>3. <<Current, written>> \in (1 .. Current) \X Nat /\ <<Current, written>> \in Cells
  BY <1>1 DEF Cells
<1>4. QED
  BY <1>1, <1>2, <1>3 DEF Copy
LEMMA WriterShape ==
    ASSUME Shape, (\E length \in Lengths : Reserve(length)) \/ Writing
    PROVE  Shape'
<1> USE DEF bufferVars, readerVars
<1>1. ASSUME NEW length \in Lengths, Reserve(length) PROVE Shape'
  <2> DEFINE clipped == IF length >= Size THEN Size - 1 ELSE length
  <2>1. clipped \in 1 .. Size - 1
    BY LengthsAssumption, SizeAssumption
  <2> HIDE DEF clipped
  <2>2. /\ lengths' = Append(lengths, clipped) /\ lengths \in Seq(1 .. Size - 1)
        /\ Current < MaxTraces
    BY <1>1 DEF Reserve, Shape, TypeOK, clipped
  <2>3. lengths' \in Seq(1 .. Size - 1) /\ Len(lengths') = Current + 1 /\ Current \in Nat
    BY <2>1, <2>2 DEF Current
  <2>4. /\ UNCHANGED <<cells, head, tail, empty, bell, reader, readTail, readSize, copied, last, filled>>
        /\ written' = 0 /\ oldTail' = tail /\ writer' = "assure"
    BY <1>1 DEF Reserve
  <2>5. Len(lengths') <= MaxTraces
    BY <2>2, <2>3, BoundAssumption
  <2>6. TypeOK'
    BY <2>3, <2>4, <2>5 DEF Shape, TypeOK
  <2>7. Current' = Current + 1 /\ (1 .. Current) \X Nat \subseteq (1 .. Current') \X Nat
    BY <2>3 DEF Current
  <2>8. cells' \in [Offsets -> ((1 .. Current') \X Nat) \cup {Blank}]
    BY <2>4, <2>7 DEF Shape
  <2>9. QED
    BY <2>3, <2>4, <2>6, <2>7, <2>8 DEF Shape
<1>2. ASSUME NEW junk \in Junk \ {0}, Assure(junk) PROVE Shape'
  <2>1. /\ UNCHANGED <<cells, head, lengths, written, writer, empty, bell, reader, readTail, readSize, copied, last, filled>>
        /\ writer = "assure"
        /\ \/ tail' = CompleteTail(oldTail, OverwriteSize(oldTail, Reserved - Free(head, oldTail), junk))
              /\ oldTail' = oldTail
           \/ tail' = tail /\ oldTail' = tail
    BY <1>2 DEF Assure
  <2>2. Reserved - Free(head, oldTail) \in Nat /\ oldTail \in Nat /\ tail \in Nat
    <3>1. head \in Offsets /\ oldTail \in Nat /\ tail \in Nat /\ 0 \in Nat
      BY DEF Shape, TypeOK
    <3>2. Free(head, oldTail) \in 1 .. Size
      BY <3>1, NumberFacts
    <3>3. Reserved \in 1 .. Size - 1
      BY <2>1, LengthFacts
    <3>4. QED
      BY <1>2, <3>1, <3>2, <3>3 DEF Assure
  <2>3. OverwriteSize(oldTail, Reserved - Free(head, oldTail), junk) \in Nat
    BY <2>2, AssureFacts
  <2>4. tail' \in Nat /\ oldTail' \in Nat
    BY <2>1, <2>2, <2>3, NumberFacts DEF Shape, TypeOK
  <2>5. TypeOK'
    BY <2>1, <2>4 DEF Shape, TypeOK
  <2>6. QED
    BY <2>1, <2>5 DEF Shape, Current, Reserved
<1>3. CASE Assured
  <2>1. 0 < Reserved
    BY <1>3, LengthFacts DEF Assured
  <2>2. QED
    BY <1>3, <2>1 DEF Assured, Shape, TypeOK, Current, Reserved
<1>4. CASE Write
  <2>1. /\ UNCHANGED <<head, tail, lengths, writer, oldTail, empty, bell, reader, readTail, readSize, copied, last, filled>>
        /\ writer = "write" /\ written + 1 < Reserved
    BY <1>4 DEF Write
  <2>2. /\ cells' \in [Offsets -> ((1 .. Current) \X Nat) \cup {Blank}]
        /\ cells' \in [Offsets -> Cells \cup {Blank}] /\ written' = written + 1
    BY <1>4, CopyShape DEF Write
  <2>3. TypeOK'
    BY <2>1, <2>2 DEF Shape, TypeOK
  <2>4. QED
    BY <2>1, <2>2, <2>3 DEF Shape, Current, Reserved
<1>5. CASE WriteLast \/ Ring
  <2>1. TypeOK'
    BY <1>5 DEF WriteLast, Ring, Shape, TypeOK, writerVars
  <2>2. QED
    BY <1>5, <2>1 DEF WriteLast, Ring, Shape, Current, Reserved
<1>6. CASE Publish
  <2>1. /\ UNCHANGED <<head, tail, lengths, oldTail, empty, bell, reader, readTail, readSize, copied, last, filled>>
        /\ writer = "publish" /\ writer' = "move"
    BY <1>6 DEF Publish
  <2>2. /\ cells' \in [Offsets -> ((1 .. Current) \X Nat) \cup {Blank}]
        /\ cells' \in [Offsets -> Cells \cup {Blank}] /\ written' = written + 1
    BY <1>6, CopyShape DEF Publish
  <2>3. TypeOK'
    BY <2>1, <2>2 DEF Shape, TypeOK
  <2>4. QED
    BY <2>1, <2>2, <2>3 DEF Shape, Current, Reserved
<1>7. CASE Move
  <2>1. (head + Reserved) % Size \in Offsets
    <3>1. head + Reserved \in Nat
      BY <1>7, LengthFacts DEF Move, Shape, TypeOK, Offsets
    <3>2. QED
      BY <3>1, Divided
  <2>2. /\ UNCHANGED <<cells, tail, lengths, written, oldTail, empty, bell, reader, readTail, readSize, copied, last>>
        /\ head' \in Offsets /\ writer' \in {"ring", "idle"} /\ filled' \in BOOLEAN /\ writer = "move"
    BY <1>7, <2>1 DEF Move
  <2>3. TypeOK'
    BY <2>2 DEF Shape, TypeOK
  <2>4. QED
    BY <2>2, <2>3 DEF Shape, Current, Reserved
<1>8. QED
  BY <1>1, <1>2, <1>3, <1>4, <1>5, <1>6, <1>7 DEF Writing

LEMMA ReaderShape == Shape /\ Reading => Shape'
<1> SUFFICES ASSUME Shape, Reading PROVE Shape'
  OBVIOUS
<1>1. UNCHANGED <<cells, head, lengths, written, writer, oldTail, empty>>
  BY DEF Reading, Acknowledge, Load, LoadHead, NoData, GetReadSize, NoSize, CopyOut, Take, Check,
         Flush, Dispatch, Return, Look, writerVars
<1>2. /\ cells' \in [Offsets -> ((1 .. Current') \X Nat) \cup {Blank}]
      /\ writer' # "idle" => Current' > 0
      /\ writer' = "assure" => written' = 0
      /\ writer' = "write" => written' < Reserved'
      /\ writer' = "publish" => written' + 1 = Reserved'
      /\ writer' = "move" => written' = Reserved'
  BY <1>1 DEF Shape, Current, Reserved
<1> DEFINE Read == /\ reader = "copy" => Len(copied) < readSize
                   /\ reader \in {"take", "check", "flush", "dispatch"} =>
                         readSize > 0 /\ Len(copied) = readSize
<1>3. TypeOK /\ Read
  BY DEF Shape
<1>4. CASE \/ Acknowledge \/ Load \/ LoadHead \/ NoData
           \/ \E junk \in Junk : NoSize(junk) \/ Check(junk)
  <2>1. TypeOK'
    BY <1>1, <1>3, <1>4 DEF TypeOK, Acknowledge, Load, LoadHead, NoData, NoSize, Check, Return, Look
  <2>2. Read'
    BY <1>3, <1>4 DEF Acknowledge, Load, LoadHead, NoData, NoSize, Check, Return, Look
  <2>3. QED
    BY <1>2, <2>1, <2>2 DEF Shape
<1>5. ASSUME NEW junk \in Junk, GetReadSize(junk) PROVE Shape'
  <2>1. /\ UNCHANGED <<tail, bell, readTail, last, filled>> /\ reader' = "copy" /\ copied' = <<>>
        /\ readSize' \in 1 .. Size
    BY <1>5 DEF GetReadSize, Look
  <2>2. readSize' \in Nat /\ readSize' > 0 /\ copied' \in Seq(Cells \cup {Blank}) /\ Len(copied') = 0
    BY <2>1, SizeAssumption
  <2>3. TypeOK' /\ Read'
    BY <1>1, <1>3, <2>1, <2>2 DEF TypeOK
  <2>4. QED
    BY <1>2, <2>3 DEF Shape
<1>6. CASE CopyOut
  <2>1. /\ UNCHANGED <<tail, bell, readTail, readSize, last, filled>> /\ reader = "copy"
        /\ reader' = (IF Len(copied) + 1 = readSize THEN "take" ELSE "copy")
        /\ copied' = Append(copied, cells[Offset(readTail + Len(copied))])
    BY <1>6 DEF CopyOut, Look
  <2>2. cells[Offset(readTail + Len(copied))] \in Cells \cup {Blank}
    <3>1. readTail + Len(copied) \in Nat
      BY <1>3 DEF TypeOK
    <3>2. Offset(readTail + Len(copied)) \in Offsets
      BY <3>1, Divided DEF Offset
    <3>3. QED
      BY <1>3, <3>2 DEF TypeOK
  <2>3. copied' \in Seq(Cells \cup {Blank}) /\ Len(copied') = Len(copied) + 1 /\ Len(copied) \in Nat
    BY <1>3, <2>1, <2>2 DEF TypeOK
  <2>4. TypeOK'
    BY <1>1, <1>3, <2>1, <2>3 DEF TypeOK
  <2>5. Read'
    BY <1>3, <2>1, <2>3 DEF TypeOK
  <2>6. QED
    BY <1>2, <2>4, <2>5 DEF Shape
<1>7. CASE Take \/ Flush
  <2>1. TypeOK'
    BY <1>1, <1>3, <1>7 DEF TypeOK, Take, Flush, Look, Offsets
  <2>2. Read'
    BY <1>3, <1>7 DEF Take, Flush, Look
  <2>3. QED
    BY <1>2, <2>1, <2>2 DEF Shape
<1>8. CASE Dispatch
  <2>1. /\ UNCHANGED <<tail, bell, readTail, filled>> /\ reader = "dispatch" /\ reader' = "load"
        /\ last' = copied[1][1] /\ readSize' = 0 /\ copied' = <<>>
    BY <1>8 DEF Dispatch, Look
  <2>2. copied[1] \in Cells \cup {Blank}
    BY <1>3, <2>1 DEF TypeOK
  <2>3. copied[1][1] \in Nat
    BY <2>2, BoundAssumption DEF Cells, Blank, Traces
  <2>4. copied' \in Seq(Cells \cup {Blank})
    BY <2>1
  <2>5. TypeOK' /\ Read'
    BY <1>1, <1>3, <2>1, <2>3, <2>4 DEF TypeOK
  <2>6. QED
    BY <1>2, <2>5 DEF Shape
<1>9. QED
  BY <1>4, <1>5, <1>6, <1>7, <1>8 DEF Reading

LEMMA ShapeStep == Shape /\ [Next]_vars => Shape'
<1>1. Shape /\ UNCHANGED vars => Shape'
  BY DEF Shape, TypeOK, Current, Reserved, vars, bufferVars, writerVars, readerVars
<1>2. QED
  BY <1>1, WriterShape, ReaderShape DEF Next

-----------------------------------------------------------------------------
(* The line of the traces.                                                 *)

\* Trace k begins at base[k], and the next one behind its last cell.
Line(base) ==
    /\ base \in [1 .. Current + 1 -> Nat]
    /\ \A k \in 1 .. Current : base[k + 1] = base[k] + lengths[k]
    /\ \A k, m \in 1 .. Current + 1 : k <= m => base[k] <= base[m]

\* Between tail and head stand the traces from first to the last published one.
Stands(base, first) ==
    /\ tail = base[first]
    /\ head = base[Published + 1] % Size
    /\ base[Published + 1] < tail + Size
    /\ \A k \in first .. Published : \A j \in 0 .. lengths[k] - 1 :
          cells[(base[k] + j) % Size] = <<k, j>>

\* The tail the writer has read is one there has been since it began, so that the room
\* it finds is there; behind the head stands what it has written.
Writes(base) ==
    /\ writer = "assure" => oldTail <= tail /\ base[Current] < oldTail + Size
    /\ writer \in {"write", "publish", "move"} =>
          /\ base[Current + 1] <= tail + Size
          /\ \A j \in 0 .. written - 1 : cells[(base[Current] + j) % Size] = <<Current, j>>

CopyOf(id) == readSize = lengths[id] /\ \A i \in 1 .. Len(copied) : copied[i] = <<id, i - 1>>

\* The tail the reader has read may be behind, but never comes back; as long as it is the
\* tail the reader copies the first trace.
Reads(first) ==
    /\ last < first
    /\ reader \in {"head", "size", "copy", "take"} => readTail <= tail
    /\ reader \in {"size", "copy", "take"} /\ readTail = tail => first <= Published
    /\ reader \in {"copy", "take"} /\ readTail = tail => CopyOf(first)
    /\ reader \in {"check", "dispatch"} => \E id \in 1 .. first - 1 : last < id /\ CopyOf(id)
    /\ reader # "flush"

Placed(base, first) ==
    first \in 1 .. Published + 1 /\ Line(base) /\ Stands(base, first) /\ Writes(base) /\ Reads(first)

Good == filled \/ \E base, first : Placed(base, first)

IInv == Shape /\ Good

LEMMA LineFacts ==
    ASSUME Shape, NEW base, NEW first \in 1 .. Published + 1, Line(base), Stands(base, first)
    PROVE  /\ Current \in Nat /\ Published \in 0 .. Current
           /\ writer \notin {"idle", "ring"} => Published + 1 = Current
           /\ \A k \in 1 .. Current + 1 : base[k] \in Nat
           /\ \A k \in 1 .. Current :
                 base[k + 1] = base[k] + lengths[k] /\ lengths[k] \in 1 .. Size - 1
           /\ tail \in Nat /\ tail <= base[Published + 1]
           /\ Used(head, tail) = base[Published + 1] - tail
<1>1. /\ Current \in Nat /\ \A k \in 1 .. Current : lengths[k] \in 1 .. Size - 1
      /\ (writer # "idle" => Current > 0) /\ tail \in Nat
  BY LengthFacts DEF Shape, TypeOK
<1>2. Published \in 0 .. Current /\ (writer \notin {"idle", "ring"} => Published + 1 = Current)
  BY <1>1 DEF Published
<1>3. \A k \in 1 .. Current + 1 : base[k] \in Nat
  BY DEF Line
<1>4. \A k \in 1 .. Current : base[k + 1] = base[k] + lengths[k]
  BY DEF Line
<1>5. /\ Published + 1 \in 1 .. Current + 1 /\ first \in 1 .. Current + 1 /\ first <= Published + 1
  BY <1>1, <1>2
<1>6. tail <= base[Published + 1]
  BY <1>5 DEF Line, Stands
<1>7. Used(head, tail) = base[Published + 1] - tail
  BY <1>1, <1>3, <1>5, <1>6, Distance DEF Stands
<1>8. QED
  BY <1>1, <1>2, <1>3, <1>4, <1>6, <1>7

\* The cell of a place between tail and head, and the length at the beginning of a trace.
LEMMA StandsAt ==
    ASSUME Shape, NEW base, NEW first \in 1 .. Published + 1, Line(base), Stands(base, first),
           NEW k \in first .. Published, NEW junk
    PROVE  Peek(base[k], junk) = lengths[k]
<1>1. /\ Published \in 0 .. Current /\ k \in 1 .. Current /\ base[k] \in Nat
      /\ lengths[k] \in 1 .. Size - 1 /\ 0 \in 0 .. lengths[k] - 1
  <2>1. Published \in 0 .. Current /\ Current \in Nat
    BY LineFacts
  <2>2. k \in 1 .. Current /\ k \in 1 .. Current + 1
    BY <2>1
  <2>3. base[k] \in Nat /\ lengths[k] \in 1 .. Size - 1
    BY <2>2, LineFacts
  <2>4. QED
    BY <2>1, <2>2, <2>3, SizeAssumption
<1>2. cells[(base[k] + 0) % Size] = <<k, 0>>
  BY <1>1 DEF Stands
<1>3. cells[Offset(base[k])] = <<k, 0>>
  BY <1>1, <1>2 DEF Offset
<1>4. k \in Traces
  BY <1>1, LengthFacts, BoundAssumption DEF Traces
<1>5. QED
  BY <1>3, <1>4 DEF Peek

\* The writer overwrites whole traces.
LEMMA WholeTraces ==
    ASSUME Shape, NEW base, NEW first \in 1 .. Published + 1, Line(base), Stands(base, first),
           NEW junk \in Junk \ {0}, NEW required \in Nat, required <= base[Published + 1] - tail
    PROVE  \E m \in first .. Published + 1 : OverwriteSize(tail, required, junk) = base[m] - tail
<1> DEFINE P == Published
<1>1. /\ P \in 0 .. Current /\ Current \in Nat /\ tail \in Nat
      /\ \A k \in 1 .. Current + 1 : base[k] \in Nat
      /\ \A k \in 1 .. Current : base[k + 1] = base[k] + lengths[k] /\ lengths[k] \in Nat
  BY LineFacts, LengthFacts, SizeAssumption
<1>2. \A n \in Nat : Peek(tail + n, junk) \in Nat \ {0}
  BY <1>1, AssureFacts
<1>3. PICK f : /\ OverwriteSize(tail, required, junk) = f[0]
               /\ \A n \in Nat : f[n] = IF n >= required THEN n ELSE f[n + Peek(tail + n, junk)]
  <2>1. tail \in Nat
    BY <1>1
  <2>2. PICK f : Search(f, tail, required, junk)
    BY <1>2, <2>1, OverwriteFacts
  <2>3. QED
    BY <2>2 DEF Search
<1>4. \A k \in first .. P + 1 : k \in 1 .. Current + 1 /\ base[k] - tail \in Nat
  <2> SUFFICES ASSUME NEW k \in first .. P + 1
               PROVE  k \in 1 .. Current + 1 /\ base[k] - tail \in Nat
    OBVIOUS
  <2>1. tail = base[first] /\ first \in 1 .. Current + 1 /\ k \in 1 .. Current + 1 /\ first <= k
    BY <1>1 DEF Stands
  <2>2. base[first] <= base[k] /\ base[k] \in Nat
    BY <1>1, <2>1 DEF Line
  <2>3. QED
    BY <1>1, <2>1, <2>2
<1> HIDE DEF P
<1> DEFINE T == {i \in Nat : i <= P + 1 - first =>
                    \E m \in first .. P + 1 : f[base[P + 1 - i] - tail] = base[m] - tail}
<1>5. 0 \in T
  <2>1. P + 1 \in first .. P + 1 /\ P + 1 - 0 = P + 1
    BY <1>1 DEF P
  <2>2. f[base[P + 1] - tail] = base[P + 1] - tail
    BY <1>3, <1>4, <2>1 DEF P
  <2>3. QED
    BY <2>1, <2>2
<1>6. ASSUME NEW i \in Nat, i \in T PROVE i + 1 \in T
  <2> SUFFICES ASSUME i + 1 <= P + 1 - first
               PROVE  \E m \in first .. P + 1 : f[base[P + 1 - (i + 1)] - tail] = base[m] - tail
    OBVIOUS
  <2>1. PICK m \in first .. P + 1 : f[base[P + 1 - i] - tail] = base[m] - tail
    BY <1>1, <1>6
  <2>2. PICK k \in first .. P : k = P + 1 - (i + 1) /\ k + 1 = P + 1 - i
    <3>1. P - i \in first .. P /\ P - i = P + 1 - (i + 1) /\ (P - i) + 1 = P + 1 - i
      BY <1>1
    <3>2. QED
      BY <3>1
  <2>3. k \in first .. P + 1 /\ k \in 1 .. Current /\ base[k] - tail \in Nat
    BY <1>1, <1>4
  <2>4. CASE base[k] - tail >= required
    <3>1. f[base[k] - tail] = base[k] - tail
      BY <1>3, <2>3, <2>4
    <3>2. QED
      BY <2>2, <2>3, <3>1
  <2>5. CASE ~(base[k] - tail >= required)
    <3>1. base[k] \in Nat /\ tail + (base[k] - tail) = base[k]
      BY <1>1, <2>3
    <3>2. Peek(base[k], junk) = lengths[k]
      BY StandsAt DEF P
    <3>3. f[base[k] - tail] = f[(base[k] - tail) + Peek(tail + (base[k] - tail), junk)]
      BY <1>3, <2>3, <2>5
    <3>4. (base[k] - tail) + lengths[k] = base[k + 1] - tail
      BY <1>1, <2>3, <3>1
    <3>5. f[base[k] - tail] = f[base[k + 1] - tail]
      BY <3>1, <3>2, <3>3, <3>4
    <3>6. QED
      BY <2>1, <2>2, <3>5
  <2>6. QED
    BY <2>4, <2>5
<1> HIDE DEF T
<1>7. P + 1 - first \in T
  <2>1. P + 1 - first \in Nat
    BY <1>1 DEF P
  <2>2. QED
    BY <1>5, <1>6, <2>1, SetInduction
<1>8. P + 1 - (P + 1 - first) = first /\ base[first] - tail = 0
  BY <1>1, <1>4 DEF Stands, P
<1>9. QED
  BY <1>1, <1>3, <1>7, <1>8 DEF T, P

-----------------------------------------------------------------------------
(* What a step leaves of the invariant.                                    *)

LEMMA LineKept == ASSUME NEW base, Line(base), UNCHANGED lengths PROVE Line(base)'
BY DEF Line, Current

LEMMA StandsKept ==
    ASSUME NEW base, NEW first, Stands(base, first), UNCHANGED <<cells, head, tail, lengths>>,
           Published' = Published
    PROVE  Stands(base, first)'
BY DEF Stands

\* The reader is not disturbed by a writer that leaves the published traces alone ...
LEMMA ReadsKept ==
    ASSUME NEW first \in 1 .. Published + 1, Reads(first), Published \in Nat, Published' \in Nat,
           UNCHANGED <<reader, readTail, readSize, copied, last, tail>>, Published <= Published',
           \A k \in 1 .. Published : lengths'[k] = lengths[k]
    PROVE  Reads(first)'
<1>1. \A k \in 1 .. Published : CopyOf(k) => CopyOf(k)'
  BY DEF CopyOf
<1>2. ASSUME reader \in {"check", "dispatch"}
      PROVE  \E id \in 1 .. first - 1 : last < id /\ CopyOf(id)'
  <2>1. PICK id \in 1 .. first - 1 : last < id /\ CopyOf(id)
    BY <1>2 DEF Reads
  <2>2. id \in 1 .. Published
    OBVIOUS
  <2>3. QED
    BY <1>1, <2>1, <2>2
<1>3. reader \in {"copy", "take"} /\ readTail = tail => first <= Published /\ CopyOf(first)'
  BY <1>1 DEF Reads
<1> HIDE DEF CopyOf
<1>4. QED
  BY <1>2, <1>3 DEF Reads

\* ... and has lost its place when the writer moves the tail.
LEMMA ReadsLost ==
    ASSUME NEW first \in 1 .. Published + 1, NEW next \in first .. Published + 1, Reads(first),
           Published \in Nat, last \in Nat, readTail \in Nat, tail \in Nat, tail' \in Nat, tail < tail',
           UNCHANGED <<reader, readTail, readSize, copied, last, lengths>>, Published' = Published
    PROVE  Reads(next)'
<1>1. \A k : CopyOf(k)' <=> CopyOf(k)
  BY DEF CopyOf
<1>2. last < next /\ 1 .. first - 1 \subseteq 1 .. next - 1
  BY DEF Reads
<1>3. reader \in {"head", "size", "copy", "take"} => readTail <= tail' /\ readTail # tail'
  BY DEF Reads
<1> HIDE DEF CopyOf
<1>4. QED
  BY <1>1, <1>2, <1>3 DEF Reads

-----------------------------------------------------------------------------
(* The steps of the writer.                                                *)

\* A trace is reserved: the line gets longer.
LEMMA ReserveStep ==
    ASSUME Shape, NEW base, NEW first, Placed(base, first), NEW length \in Lengths, Reserve(length)
    PROVE  \E longer : Placed(longer, first)'
<1> DEFINE clipped == IF length >= Size THEN Size - 1 ELSE length
<1>1. clipped \in Nat
  BY LengthsAssumption, SizeAssumption
<1>2. /\ lengths' = Append(lengths, clipped) /\ writer = "idle" /\ writer' = "assure" /\ oldTail' = tail
      /\ UNCHANGED <<cells, head, tail, reader, readTail, readSize, copied, last>>
  BY DEF Reserve, bufferVars, readerVars
<1>3. /\ first \in 1 .. Published + 1 /\ Line(base) /\ Stands(base, first) /\ Reads(first)
  BY DEF Placed
<1>4. /\ Current \in Nat /\ Published = Current /\ tail \in Nat
      /\ base[Current + 1] \in Nat /\ \A k \in 1 .. Current + 1 : base[k] \in Nat
  BY <1>2, <1>3, LineFacts DEF Published
<1>5. /\ Current' = Current + 1 /\ lengths'[Current + 1] = clipped
      /\ \A k \in 1 .. Current : lengths'[k] = lengths[k]
  <2>1. lengths \in Seq(1 .. Size - 1)
    BY DEF Shape, TypeOK
  <2>2. QED
    BY <1>2, <2>1 DEF Current
<1>6. Published' = Current
  BY <1>2, <1>4, <1>5 DEF Published
<1> HIDE DEF clipped
<1>7. PICK longer \in [1 .. Current + 2 -> Nat] :
         /\ longer[Current + 2] = base[Current + 1] + clipped
         /\ \A k \in 1 .. Current + 1 : longer[k] = base[k]
  <2> DEFINE f == [k \in 1 .. Current + 2 |->
                      IF k <= Current + 1 THEN base[k] ELSE base[Current + 1] + clipped]
  <2>1. /\ f \in [1 .. Current + 2 -> Nat] /\ f[Current + 2] = base[Current + 1] + clipped
        /\ \A k \in 1 .. Current + 1 : f[k] = base[k]
    BY <1>1, <1>4
  <2>2. QED
    BY <2>1
<1>8. Line(longer)'
  <2>1. longer \in [1 .. Current' + 1 -> Nat]
    BY <1>4, <1>5, <1>7
  <2>2. ASSUME NEW k \in 1 .. Current' PROVE longer[k + 1] = longer[k] + lengths'[k]
    <3>1. CASE k \in 1 .. Current
      BY <1>3, <1>4, <1>5, <1>7, <3>1 DEF Line
    <3>2. CASE k = Current + 1
      BY <1>4, <1>5, <1>7, <3>2
    <3>3. QED
      BY <1>4, <1>5, <3>1, <3>2
  <2>3. ASSUME NEW k \in 1 .. Current' + 1, NEW m \in 1 .. Current' + 1, k <= m
        PROVE  longer[k] <= longer[m]
    <3>1. CASE m \in 1 .. Current + 1
      <4>1. k \in 1 .. Current + 1
        BY <1>4, <2>3, <3>1
      <4>2. QED
        BY <1>3, <1>7, <2>3, <3>1, <4>1 DEF Line
    <3>2. CASE m = Current + 2 /\ k \in 1 .. Current + 1
      <4>1. longer[k] <= base[Current + 1]
        BY <1>3, <1>4, <1>7, <3>2 DEF Line
      <4>2. QED
        BY <1>1, <1>4, <1>7, <3>2, <4>1
    <3>3. CASE m = Current + 2 /\ k = Current + 2
      BY <1>1, <1>4, <1>7, <3>3
    <3>4. QED
      BY <1>4, <1>5, <2>3, <3>1, <3>2, <3>3
  <2>4. QED
    BY <2>1, <2>2, <2>3 DEF Line
<1>9. Stands(longer, first)'
  <2>1. first \in 1 .. Current + 1 /\ longer[first] = base[first] /\ longer[Current + 1] = base[Current + 1]
    BY <1>3, <1>4, <1>7
  <2>2. ASSUME NEW k \in first .. Current, NEW j \in 0 .. lengths'[k] - 1
        PROVE  cells'[(longer[k] + j) % Size] = <<k, j>>
    <3>1. k \in 1 .. Current /\ k \in 1 .. Current + 1
      BY <1>4, <2>1
    <3>2. longer[k] = base[k] /\ lengths'[k] = lengths[k] /\ k \in first .. Published
      BY <1>4, <1>5, <1>7, <3>1
    <3>3. QED
      BY <1>2, <1>3, <2>2, <3>2 DEF Stands
  <2>3. QED
    BY <1>2, <1>3, <1>4, <1>6, <2>1, <2>2 DEF Stands
<1>10. Writes(longer)'
  <2>1. tail <= tail /\ longer[Current + 1] < tail + Size
    BY <1>3, <1>4, <1>7 DEF Stands
  <2>2. QED
    BY <1>2, <1>5, <2>1 DEF Writes
<1>11. Reads(first)'
  <2>1. /\ Published \in Nat /\ Published' \in Nat /\ Published <= Published'
    BY <1>4, <1>6
  <2>2. \A k \in 1 .. Published : lengths'[k] = lengths[k]
    BY <1>4, <1>5
  <2>3. UNCHANGED <<reader, readTail, readSize, copied, last, tail>>
    BY <1>2
  <2>4. QED
    BY <1>3, <2>1, <2>2, <2>3, ReadsKept
<1>12. QED
  BY <1>3, <1>4, <1>6, <1>8, <1>9, <1>10, <1>11 DEF Placed

\* The tail is moved over whole traces, or read again.
LEMMA AssureStep ==
    ASSUME Shape, NEW base, NEW first, Placed(base, first), NEW junk \in Junk \ {0}, Assure(junk)
    PROVE  \E next : Placed(base, next)'
<1>1. /\ UNCHANGED <<cells, head, lengths, written, writer, reader, readTail, readSize, copied, last>>
      /\ writer = "assure" /\ Free(head, oldTail) < Reserved
  BY DEF Assure, readerVars
<1>2. /\ first \in 1 .. Published + 1 /\ Line(base) /\ Stands(base, first) /\ Writes(base) /\ Reads(first)
  BY DEF Placed
<1>3. /\ Current \in Nat /\ Published + 1 = Current /\ Published \in Nat /\ tail \in Nat
      /\ \A k \in 1 .. Current + 1 : base[k] \in Nat
      /\ tail <= base[Current] /\ base[Current] < tail + Size
  <2>1. /\ Current \in Nat /\ Published \in 0 .. Current /\ Published + 1 = Current /\ tail \in Nat
        /\ \A k \in 1 .. Current + 1 : base[k] \in Nat
        /\ tail <= base[Published + 1]
    BY <1>1, <1>2, LineFacts
  <2>2. base[Published + 1] < tail + Size
    BY <1>2 DEF Stands
  <2>3. QED
    BY <2>1, <2>2
<1>4. Published' = Published /\ Line(base)' /\ Current' = Current
  BY <1>1, <1>2, LineKept DEF Published, Current
<1>5. CASE tail = oldTail
  <2> DEFINE required == Reserved - Free(head, tail)
  <2>1. Free(head, tail) = Size - (base[Current] - tail)
    BY <1>2, <1>3, Distance DEF Stands
  <2>2. Reserved \in 1 .. Size - 1 /\ Free(head, tail) < Reserved
    BY <1>1, <1>5, LengthFacts
  <2>3. required \in Nat /\ required > 0 /\ required <= base[Current] - tail
    BY <1>3, <2>1, <2>2, SizeAssumption
  <2> HIDE DEF required
  <2>4. PICK m \in first .. Published + 1 : OverwriteSize(tail, required, junk) = base[m] - tail
    BY <1>2, <1>3, <2>3, WholeTraces
  <2>5. base[m] - tail >= required
    <3>1. tail \in Nat /\ required \in Nat
      BY <1>3, <2>3
    <3>2. OverwriteSize(tail, required, junk) >= required
      BY <3>1, AssureFacts
    <3>3. QED
      BY <2>4, <3>2
  <2>6. m \in 1 .. Current /\ base[m] \in Nat /\ base[m] <= base[Current]
    <3>1. m \in 1 .. Current /\ Current \in 1 .. Current + 1 /\ m <= Current
      BY <1>2, <1>3
    <3>2. m \in 1 .. Current + 1
      BY <1>3, <3>1
    <3>3. base[m] <= base[Current]
      BY <1>2, <3>1, <3>2 DEF Line
    <3>4. QED
      BY <1>3, <3>1, <3>2, <3>3
  <2>7. base[m] - tail \in 0 .. Size - 1 /\ tail < base[m]
    BY <1>3, <2>3, <2>5, <2>6, SizeAssumption
  <2>8. tail' = CompleteTail(tail, base[m] - tail) /\ oldTail' = tail
    BY <1>5, <2>4 DEF Assure, required
  <2>9. tail' = base[m]
    BY <1>3, <2>6, <2>7, <2>8, Ahead
  <2>10. Stands(base, m)'
    <3>1. base[Published + 1] < base[m] + Size
      BY <1>3, <2>6, <2>7, SizeAssumption
    <3>2. m .. Published \subseteq first .. Published
      BY <1>2, <1>3
    <3>3. QED
      BY <1>1, <1>2, <1>4, <2>9, <3>1, <3>2 DEF Stands
  <2>11. Writes(base)'
    <3>1. tail <= base[m] /\ base[Current] < tail + Size
      BY <1>3, <2>6, <2>7
    <3>2. QED
      BY <1>1, <1>4, <2>8, <2>9, <3>1 DEF Writes
  <2>12. Reads(m)'
    BY <1>1, <1>2, <1>3, <1>4, <2>6, <2>7, <2>9, ReadsLost DEF Shape, TypeOK
  <2>13. QED
    BY <1>3, <1>4, <2>6, <2>10, <2>11, <2>12 DEF Placed
<1>6. CASE tail # oldTail
  <2>1. oldTail' = tail /\ tail' = tail
    BY <1>6 DEF Assure
  <2>2. Stands(base, first)'
    BY <1>1, <1>2, <1>4, <2>1, StandsKept
  <2>3. Writes(base)'
    <3>1. tail <= tail
      BY <1>3
    <3>2. QED
      BY <1>1, <1>3, <1>4, <2>1, <3>1 DEF Writes
  <2>4. Reads(first)'
    BY <1>1, <1>2, <1>3, <1>4, <2>1, ReadsKept
  <2>5. QED
    BY <1>2, <1>4, <2>2, <2>3, <2>4 DEF Placed
<1>7. QED
  BY <1>5, <1>6

\* The room is there, the buffer is looked at, the bell is rung.
LEMMA SettleStep ==
    ASSUME Shape, NEW base, NEW first, Placed(base, first), Assured \/ WriteLast \/ Ring
    PROVE  Placed(base, first)'
<1>1. /\ UNCHANGED <<cells, head, tail, lengths, written, oldTail>>
      /\ UNCHANGED <<reader, readTail, readSize, copied, last>>
  BY DEF Assured, WriteLast, Ring, bufferVars, readerVars
<1>2. /\ first \in 1 .. Published + 1 /\ Line(base) /\ Stands(base, first) /\ Writes(base) /\ Reads(first)
  BY DEF Placed
<1>3. /\ Current \in Nat /\ Published \in 0 .. Current /\ tail \in Nat /\ oldTail \in Nat
      /\ (writer # "ring" => Published + 1 = Current)
      /\ \A k \in 1 .. Current + 1 : base[k] \in Nat
      /\ tail <= base[Published + 1]
  <2>1. writer \in {"assure", "write", "ring"}
    BY DEF Assured, WriteLast, Ring
  <2>2. tail \in Nat /\ oldTail \in Nat
    BY DEF Shape, TypeOK
  <2>3. QED
    BY <1>2, <2>1, <2>2, LineFacts
<1>4. Current' = Current /\ Published' = Published /\ Line(base)' /\ Stands(base, first)'
  <2>1. Current' = Current /\ Line(base)'
    BY <1>1, <1>2, LineKept DEF Current
  <2>2. Published' = Published
    BY <2>1 DEF Published, Assured, WriteLast, Ring
  <2>3. QED
    BY <1>1, <1>2, <2>1, <2>2, StandsKept
<1>5. Reads(first)'
  <2>1. Published \in Nat /\ Published' \in Nat /\ Published <= Published'
    BY <1>3, <1>4
  <2>2. QED
    BY <1>1, <1>2, <2>1, ReadsKept
<1>6. Writes(base)'
  <2>1. CASE Assured
    <3>1. /\ writer = "assure" /\ writer' = "write" /\ Free(head, oldTail) >= Reserved
          /\ written = 0
      BY <2>1 DEF Assured, Shape
    <3>2. /\ Published + 1 = Current /\ oldTail <= tail /\ base[Current] < oldTail + Size
          /\ base[Current] \in Nat /\ base[Current + 1] \in Nat
      BY <1>2, <1>3, <3>1 DEF Writes
    <3>3. Free(head, oldTail) = Size - (base[Current] - oldTail)
      <4>1. oldTail <= base[Current] /\ head = base[Current] % Size
        BY <1>2, <1>3, <3>2 DEF Stands
      <4>2. QED
        BY <1>3, <3>2, <4>1, Distance
    <3>4. base[Current + 1] = base[Current] + Reserved /\ Reserved \in 1 .. Size - 1
      <4>1. Current \in 1 .. Current
        BY <1>3, <3>2
      <4>2. QED
        BY <1>2, <3>1, <4>1, LengthFacts DEF Line, Reserved
    <3>5. base[Current + 1] <= tail + Size
      BY <1>3, <3>1, <3>2, <3>3, <3>4, SizeAssumption
    <3>6. QED
      BY <1>1, <1>4, <3>1, <3>5 DEF Writes
  <2>2. CASE WriteLast
    <3>1. writer = "write" /\ writer' = "publish"
      BY <2>2 DEF WriteLast
    <3>2. QED
      BY <1>1, <1>2, <1>4, <3>1 DEF Writes
  <2>3. CASE Ring
    BY <2>3 DEF Ring, Writes
  <2>4. QED
    BY <2>1, <2>2, <2>3
<1>7. QED
  BY <1>2, <1>4, <1>5, <1>6 DEF Placed

\* A cell is written: it is nobody else's.
LEMMA CellStep ==
    ASSUME Shape, NEW base, NEW first, Placed(base, first), Write \/ Publish
    PROVE  Placed(base, first)'
<1>1. /\ UNCHANGED <<head, tail, lengths, oldTail>> /\ UNCHANGED <<reader, readTail, readSize, copied, last>>
      /\ writer \in {"write", "publish"} /\ writer' \in {"write", "move"} /\ Copy
  BY DEF Write, Publish, bufferVars, readerVars
<1>2. /\ first \in 1 .. Published + 1 /\ Line(base) /\ Stands(base, first) /\ Writes(base) /\ Reads(first)
  BY DEF Placed
<1>3. /\ Current \in Nat /\ Published \in 0 .. Current /\ Published + 1 = Current /\ tail \in Nat
      /\ \A k \in 1 .. Current + 1 : base[k] \in Nat
      /\ \A k \in 1 .. Current : base[k + 1] = base[k] + lengths[k] /\ lengths[k] \in 1 .. Size - 1
      /\ tail <= base[Current]
  BY <1>1, <1>2, LineFacts
<1>4. Current \in 1 .. Current /\ base[Current] \in Nat /\ base[Current + 1] \in Nat
  BY <1>3
<1>5. /\ written \in Nat /\ written < Reserved /\ Reserved < Size /\ Reserved \in Nat
      /\ base[Current + 1] = base[Current] + Reserved /\ base[Current + 1] <= tail + Size
  <2>1. written \in Nat /\ (writer = "write" => written < Reserved) /\ (writer = "publish" => written + 1 = Reserved)
    BY DEF Shape, TypeOK
  <2>2. lengths[Current] \in 1 .. Size - 1 /\ base[Current + 1] = base[Current] + lengths[Current]
    BY <1>3, <1>4
  <2>3. base[Current + 1] <= tail + Size
    BY <1>1, <1>2 DEF Writes
  <2>4. QED
    BY <1>1, <2>1, <2>2, <2>3, SizeAssumption DEF Reserved
<1> DEFINE y == base[Current] + written
<1>6. /\ y \in Nat /\ cells' = [cells EXCEPT ![y % Size] = <<Current, written>>]
      /\ y % Size \in Offsets /\ written' = written + 1
  <2>1. (head + written) % Size = y % Size
    BY <1>2, <1>3, <1>4, <1>5, Remainder DEF Stands
  <2>2. y \in Nat
    BY <1>4, <1>5
  <2>3. QED
    BY <1>1, <2>1, <2>2, CopyShape
<1>7. cells'[y % Size] = <<Current, written>>
  BY <1>6 DEF Shape
<1>8. \A x \in Nat : tail <= x /\ x < y => cells'[x % Size] = cells[x % Size]
  <2> SUFFICES ASSUME NEW x \in Nat, tail <= x, x < y PROVE cells'[x % Size] = cells[x % Size]
    OBVIOUS
  <2>1. y < x + Size
    BY <1>3, <1>4, <1>5, SizeAssumption
  <2>2. x % Size # y % Size /\ x % Size \in Offsets
    BY <1>6, <2>1, Apart, Divided
  <2>3. QED
    BY <1>6, <2>2 DEF Shape
<1>9. Current' = Current /\ Published' = Published /\ Line(base)'
  BY <1>1, <1>2, LineKept DEF Published, Current
<1>10. Stands(base, first)'
  <2>1. ASSUME NEW k \in first .. Published, NEW j \in 0 .. lengths[k] - 1
        PROVE  cells'[(base[k] + j) % Size] = <<k, j>>
    <3>1. /\ k \in 1 .. Current /\ k + 1 \in 1 .. Current + 1 /\ k \in 1 .. Current + 1
          /\ first \in 1 .. Current + 1 /\ first <= k /\ k + 1 <= Current
      BY <1>2, <1>3
    <3>2. /\ base[k] \in Nat /\ lengths[k] \in 1 .. Size - 1 /\ base[k + 1] = base[k] + lengths[k]
          /\ base[first] <= base[k] /\ base[k + 1] <= base[Current] /\ base[k + 1] \in Nat
      BY <1>2, <1>3, <1>4, <3>1 DEF Line
    <3>3. base[k] + j \in Nat /\ tail <= base[k] + j /\ base[k] + j < base[Current] + written
      <4>1. j \in Nat /\ j < lengths[k] /\ lengths[k] \in Nat
        BY <3>2, SizeAssumption
      <4>2. tail <= base[k] /\ tail \in Nat
        BY <1>2, <1>3, <3>2 DEF Stands
      <4>3. base[k] + lengths[k] <= base[Current] /\ base[k] \in Nat
        BY <3>2
      <4>4. QED
        BY <1>4, <1>5, <4>1, <4>2, <4>3
    <3>4. cells'[(base[k] + j) % Size] = cells[(base[k] + j) % Size]
      BY <1>8, <3>3
    <3>5. QED
      BY <1>2, <3>4 DEF Stands
  <2>2. QED
    BY <1>1, <1>2, <1>9, <2>1 DEF Stands
<1>11. Reads(first)'
  <2>1. Published \in Nat /\ Published' \in Nat /\ Published <= Published'
    BY <1>3, <1>9
  <2>2. QED
    BY <1>1, <1>2, <2>1, ReadsKept
<1>12. Writes(base)'
  <2>1. ASSUME NEW j \in 0 .. written PROVE cells'[(base[Current] + j) % Size] = <<Current, j>>
    <3>1. CASE j = written
      BY <1>7, <3>1
    <3>2. CASE j # written
      <4>1. j \in 0 .. written - 1 /\ base[Current] + j \in Nat /\ tail <= base[Current] + j
            /\ base[Current] + j < base[Current] + written
        BY <1>3, <1>4, <1>5, <3>2
      <4>2. cells'[(base[Current] + j) % Size] = cells[(base[Current] + j) % Size]
        BY <1>8, <4>1
      <4>3. QED
        BY <1>1, <1>2, <4>1, <4>2 DEF Writes
    <3>3. QED
      BY <3>1, <3>2
  <2> HIDE DEF y
  <2>2. 0 .. written' - 1 = 0 .. written
    BY <1>5, <1>6
  <2>3. QED
    BY <1>1, <1>5, <1>9, <2>1, <2>2 DEF Writes
<1>13. QED
  BY <1>2, <1>9, <1>10, <1>11, <1>12 DEF Placed

\* The trace is published.
LEMMA MoveStep ==
    ASSUME Shape, NEW base, NEW first, Placed(base, first), Move, ~filled'
    PROVE  Placed(base, first)'
<1>1. /\ UNCHANGED <<cells, tail, lengths, written, oldTail>> /\ UNCHANGED <<reader, readTail, readSize, copied, last>>
      /\ writer = "move" /\ writer' \in {"ring", "idle"} /\ head' = (head + Reserved) % Size
      /\ head' # Offset(tail)
  BY DEF Move, readerVars
<1>2. /\ first \in 1 .. Published + 1 /\ Line(base) /\ Stands(base, first) /\ Writes(base) /\ Reads(first)
  BY DEF Placed
<1>3. /\ Current \in Nat /\ Published \in 0 .. Current /\ Published + 1 = Current /\ tail \in Nat
      /\ \A k \in 1 .. Current + 1 : base[k] \in Nat
      /\ \A k \in 1 .. Current : base[k + 1] = base[k] + lengths[k]
      /\ tail <= base[Current]
  BY <1>1, <1>2, LineFacts
<1>4. /\ Current \in 1 .. Current /\ base[Current] \in Nat /\ base[Current + 1] \in Nat
      /\ base[Current + 1] = base[Current] + Reserved /\ Reserved \in 1 .. Size - 1
      /\ written = Reserved
  BY <1>1, <1>3, LengthFacts DEF Reserved, Shape
<1>5. Current' = Current /\ Published' = Current /\ Line(base)'
  <2>1. Current' = Current /\ Line(base)'
    BY <1>1, <1>2, LineKept DEF Current
  <2>2. QED
    BY <1>1, <2>1 DEF Published
<1>6. head' = base[Current + 1] % Size
  <2>1. head = base[Current] % Size
    BY <1>2, <1>3 DEF Stands
  <2>2. Reserved \in Nat
    BY <1>4
  <2>3. ((base[Current] % Size) + Reserved) % Size = (base[Current] + Reserved) % Size
    BY <1>4, <2>2, Remainder
  <2>4. QED
    BY <1>1, <1>4, <2>1, <2>3
<1>7. base[Current + 1] < tail + Size
  <2>1. base[Current + 1] <= tail + Size
    BY <1>1, <1>2 DEF Writes
  <2>2. ASSUME base[Current + 1] = tail + Size PROVE FALSE
    <3>1. /\ tail % Size \in Offsets /\ Size \in 0 .. Size
      BY <1>3, Divided, SizeAssumption
    <3>2. (tail + Size) % Size = tail % Size
      <4>1. (tail % Size) + Size >= Size
        BY <3>1, SizeAssumption DEF Offsets
      <4>2. (tail + Size) % Size = (tail % Size) + Size - Size
        BY <1>3, <3>1, <4>1, Wrap
      <4>3. QED
        BY <3>1, <4>2, SizeAssumption DEF Offsets
    <3>3. QED
      BY <1>1, <1>6, <2>2, <3>2 DEF Offset
  <2>3. QED
    BY <1>3, <1>4, <2>1, <2>2, SizeAssumption
<1>8. Stands(base, first)'
  <2>1. ASSUME NEW k \in first .. Current, NEW j \in 0 .. lengths[k] - 1
        PROVE  cells[(base[k] + j) % Size] = <<k, j>>
    <3>1. CASE k = Current
      <4>1. j \in 0 .. written - 1
        BY <1>4, <3>1 DEF Reserved
      <4>2. QED
        BY <1>1, <1>2, <3>1, <4>1 DEF Writes
    <3>2. CASE k # Current
      <4>1. k \in first .. Published
        BY <1>2, <1>3, <3>2
      <4>2. QED
        BY <1>2, <4>1 DEF Stands
    <3>3. QED
      BY <3>1, <3>2
  <2>2. QED
    BY <1>1, <1>2, <1>5, <1>6, <1>7, <2>1 DEF Stands
<1>9. Reads(first)'
  <2>1. /\ Published \in Nat /\ Published' \in Nat /\ Published <= Published'
        /\ \A k \in 1 .. Published : lengths'[k] = lengths[k]
    BY <1>1, <1>3, <1>5
  <2>2. QED
    BY <1>1, <1>2, <2>1, ReadsKept
<1>10. Writes(base)'
  BY <1>1 DEF Writes
<1>11. first \in 1 .. Published' + 1
  BY <1>2, <1>3, <1>5
<1>12. QED
  BY <1>5, <1>8, <1>9, <1>10, <1>11 DEF Placed

-----------------------------------------------------------------------------
(* The steps of the reader.                                                *)

\* As long as the tail is not moved only the reader is concerned.
LEMMA ReaderOnly ==
    ASSUME NEW base, NEW first, Placed(base, first), UNCHANGED <<cells, head, tail, writerVars>>,
           Reads(first)'
    PROVE  Placed(base, first)'
<1>1. /\ first \in 1 .. Published + 1 /\ Line(base) /\ Stands(base, first) /\ Writes(base)
      /\ UNCHANGED <<cells, head, tail, lengths, written, writer, oldTail>>
  BY DEF Placed, writerVars
<1>2. Published' = Published /\ Current' = Current
  BY <1>1 DEF Published, Current
<1>3. Line(base)' /\ Stands(base, first)'
  BY <1>1, <1>2, LineKept, StandsKept
<1>4. Writes(base)'
  BY <1>1, <1>2 DEF Writes
<1>5. QED
  BY <1>1, <1>2, <1>3, <1>4 DEF Placed

\* The reader goes to where it reads the tail, or looks at it again.
LEMMA LookStep ==
    ASSUME Shape, NEW base, NEW first, Placed(base, first),
           \/ Acknowledge \/ Load \/ LoadHead \/ NoData
           \/ \E junk \in Junk : NoSize(junk)
           \/ Take /\ tail # readTail
    PROVE  Placed(base, first)'
<1>1. UNCHANGED <<cells, head, tail, writerVars>> /\ UNCHANGED last
  BY DEF Acknowledge, Load, LoadHead, NoData, NoSize, Take, Return, Look
<1>2. first \in 1 .. Published + 1 /\ Line(base) /\ Stands(base, first) /\ Reads(first)
  BY DEF Placed
<1>3. Published' = Published /\ Published \in Nat /\ tail \in Nat
  BY <1>1, <1>2, LineFacts DEF Published, Current, writerVars
<1>4. CASE LoadHead
  <2>1. /\ reader = "head" /\ reader' = "size" /\ Used(head, readTail) # 0 /\ readTail' = readTail
    BY <1>4 DEF LoadHead, Look
  <2>2. readTail = tail => first <= Published
    <3>1. readTail = tail => base[Published + 1] # base[first]
      <4>1. Used(head, tail) = base[Published + 1] - tail /\ tail = base[first]
        BY <1>2, LineFacts DEF Stands
      <4>2. QED
        BY <1>3, <2>1, <4>1
    <3>2. QED
      BY <1>2, <1>3, <3>1
  <2>3. Reads(first)'
    BY <1>1, <1>2, <1>3, <2>1, <2>2 DEF Reads
  <2>4. QED
    BY <1>1, <2>3, ReaderOnly
<1>5. CASE Load
  <2>1. reader' = "head" /\ readTail' = tail /\ tail <= tail
    BY <1>3, <1>5 DEF Load, Look
  <2>2. Reads(first)'
    BY <1>1, <1>2, <2>1 DEF Reads
  <2>3. QED
    BY <1>1, <2>2, ReaderOnly
<1>6. CASE ~LoadHead /\ ~Load
  <2>1. reader' \in {"wait", "load"}
    BY <1>6 DEF Acknowledge, NoData, NoSize, Take, Return, Look
  <2>2. Reads(first)'
    BY <1>1, <1>2, <2>1 DEF Reads
  <2>3. QED
    BY <1>1, <2>2, ReaderOnly
<1>7. QED
  BY <1>4, <1>5, <1>6

\* The length of the first trace is read, and its cells.
LEMMA ReadStep ==
    ASSUME Shape, NEW base, NEW first, Placed(base, first),
           CopyOut \/ \E junk \in Junk : GetReadSize(junk)
    PROVE  Placed(base, first)'
<1>1. UNCHANGED <<cells, head, tail, writerVars>> /\ UNCHANGED <<last, readTail, tail>>
  BY DEF CopyOut, GetReadSize, Look
<1>2. first \in 1 .. Published + 1 /\ Line(base) /\ Stands(base, first) /\ Reads(first)
  BY DEF Placed
<1>3. Published' = Published /\ lengths' = lengths
  BY <1>1 DEF Published, Current, writerVars
<1>4. ASSUME readTail = tail, reader \in {"size", "copy"} PROVE first \in first .. Published /\ tail = base[first]
  BY <1>2, <1>4, LineFacts DEF Reads, Stands
<1>5. /\ reader \in {"size", "copy"} /\ reader' \in {"copy", "take"}
      /\ readTail = tail => CopyOf(first)'
  <2>1. ASSUME NEW junk \in Junk, GetReadSize(junk)
        PROVE  reader = "size" /\ reader' = "copy" /\ (readTail = tail => CopyOf(first)')
    <3>1. reader = "size" /\ reader' = "copy" /\ readSize' = Peek(readTail, junk) /\ copied' = <<>>
      BY <2>1 DEF GetReadSize, Look
    <3>2. ASSUME readTail = tail PROVE readSize' = lengths[first]
      BY <1>2, <1>4, <3>1, <3>2, StandsAt
    <3>3. Len(copied') = 0
      BY <3>1
    <3>4. QED
      BY <1>3, <3>1, <3>2, <3>3 DEF CopyOf
  <2>2. CASE CopyOut
    <3>1. /\ reader = "copy" /\ reader' \in {"copy", "take"} /\ readSize' = readSize
          /\ copied' = Append(copied, cells[Offset(readTail + Len(copied))])
          /\ Len(copied) < readSize /\ copied \in Seq(Cells \cup {Blank}) /\ Len(copied) \in Nat
      BY <2>2 DEF CopyOut, Look, Shape, TypeOK
    <3>2. ASSUME readTail = tail PROVE CopyOf(first)'
      <4>1. CopyOf(first) /\ first \in first .. Published /\ tail = base[first]
        BY <1>2, <1>4, <3>1, <3>2 DEF Reads
      <4>2. Len(copied) \in 0 .. lengths[first] - 1
        BY <3>1, <4>1 DEF CopyOf, Shape, TypeOK
      <4>3. cells[Offset(readTail + Len(copied))] = <<first, Len(copied)>>
        BY <1>2, <3>2, <4>1, <4>2 DEF Stands, Offset
      <4>4. /\ Len(copied') = Len(copied) + 1
            /\ \A i \in 1 .. Len(copied) : copied'[i] = copied[i]
            /\ copied'[Len(copied) + 1] = <<first, Len(copied)>>
        BY <3>1, <4>3
      <4>5. \A i \in 1 .. Len(copied') : copied'[i] = <<first, i - 1>>
        <5> SUFFICES ASSUME NEW i \in 1 .. Len(copied') PROVE copied'[i] = <<first, i - 1>>
          OBVIOUS
        <5>1. CASE i \in 1 .. Len(copied)
          BY <4>1, <4>4, <5>1 DEF CopyOf
        <5>2. CASE i = Len(copied) + 1
          <6>1. i - 1 = Len(copied)
            BY <3>1, <5>2
          <6>2. QED
            BY <4>4, <5>2, <6>1
        <5>3. QED
          BY <3>1, <4>4, <5>1, <5>2
      <4>6. QED
        BY <1>3, <3>1, <4>1, <4>5 DEF CopyOf
    <3>3. QED
      BY <3>1, <3>2
  <2>3. QED
    BY <2>1, <2>2
<1>6. Reads(first)'
  <2>1. readTail <= tail /\ (readTail = tail => first <= Published)
    BY <1>2, <1>5 DEF Reads
  <2> HIDE DEF CopyOf
  <2>2. QED
    BY <1>1, <1>2, <1>3, <1>5, <2>1 DEF Reads
<1>7. QED
  BY <1>1, <1>6, ReaderOnly

\* The first trace is taken, whole.
LEMMA TakeStep ==
    ASSUME Shape, NEW base, NEW first, Placed(base, first), Take, tail = readTail
    PROVE  Placed(base, first + 1)'
<1>1. /\ UNCHANGED <<cells, head, lengths, written, writer, oldTail>>
      /\ UNCHANGED <<readTail, readSize, copied, last>>
      /\ reader = "take" /\ reader' = "check" /\ tail' = tail + readSize
  BY DEF Take, Look, writerVars
<1>2. first \in 1 .. Published + 1 /\ Line(base) /\ Stands(base, first) /\ Writes(base) /\ Reads(first)
  BY DEF Placed
<1>3. /\ Current \in Nat /\ Published \in 0 .. Current /\ tail \in Nat
      /\ \A k \in 1 .. Current + 1 : base[k] \in Nat
      /\ \A k \in 1 .. Current : base[k + 1] = base[k] + lengths[k] /\ lengths[k] \in 1 .. Size - 1
  BY <1>2, LineFacts
<1>4. first <= Published /\ CopyOf(first)
  BY <1>1, <1>2 DEF Reads
<1>5. first \in 1 .. Current /\ first + 1 \in 1 .. Published + 1
  BY <1>2, <1>3, <1>4
<1>6. tail' = base[first + 1] /\ tail < tail' /\ tail' \in Nat
  <2>1. readSize = lengths[first] /\ tail = base[first]
    BY <1>2, <1>4 DEF CopyOf, Stands
  <2>2. lengths[first] \in 1 .. Size - 1 /\ base[first + 1] = base[first] + lengths[first]
    BY <1>3, <1>5
  <2>3. QED
    BY <1>1, <1>3, <2>1, <2>2, SizeAssumption
<1>7. Published' = Published /\ Current' = Current /\ Line(base)'
  BY <1>1, <1>2, LineKept DEF Published, Current
<1>8. Stands(base, first + 1)'
  <2>1. base[Published + 1] < tail' + Size
    <3>1. base[Published + 1] \in Nat /\ base[Published + 1] < tail + Size
      BY <1>2, <1>3 DEF Stands
    <3>2. QED
      BY <1>3, <1>6, <3>1, SizeAssumption
  <2>2. (first + 1) .. Published \subseteq first .. Published
    BY <1>2, <1>3
  <2>3. QED
    BY <1>1, <1>2, <1>6, <1>7, <2>1, <2>2 DEF Stands
<1>9. Writes(base)'
  <2>1. writer = "assure" => oldTail <= tail'
    BY <1>2, <1>3, <1>6 DEF Writes, Shape, TypeOK
  <2>2. writer \in {"write", "publish", "move"} => base[Current + 1] <= tail' + Size
    <3>1. base[Current + 1] \in Nat
      BY <1>3
    <3>2. QED
      BY <1>2, <1>3, <1>6, <3>1, SizeAssumption DEF Writes
  <2>3. QED
    BY <1>1, <1>2, <1>7, <2>1, <2>2 DEF Writes
<1>10. Reads(first + 1)'
  <2>1. CopyOf(first)'
    BY <1>1, <1>4 DEF CopyOf
  <2>2. last < first /\ last \in Nat
    BY <1>2 DEF Reads, Shape, TypeOK
  <2>3. first \in 1 .. (first + 1) - 1 /\ last < first + 1
    BY <1>5, <2>2
  <2> HIDE DEF CopyOf
  <2>4. QED
    BY <1>1, <2>1, <2>2, <2>3 DEF Reads
<1>11. QED
  BY <1>5, <1>7, <1>8, <1>9, <1>10 DEF Placed

\* A trace that has been taken, whole.
LEMMA Taken ==
    ASSUME Shape, NEW base, NEW first, Placed(base, first), reader \in {"check", "dispatch"}
    PROVE  \E id \in 1 .. first - 1 :
              /\ last < id /\ CopyOf(id) /\ id \in Traces /\ id \in 1 .. Current
              /\ copied[1] = <<id, 0>> /\ Len(copied) = lengths[id]
<1>1. first \in 1 .. Published + 1 /\ Line(base) /\ Stands(base, first) /\ Reads(first)
  BY DEF Placed
<1>2. PICK id \in 1 .. first - 1 : last < id /\ CopyOf(id)
  BY <1>1 DEF Reads
<1>3. /\ Current \in Nat /\ Published \in 0 .. Current /\ Current <= MaxTraces
  BY <1>1, LineFacts, LengthFacts
<1>4. id \in 1 .. Current /\ id \in Traces
  BY <1>1, <1>3, BoundAssumption DEF Traces
<1>5. readSize > 0 /\ Len(copied) = readSize /\ readSize \in Nat
  BY DEF Shape, TypeOK
<1>6. copied[1] = <<id, 0>> /\ Len(copied) = lengths[id]
  BY <1>2, <1>5 DEF CopyOf
<1>7. QED
  BY <1>2, <1>4, <1>6

\* It is found whole, and put out.
LEMMA PutOutStep ==
    ASSUME Shape, NEW base, NEW first, Placed(base, first), Dispatch \/ \E junk \in Junk : Check(junk)
    PROVE  Placed(base, first)'
<1>1. UNCHANGED <<cells, head, tail, writerVars>> /\ UNCHANGED readTail
      /\ reader \in {"check", "dispatch"}
  BY DEF Dispatch, Check, Look
<1>2. PICK id \in 1 .. first - 1 :
         /\ last < id /\ CopyOf(id) /\ id \in Traces
         /\ copied[1] = <<id, 0>> /\ Len(copied) = lengths[id]
  BY <1>1, Taken
<1>3. Reads(first) /\ first \in Nat
  BY DEF Placed
<1>4. Reads(first)'
  <2>1. ASSUME NEW junk \in Junk, Check(junk) PROVE Reads(first)'
    <3>1. LengthCopied(junk) = readSize
      BY <1>2 DEF LengthCopied, CopyOf
    <3>2. reader' = "dispatch" /\ UNCHANGED <<readSize, copied, last>>
      BY <2>1, <3>1 DEF Check, Look
    <3>3. CopyOf(id)'
      BY <1>1, <1>2, <3>2 DEF CopyOf, writerVars
    <3> HIDE DEF CopyOf
    <3>4. QED
      BY <1>2, <1>3, <3>2, <3>3 DEF Reads
  <2>2. CASE Dispatch
    <3>1. reader' = "load" /\ last' = id
      BY <1>2, <2>2 DEF Dispatch, Look
    <3>2. id < first
      BY <1>3
    <3>3. QED
      BY <3>1, <3>2 DEF Reads
  <2>3. QED
    BY <2>1, <2>2
<1>5. QED
  BY <1>1, <1>4, ReaderOnly

-----------------------------------------------------------------------------
(* The invariant is inductive.                                             *)

LEMMA GoodStep == IInv /\ [Next]_vars => Good'
<1> SUFFICES ASSUME IInv, [Next]_vars, ~filled' PROVE \E base, first : Placed(base, first)'
  BY DEF Good
<1>1. ~filled
  BY DEF Next, Reserve, Writing, Assure, Assured, Write, WriteLast, Publish, Move, Ring,
         Reading, Acknowledge, Load, LoadHead, NoData, GetReadSize, NoSize, CopyOut, Take, Check,
         Flush, Dispatch, Return, vars
<1>2. Shape
  BY DEF IInv
<1>3. PICK base, first : Placed(base, first)
  BY <1>1 DEF IInv, Good
<1>4. CASE (\E length \in Lengths : Reserve(length)) \/ \E junk \in Junk \ {0} : Assure(junk)
  BY <1>2, <1>3, <1>4, ReserveStep, AssureStep
<1>5. CASE Assured \/ WriteLast \/ Ring \/ Write \/ Publish \/ Move
  BY <1>2, <1>3, <1>5, SettleStep, CellStep, MoveStep
<1>6. CASE Reading
  <2>1. ~Flush
    BY <1>3 DEF Placed, Reads, Flush, Look
  <2>2. CASE \/ Acknowledge \/ Load \/ LoadHead \/ NoData
             \/ \E junk \in Junk : NoSize(junk)
             \/ Take /\ tail # readTail
    BY <1>2, <1>3, <2>2, LookStep
  <2>3. CASE CopyOut \/ \E junk \in Junk : GetReadSize(junk)
    BY <1>2, <1>3, <2>3, ReadStep
  <2>4. CASE Take /\ tail = readTail
    BY <1>2, <1>3, <2>4, TakeStep
  <2>5. CASE Dispatch \/ \E junk \in Junk : Check(junk)
    BY <1>2, <1>3, <2>5, PutOutStep
  <2>6. QED
    BY <1>6, <2>1, <2>2, <2>3, <2>4, <2>5 DEF Reading
<1>7. CASE UNCHANGED vars
  <2>1. UNCHANGED <<cells, head, tail, writerVars>> /\ UNCHANGED <<reader, readTail, readSize, copied, last, tail, lengths>>
        /\ Published' = Published
    BY <1>7 DEF vars, bufferVars, writerVars, readerVars, Published, Current
  <2>2. Reads(first)'
    BY <1>3, <2>1 DEF Placed, Reads, CopyOf
  <2>3. QED
    BY <1>3, <2>1, <2>2, ReaderOnly
<1>8. QED
  BY <1>4, <1>5, <1>6, <1>7 DEF Next, Writing

LEMMA InitGood == Init => Good
<1> SUFFICES ASSUME Init PROVE \E base, first : Placed(base, first)
  BY DEF Good
<1> DEFINE base == [k \in 1 .. 1 |-> 0]
<1>1. Current = 0 /\ Published = 0 /\ 0 + 1 = 1
  BY DEF Init, Current, Published
<1>2. 1 .. 1 = {1} /\ base[1] = 0 /\ base \in [1 .. 1 -> Nat]
  OBVIOUS
<1>3. Line(base)
  BY <1>1, <1>2 DEF Line
<1>4. 0 % Size = 0
  BY Quotient, SizeAssumption DEF Offsets
<1>5. Stands(base, 1)
  <2>1. tail = base[1] /\ head = base[1] % Size /\ base[1] < tail + Size
    BY <1>2, <1>4, SizeAssumption DEF Init
  <2>2. 1 .. 0 = {}
    OBVIOUS
  <2>3. QED
    BY <1>1, <2>1, <2>2 DEF Stands
<1>6. Writes(base) /\ Reads(1)
  BY DEF Writes, Reads, Init
<1>7. 1 \in 1 .. Published + 1
  BY <1>1
<1>8. QED
  BY <1>3, <1>5, <1>6, <1>7 DEF Placed

LEMMA Inductive == Spec => []IInv
<1>1. Init => IInv
  BY InitShape, InitGood DEF IInv
<1>2. IInv /\ [Next]_vars => IInv'
  BY ShapeStep, GoodStep DEF IInv
<1>3. QED
  BY <1>1, <1>2, PTL DEF Spec

-----------------------------------------------------------------------------
(* What the invariant says of the two sides.                               *)

\* A place between tail and head is in one of the traces that stand there.
LEMMA PlaceOf ==
    ASSUME Shape, NEW base, NEW first \in 1 .. Published + 1, Line(base), Stands(base, first),
           NEW x \in Nat, tail <= x, x < base[Published + 1]
    PROVE  \E k \in first .. Published : \E j \in 0 .. lengths[k] - 1 : x = base[k] + j
<1> DEFINE P == Published
           T == {k \in Nat : first <= k /\ k <= P /\ x < base[k + 1]}
<1>1. /\ P \in 0 .. Current /\ Current \in Nat
      /\ \A k \in 1 .. Current + 1 : base[k] \in Nat
      /\ \A k \in 1 .. Current : base[k + 1] = base[k] + lengths[k] /\ lengths[k] \in 1 .. Size - 1
  BY LineFacts
<1>2. tail = base[first] /\ first \in 1 .. P + 1 /\ x < base[P + 1]
  BY DEF Stands
<1> HIDE DEF P
<1>3. first # P + 1
  BY <1>1, <1>2
<1>4. P \in T
  BY <1>1, <1>2, <1>3
<1>5. PICK m \in T : \A k \in T : m <= k
  <2>1. T \in SUBSET Nat /\ T # {}
    BY <1>4
  <2> HIDE DEF T
  <2>2. QED
    BY <2>1, Smallest
<1>6. m \in first .. P /\ m \in 1 .. Current /\ x < base[m + 1]
  BY <1>1, <1>2, <1>5
<1>7. base[m] <= x
  <2>1. CASE m = first
    BY <1>2, <2>1
  <2>2. CASE m # first
    <3>1. m - 1 \in Nat /\ first <= m - 1 /\ m - 1 <= P /\ ~(m <= m - 1) /\ (m - 1) + 1 = m
      BY <1>1, <1>2, <1>6, <2>2
    <3>2. ~(x < base[m])
      BY <1>5, <3>1
    <3>3. base[m] \in Nat
      BY <1>1, <1>6
    <3>4. QED
      BY <3>2, <3>3
  <2>3. QED
    BY <2>1, <2>2
<1>8. x - base[m] \in 0 .. lengths[m] - 1 /\ x = base[m] + (x - base[m])
  <2>1. base[m] \in Nat /\ base[m + 1] = base[m] + lengths[m] /\ lengths[m] \in Nat
    BY <1>1, <1>6, SizeAssumption
  <2>2. QED
    BY <2>1, <1>6, <1>7
<1>9. QED
  BY <1>6, <1>8 DEF P

\* A cell between tail and head, and the one behind it.
LEMMA CellAt ==
    ASSUME Shape, NEW base, NEW first \in 1 .. Published + 1, Line(base), Stands(base, first),
           NEW n \in 0 .. Used(head, tail) - 1
    PROVE  \E k \in first .. Published : \E j \in 0 .. lengths[k] - 1 :
              /\ tail + n = base[k] + j
              /\ cells[Offset(tail + n)] = <<k, j>>
<1>1. /\ tail \in Nat /\ Used(head, tail) = base[Published + 1] - tail
      /\ base[Published + 1] \in Nat
  <2>1. Published + 1 \in 1 .. Current + 1
    BY LineFacts
  <2>2. QED
    BY <2>1, LineFacts
<1>2. tail + n \in Nat /\ tail <= tail + n /\ tail + n < base[Published + 1]
  BY <1>1
<1>3. PICK k \in first .. Published : \E j \in 0 .. lengths[k] - 1 : tail + n = base[k] + j
  BY <1>2, PlaceOf
<1>4. PICK j \in 0 .. lengths[k] - 1 : tail + n = base[k] + j
  BY <1>3
<1>5. cells[(base[k] + j) % Size] = <<k, j>>
  BY DEF Stands
<1>6. QED
  BY <1>4, <1>5 DEF Offset

LEMMA StandsIntact ==
    ASSUME Shape, NEW base, NEW first \in 1 .. Published + 1, Line(base), Stands(base, first),
           Content # <<>>
    PROVE  /\ Content[1][2] = 0
           /\ \A i \in 2 .. Len(Content) : Content[i] = After(Content[i - 1])
           /\ After(Content[Len(Content)]) = <<Published + 1, 0>>
<1> DEFINE P == Published
           N == Used(head, tail)
<1>1. /\ P \in 0 .. Current /\ Current \in Nat /\ tail \in Nat
      /\ \A k \in 1 .. Current + 1 : base[k] \in Nat
      /\ \A k \in 1 .. Current : base[k + 1] = base[k] + lengths[k] /\ lengths[k] \in Nat \ {0}
      /\ N = base[P + 1] - tail
  BY LineFacts, SizeAssumption
<1>2. N \in Nat
  <2>1. head \in Offsets /\ tail \in Nat /\ 0 \in Nat
    BY DEF Shape, TypeOK
  <2>2. Used(head, tail) \in 0 .. Size - 1
    BY <2>1, NumberFacts
  <2>3. QED
    BY <2>2, SizeAssumption
<1>3. tail = base[first] /\ first \in 1 .. P + 1
  BY DEF Stands
<1>4. \A n \in 0 .. N - 1 : \E k \in first .. P : \E j \in 0 .. lengths[k] - 1 :
         tail + n = base[k] + j /\ cells[Offset(tail + n)] = <<k, j>>
  BY CellAt
<1>5. \A k \in first .. P : \A j \in 0 .. lengths[k] - 1 : cells[Offset(base[k] + j)] = <<k, j>>
  BY DEF Stands, Offset
<1>6. Content = [i \in 1 .. N |-> cells[Offset(tail + i - 1)]]
  BY DEF Content
<1>7. \A k \in 1 .. Current + 1 : k <= P + 1 => base[k] <= base[P + 1]
  BY <1>1 DEF Line
<1> HIDE DEF P, N
<1>8. Len(Content) = N /\ N > 0
  <2>1. Len(Content) = N
    BY <1>2, <1>6
  <2>2. N = 0 => Content = <<>>
    BY <1>6
  <2>3. QED
    BY <1>2, <2>1, <2>2
<1>9. \A n \in 0 .. N - 1 : Content[n + 1] = cells[Offset(tail + n)]
  <2> SUFFICES ASSUME NEW n \in 0 .. N - 1 PROVE Content[n + 1] = cells[Offset(tail + n)]
    OBVIOUS
  <2>1. n + 1 \in 1 .. N /\ tail + (n + 1) - 1 = tail + n
    BY <1>1, <1>2
  <2>2. QED
    BY <1>6, <2>1
<1>10. Content[1][2] = 0
  <2>1. first # P + 1
    <3>1. N = base[P + 1] - base[first] /\ N > 0 /\ base[first] \in Nat
      BY <1>1, <1>3, <1>8
    <3>2. QED
      BY <3>1
  <2>2. first \in first .. P /\ first \in 1 .. Current /\ base[first] + 0 = tail
    BY <1>1, <1>3, <2>1
  <2>3. 0 \in 0 .. lengths[first] - 1
    BY <1>1, <2>2
  <2>4. cells[Offset(tail + 0)] = <<first, 0>>
    <3>1. base[first] + 0 = tail + 0
      BY <1>1, <1>3
    <3>2. QED
      BY <1>5, <2>2, <2>3, <3>1
  <2>5. 0 \in 0 .. N - 1 /\ 0 + 1 = 1
    BY <1>2, <1>8
  <2>6. Content[1] = <<first, 0>>
    BY <1>9, <2>4, <2>5
  <2>7. QED
    BY <2>6
<1>11. ASSUME NEW i \in 2 .. N PROVE Content[i] = After(Content[i - 1])
  <2>1. i - 2 \in 0 .. N - 1 /\ i - 1 \in 0 .. N - 1 /\ (i - 2) + 1 = i - 1 /\ (i - 1) + 1 = i
    BY <1>2
  <2>2. PICK k \in first .. P : \E j \in 0 .. lengths[k] - 1 :
           tail + (i - 2) = base[k] + j /\ cells[Offset(tail + (i - 2))] = <<k, j>>
    BY <1>4, <2>1
  <2>3. PICK j \in 0 .. lengths[k] - 1 :
           tail + (i - 2) = base[k] + j /\ Content[i - 1] = <<k, j>>
    BY <1>9, <2>2, <2>1
  <2>4. /\ k \in 1 .. Current /\ base[k] \in Nat /\ lengths[k] \in Nat /\ base[k + 1] = base[k] + lengths[k]
        /\ k + 1 \in 1 .. Current + 1 /\ base[k + 1] \in Nat
    BY <1>1, <1>3
  <2>5. tail + (i - 1) = base[k] + (j + 1) /\ tail + (i - 1) < base[P + 1]
    <3>1. base[P + 1] \in Nat /\ N = base[P + 1] - tail /\ tail \in Nat
      BY <1>1
    <3>2. /\ base[k] \in Nat /\ j \in Nat /\ i \in Nat /\ i <= N
          /\ tail + (i - 2) = base[k] + j
      BY <1>2, <2>3, <2>4
    <3>3. base[P + 1] = tail + N
      BY <3>1
    <3>4. tail + (i - 1) = base[k] + (j + 1)
      BY <3>1, <3>2
    <3>5. tail + (i - 1) < tail + N
      BY <1>2, <3>1, <3>2
    <3>6. QED
      BY <3>3, <3>4, <3>5
  <2>6. Content[i] = cells[Offset(base[k] + (j + 1))]
    BY <1>9, <2>1, <2>5
  <2>7. CASE j + 1 = lengths[k]
    <3>1. base[k] + (j + 1) = base[k + 1] + 0 /\ k + 1 # P + 1
      BY <2>4, <2>5, <2>7
    <3>2. k + 1 \in first .. P /\ k + 1 \in 1 .. Current
      BY <1>1, <1>3, <3>1
    <3>3. 0 \in 0 .. lengths[k + 1] - 1
      <4>1. lengths[k + 1] \in Nat \ {0}
        BY <1>1, <3>2
      <4>2. QED
        BY <4>1
    <3>4. Content[i] = <<k + 1, 0>>
      BY <1>5, <2>6, <3>1, <3>2, <3>3
    <3>5. QED
      BY <2>3, <2>7, <3>4 DEF After
  <2>8. CASE j + 1 # lengths[k]
    <3>1. j + 1 \in 0 .. lengths[k] - 1
      BY <2>4, <2>8
    <3>2. Content[i] = <<k, j + 1>>
      BY <1>5, <2>6, <3>1
    <3>3. QED
      BY <2>3, <2>8, <3>2 DEF After
  <2>9. QED
    BY <2>7, <2>8
<1>12. After(Content[N]) = <<P + 1, 0>>
  <2>1. N - 1 \in 0 .. N - 1 /\ (N - 1) + 1 = N
    BY <1>2, <1>8
  <2>2. PICK k \in first .. P : \E j \in 0 .. lengths[k] - 1 :
           tail + (N - 1) = base[k] + j /\ cells[Offset(tail + (N - 1))] = <<k, j>>
    BY <1>4, <2>1
  <2>3. PICK j \in 0 .. lengths[k] - 1 :
           tail + (N - 1) = base[k] + j /\ Content[N] = <<k, j>>
    BY <1>9, <2>2, <2>1
  <2>4. /\ k \in 1 .. Current /\ base[k] \in Nat /\ lengths[k] \in Nat /\ base[k + 1] = base[k] + lengths[k]
        /\ k + 1 \in 1 .. Current + 1 /\ base[k + 1] \in Nat /\ base[P + 1] \in Nat
    BY <1>1, <1>3
  <2>5. base[P + 1] = base[k] + (j + 1)
    <3>1. base[P + 1] \in Nat /\ N = base[P + 1] - tail /\ tail \in Nat
      BY <1>1, <2>4
    <3>2. base[k] \in Nat /\ j \in Nat /\ tail + (N - 1) = base[k] + j
      BY <2>3, <2>4
    <3>3. base[P + 1] = tail + N
      BY <3>1
    <3>4. tail + N = base[k] + (j + 1)
      <4>1. PICK i \in Nat : i = N
        BY <1>2
      <4>2. tail \in Nat /\ tail + (i - 1) = base[k] + j
        BY <3>1, <3>2, <4>1
      <4>3. tail + i = base[k] + (j + 1)
        BY <3>2, <4>2
      <4>4. QED
        BY <4>1, <4>3
    <3>5. QED
      BY <3>3, <3>4
  <2>6. base[k + 1] <= base[P + 1]
    BY <1>1, <1>7, <2>4
  <2>7. j + 1 = lengths[k] /\ base[P + 1] = base[k + 1]
    BY <2>4, <2>5, <2>6
  <2>8. k = P
    <3> SUFFICES ASSUME k # P PROVE FALSE
      OBVIOUS
    <3>1. k + 1 \in 1 .. Current /\ (k + 1) + 1 \in 1 .. Current + 1 /\ (k + 1) + 1 <= P + 1
      BY <1>1, <2>4
    <3>2. /\ base[(k + 1) + 1] = base[k + 1] + lengths[k + 1] /\ lengths[k + 1] \in Nat \ {0}
          /\ base[(k + 1) + 1] <= base[P + 1]
      BY <1>1, <1>7, <3>1
    <3>3. QED
      BY <2>4, <2>7, <3>2
  <2>9. QED
    BY <2>3, <2>7, <2>8 DEF After
<1>13. QED
  BY <1>8, <1>10, <1>11, <1>12 DEF P

-----------------------------------------------------------------------------
(* The theorems.                                                           *)

\* Every variable keeps its type, for a buffer of any size and with whatever is read for a
\* length (core/CyclicBuffer.cpp).
THEOREM TypeCorrect == Spec => []TypeOK
<1>1. IInv => TypeOK
  BY DEF IInv, Shape
<1>2. QED
  BY <1>1, Inductive, PTL

\* Until a trace fills the buffer to the last cell the reader puts out whole traces only, each
\* one later than the one before, although it copies while the writer may be overwriting
\* (CyclicBuffer.cpp:201-219).
THEOREM WholeTracesRead == Spec => []ReadsWhole
<1>1. IInv => ReadsWhole
  <2> SUFFICES ASSUME IInv, reader = "dispatch", ~filled
               PROVE  /\ copied[1][1] \in Traces /\ copied = Trace(copied[1][1])
                      /\ copied[1][1] > last
    BY DEF ReadsWhole
  <2>1. Shape
    BY DEF IInv
  <2>2. PICK base, first : Placed(base, first)
    BY DEF IInv, Good
  <2>3. PICK id \in 1 .. first - 1 :
           /\ last < id /\ CopyOf(id) /\ id \in Traces /\ id \in 1 .. Current
           /\ copied[1] = <<id, 0>> /\ Len(copied) = lengths[id]
    BY <2>1, <2>2, Taken
  <2>4. copied[1][1] = id /\ id \in Nat /\ last \in Nat
    BY <2>1, <2>3 DEF Shape, TypeOK
  <2>5. copied = Trace(id)
    <3> DEFINE S == Cells \cup {Blank}
    <3>1. copied \in Seq(S)
      BY <2>1 DEF Shape, TypeOK
    <3> HIDE DEF S
    <3>2. copied = [i \in 1 .. Len(copied) |-> copied[i]]
      BY <3>1
    <3>3. \A i \in 1 .. Len(copied) : copied[i] = <<id, i - 1>>
      BY <2>3 DEF CopyOf
    <3>4. QED
      BY <2>3, <3>2, <3>3 DEF Trace
  <2>6. QED
    BY <2>3, <2>4, <2>5
<1>2. QED
  BY <1>1, Inductive, PTL

\* Until a trace fills the buffer to the last cell whole traces stand between tail and head,
\* the newest ones, in order and without a gap, whatever the writer is writing meanwhile and
\* whoever has moved the tail (CyclicBuffer.cpp:303-328).
THEOREM ContentIntact == Spec => []Intact
<1>1. IInv => Intact
  <2> SUFFICES ASSUME IInv, Content # <<>>, ~filled
               PROVE  /\ Content[1][2] = 0
                      /\ \A i \in 2 .. Len(Content) : Content[i] = After(Content[i - 1])
                      /\ After(Content[Len(Content)]) = <<Published + 1, 0>>
    BY DEF Intact
  <2>1. Shape
    BY DEF IInv
  <2>2. PICK base, first : Placed(base, first)
    BY DEF IInv, Good
  <2>3. QED
    BY <2>1, <2>2, StandsIntact DEF Placed
<1>2. QED
  BY <1>1, Inductive, PTL

\* Until a trace fills the buffer to the last cell no read ends short of the length it
\* found, so the buffer is never flushed, which would lose the traces that stand in it
\* (TraceControl.h:720-723).
THEOREM FlushesOnlyFilled == Spec => [](reader = "flush" => filled)
<1>1. IInv => (reader = "flush" => filled)
  BY DEF IInv, Good, Placed, Reads
<1>2. QED
  BY <1>1, Inductive, PTL
=============================================================================
