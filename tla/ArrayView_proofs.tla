--------------------------- MODULE ArrayView_proofs ---------------------------
(***************************************************************************)
(* What apply_range_bounds makes of a range, for arrays of every length,   *)
(* and what that means for the programs of ArrayView, for every set of     *)
(* PEs, every length and every number of writes: if the ranges have a      *)
(* bounded end inside the array, the writes arrive and the reads return    *)
(* them.                                                                   *)
(***************************************************************************)
EXTENDS ArrayView, FiniteSetTheorems, TLAPS

\* The cells that a read or a write over r moves.
Touched(r, n) == StartOf(r)..EndOf(r, n)

\* The ranges Rust has syntax for, with a bounded end.
BoundedRange ==
  {Bounds(lo, hi) : lo \in {Included(a) : a \in Nat} \cup {Unbounded},
                    hi \in {Included(b) : b \in Nat} \cup {Excluded(b) : b \in Nat}}

-----------------------------------------------------------------------------

(***************************************************************************)
(* A range with a bounded end that is accepted moves exactly the elements  *)
(* it denotes, as many as it counts, provided its last element is one of   *)
(* the array: the inclusive pair and its `+ 1` cancel out                  *)
(* (shmalloc.rs:221-236, lib.rs:580-581).                                  *)
(***************************************************************************)
THEOREM BoundedEndsAreExact ==
  ASSUME NEW n \in Nat, NEW r \in BoundedRange, ~ Panics(r, n), EndOf(r, n) < n
  PROVE  /\ Touched(r, n) = Denotes(r, n)
         /\ Count(r, n) = EndOf(r, n) - StartOf(r) + 1 /\ Count(r, n) >= 1
<1> PICK lo \in {Included(a) : a \in Nat} \cup {Unbounded},
         hi \in {Included(b) : b \in Nat} \cup {Excluded(b) : b \in Nat} : r = Bounds(lo, hi)
  BY DEF BoundedRange
<1>1. /\ r.start = lo /\ r.end = hi
  BY DEF Bounds
<1>2. /\ lo.kind \in {"included", "unbounded"} /\ lo.at \in Nat
      /\ lo.kind = "unbounded" => lo.at = 0
  BY DEF Included, Unbounded
<1>3. hi.kind \in {"included", "excluded"} /\ hi.at \in Nat
  BY DEF Included, Excluded
<1>4. StartOf(r) = lo.at
  BY <1>1, <1>2 DEF StartOf
<1>5. EndOf(r, n) = IF hi.kind = "included" THEN hi.at ELSE hi.at - 1
  BY <1>1, <1>3 DEF EndOf
<1>6. StartOf(r) \in Nat /\ EndOf(r, n) \in Int /\ StartOf(r) <= EndOf(r, n)
  BY <1>2, <1>3, <1>4, <1>5 DEF Panics
<1>7. Touched(r, n) = Denotes(r, n)
  <2>1. ASSUME NEW i \in Int PROVE i \in Touched(r, n) <=> i \in Denotes(r, n)
    BY <1>1, <1>2, <1>3, <1>4, <1>5, <1>6 DEF Touched, Denotes, After, Before
  <2>2. Touched(r, n) \subseteq Int /\ Denotes(r, n) \subseteq Int
    BY <1>6 DEF Touched, Denotes
  <2> QED BY <2>1, <2>2
<1> QED BY <1>6, <1>7 DEF Count

(***************************************************************************)
(* A range without an end moves one element past the end of the array:     *)
(* `len()` is taken for the index of the last element (shmalloc.rs:225).   *)
(***************************************************************************)
THEOREM UnboundedEndOverruns ==
  ASSUME NEW n \in Nat, NEW a \in 0..n
  PROVE  /\ ~ Panics(From(a), n) /\ n \in Touched(From(a), n)
         /\ ~ Panics(Full, n) /\ n \in Touched(Full, n)
         /\ n \notin Denotes(From(a), n) /\ n \notin Denotes(Full, n)
<1>1. From(a).end.kind = "unbounded" /\ From(a).end # Excluded(0) /\ StartOf(From(a)) = a
  BY DEF From, Bounds, Included, Excluded, Unbounded, StartOf
<1>2. Full.end.kind = "unbounded" /\ Full.end # Excluded(0) /\ StartOf(Full) = 0
  BY DEF Full, Bounds, Excluded, Unbounded, StartOf
<1>3. EndOf(From(a), n) = n /\ EndOf(Full, n) = n
  BY <1>1, <1>2 DEF EndOf
<1> QED BY <1>1, <1>2, <1>3 DEF Panics, Touched, Denotes

(***************************************************************************)
(* The drop of a view applies its range again, to the buffer: over a..b it *)
(* panics for every start but 0 and 1, and for those it puts as many       *)
(* elements as the buffer has (shmalloc.rs:244, lib.rs:523-526).           *)
(***************************************************************************)
THEOREM DropAcceptsLowStarts ==
  ASSUME NEW n \in Nat, NEW a \in Nat, NEW b \in Nat, ~ Panics(HalfOpen(a, b), n)
  PROVE  LET held == Count(HalfOpen(a, b), n)
         IN  /\ Panics(HalfOpen(a, b), held) <=> a >= 2
             /\ Count(HalfOpen(a, b), held) = held
<1> DEFINE r == HalfOpen(a, b)
<1> DEFINE held == Count(r, n)
<1>1. \A m : EndOf(r, m) = b - 1
  BY DEF EndOf, HalfOpen, Bounds, Excluded
<1>2. StartOf(r) = a
  BY DEF StartOf, HalfOpen, Bounds, Included
<1>3. r.end = Excluded(0) <=> b = 0
  BY DEF HalfOpen, Bounds, Excluded
<1>4. b # 0 /\ b - 1 <= n /\ a <= b - 1
  BY <1>1, <1>2, <1>3 DEF Panics
<1>5. held = b - a /\ \A m : Count(r, m) = b - a
  BY <1>1, <1>2 DEF Count
<1>6. Panics(r, held) <=> (b - 1 > b - a \/ a > b - a \/ a > b - 1)
  BY <1>1, <1>2, <1>3, <1>4, <1>5 DEF Panics
<1> QED BY <1>4, <1>5, <1>6


-----------------------------------------------------------------------------

(***************************************************************************)
(* The ranges of the theorems below: accepted ones have a bounded end, and *)
(* their last element is one of the array.                                 *)
(***************************************************************************)
ExactRanges == \A r \in Ranges : ~ Panics(r, Len) => r \in BoundedRange /\ EndOf(r, Len) < Len

Element == 0..Len - 1

\* A view in use: its buffer has as many elements as its range.
ViewOf(p, v) ==
  /\ v.on \in PE /\ v.range \in Ranges /\ ~ Panics(v.range, Len)
  /\ v.buf \in [0..Count(v.range, Len) - 1 -> Value]
  /\ v = [on |-> v.on, range |-> v.range, buf |-> v.buf]
  /\ writes[p] >= 1

Types ==
  /\ pc \in [PE -> {"write", "barrier", "read", "panicked"}]
  /\ writes \in [PE -> 0..MaxWrites]
  /\ mem \in [PE -> [Cell -> Value]]
  /\ view = [p \in PE |-> view[p]] /\ \A p \in PE : view[p] = None \/ ViewOf(p, view[p])
  /\ puts \subseteq Put
  /\ got = [p \in PE |-> got[p]] /\ \A p \in PE : got[p] = None \/ got[p].on \in PE
  /\ asked \in [PE -> [Element -> SUBSET Value]]

\* What is on its way was asked for, and comes from a PE that has not passed the barrier.
Asked ==
  \A m \in puts :
    /\ m.cell \in Element /\ m.val \in asked[m.dst][m.cell]
    /\ pc[m.src] \in {"write", "panicked"}

\* What was asked for has arrived or is on its way, and nothing else changes.
OnItsWay(q, i) == \E m \in puts : m.dst = q /\ m.cell = i

Stored ==
  \A q \in PE, i \in Cell :
    IF i \in Element /\ asked[q][i] # {}
    THEN mem[q][i] \in asked[q][i] \/ OnItsWay(q, i)
    ELSE mem[q][i] = Initial(i)

\* Once a PE reads, nobody writes.
Over ==
  (\E p \in PE : pc[p] = "read" \/ got[p] # None) =>
    puts = {} /\ \A q \in PE : pc[q] # "write"

IInv == Types /\ Asked /\ Stored /\ Over /\ ReadsWhatWasWritten

-----------------------------------------------------------------------------

LEMMA Lengths == Len \in Nat /\ Len >= 1 /\ MaxWrites \in Nat
BY LenAssumption, MaxWritesAssumption

(***************************************************************************)
(* An accepted range: what it denotes, and that the buffer of its view is  *)
(* given back whole.                                                       *)
(***************************************************************************)
LEMMA RangeFacts ==
  ASSUME ExactRanges, NEW r \in Ranges, ~ Panics(r, Len)
  PROVE  /\ Denotes(r, Len) = StartOf(r)..EndOf(r, Len) /\ Denotes(r, Len) \subseteq Element
         /\ StartOf(r) \in Nat /\ EndOf(r, Len) \in Nat
         /\ Count(r, Len) \in 1..Len
         /\ \A n : EndOf(r, n) = EndOf(r, Len)
<1>1. r \in BoundedRange /\ EndOf(r, Len) < Len
  BY DEF ExactRanges
<1>2. /\ StartOf(r)..EndOf(r, Len) = Denotes(r, Len) /\ Count(r, Len) >= 1
      /\ Count(r, Len) = EndOf(r, Len) - StartOf(r) + 1
  BY <1>1, Lengths, BoundedEndsAreExact DEF Touched
<1> PICK lo \in {Included(a) : a \in Nat} \cup {Unbounded},
         hi \in {Included(b) : b \in Nat} \cup {Excluded(b) : b \in Nat} : r = Bounds(lo, hi)
  BY <1>1 DEF BoundedRange
<1>3. r.start = lo /\ r.end = hi
  BY DEF Bounds
<1>4. StartOf(r) \in Nat
  BY <1>3 DEF StartOf, Included, Unbounded
<1>5. /\ EndOf(r, Len) \in Int
      /\ \A n : EndOf(r, n) = EndOf(r, Len)
  BY <1>3 DEF EndOf, Included, Excluded
<1>6. StartOf(r) <= EndOf(r, Len)
  BY <1>4, <1>5 DEF Panics
<1> QED
  BY <1>1, <1>2, <1>4, <1>5, <1>6, Lengths DEF Denotes, Element

LEMMA InvInit == Init => IInv
<1> SUFFICES ASSUME Init PROVE IInv
  OBVIOUS
<1>1. \A i \in Cell : Initial(i) \in Value
  BY DEF Initial, Value
<1>2. Types
  BY <1>1, Lengths DEF Init, Types, Element
<1>3. Stored
  BY DEF Init, Stored, Element
<1> QED
  BY <1>2, <1>3 DEF Init, IInv, Asked, Over, ReadsWhatWasWritten

-----------------------------------------------------------------------------

(***************************************************************************)
(* A PE sends what its program wrote to elements of the array: `vals` goes *)
(* to the network and to `asked` alike.                                    *)
(***************************************************************************)
LEMMA SendInv ==
  ASSUME IInv, NEW p \in PE, pc[p] = "write", NEW q \in PE,
         NEW S \in SUBSET Element, NEW vals \in [S -> Value],
         Send(p, q, vals), Ask(q, vals),
         UNCHANGED <<pc, mem, got>>,
         writes' \in [PE -> 0..MaxWrites], writes'[p] >= 1
  PROVE  /\ puts' \subseteq Put /\ asked' \in [PE -> [Element -> SUBSET Value]]
         /\ Asked' /\ Stored' /\ Over' /\ ReadsWhatWasWritten'
<1> DEFINE put(i) == [src |-> p, dst |-> q, cell |-> i, val |-> vals[i], n |-> writes'[p]]
<1>1. puts' = puts \cup {put(i) : i \in S}
  BY DEF Send
<1>2. \A s \in PE, i \in Element :
        asked'[s][i] = IF s = q /\ i \in S THEN asked[s][i] \cup {vals[i]} ELSE asked[s][i]
  BY DEF Ask, IInv, Types, Element
<1>3. asked' \in [PE -> [Element -> SUBSET Value]]
  <2>1. asked' = [asked EXCEPT ![q] = [i \in Element |->
                    IF i \in S THEN asked[q][i] \cup {vals[i]} ELSE asked[q][i]]]
    BY DEF Ask, Element
  <2>2. [i \in Element |-> IF i \in S THEN asked[q][i] \cup {vals[i]} ELSE asked[q][i]]
          \in [Element -> SUBSET Value]
    BY DEF IInv, Types
  <2> QED
    BY <2>1, <2>2 DEF IInv, Types
<1>4. \A i \in S : put(i) \in Put
  <2>1. writes'[p] \in 1..MaxWrites
    BY Lengths
  <2>2. S \subseteq Cell
    BY Lengths DEF Element, Cell
  <2> QED
    BY <2>1, <2>2 DEF Put
<1>5. Asked'
  <2> SUFFICES ASSUME NEW m \in puts'
               PROVE  /\ m.cell \in Element /\ m.val \in asked'[m.dst][m.cell]
                      /\ pc[m.src] \in {"write", "panicked"}
    BY DEF Asked
  <2>1. CASE m \in puts
    <3>1. m.dst \in PE
      BY <2>1 DEF IInv, Types, Put
    <3> QED
      BY <1>2, <2>1, <3>1 DEF IInv, Asked
  <2>2. ASSUME NEW i \in S, m = put(i)
        PROVE  /\ m.cell \in Element /\ m.val \in asked'[m.dst][m.cell]
               /\ pc[m.src] \in {"write", "panicked"}
    BY <1>2, <2>2
  <2> QED
    BY <1>1, <2>1, <2>2
<1>6. Stored'
  <2> SUFFICES ASSUME NEW s \in PE, NEW i \in Cell
               PROVE  IF i \in Element /\ asked'[s][i] # {}
                      THEN mem[s][i] \in asked'[s][i] \/ OnItsWay(s, i)'
                      ELSE mem[s][i] = Initial(i)
    BY DEF Stored
  <2>1. CASE s = q /\ i \in S
    <3>1. put(i) \in puts' /\ put(i).dst = s /\ put(i).cell = i
      BY <1>1, <2>1
    <3> QED
      BY <1>2, <2>1, <3>1 DEF OnItsWay
  <2>2. CASE ~ (s = q /\ i \in S)
    <3>1. OnItsWay(s, i) => OnItsWay(s, i)'
      BY <1>1 DEF OnItsWay
    <3>2. i \in Element => asked'[s][i] = asked[s][i]
      BY <1>2, <2>2
    <3>3. IF i \in Element /\ asked[s][i] # {}
          THEN mem[s][i] \in asked[s][i] \/ OnItsWay(s, i)
          ELSE mem[s][i] = Initial(i)
      BY DEF IInv, Stored
    <3> QED
      BY <3>1, <3>2, <3>3
  <2> QED
    BY <2>1, <2>2
<1>7. \A s \in PE : pc[s] # "read" /\ got[s] = None
  BY DEF IInv, Over
<1>8. Over' /\ ReadsWhatWasWritten'
  BY <1>7 DEF Over, ReadsWhatWasWritten
<1> QED
  BY <1>1, <1>3, <1>4, <1>5, <1>6, <1>8 DEF IInv, Types

(***************************************************************************)
(* A PE that panics sends nothing.                                         *)
(***************************************************************************)
LEMMA PanicKeeps ==
  ASSUME IInv, NEW p \in PE, Panic(p)
  PROVE  Asked' /\ Stored' /\ Over' /\ ReadsWhatWasWritten'
<1>1. /\ pc' = [pc EXCEPT ![p] = "panicked"]
      /\ UNCHANGED <<writes, mem, puts, got, asked>>
  BY DEF Panic
<1>2. \A q \in PE : pc'[q] = IF q = p THEN "panicked" ELSE pc[q]
  BY <1>1 DEF IInv, Types
<1>3. Asked'
  BY <1>1, <1>2 DEF IInv, Asked, Types, Put
<1>4. Stored' /\ ReadsWhatWasWritten'
  BY <1>1 DEF IInv, Stored, OnItsWay, ReadsWhatWasWritten
<1>5. Over'
  BY <1>1, <1>2 DEF IInv, Over
<1> QED
  BY <1>3, <1>4, <1>5

(***************************************************************************)
(* The drop of a view: the range denotes the same elements when it is      *)
(* applied to the buffer, and the buffer has one for each.                 *)
(***************************************************************************)
LEMMA DropInv ==
  ASSUME ExactRanges, IInv, NEW p \in PE, Drop(p)
  PROVE  IInv'
<1> DEFINE v == view[p]
           n == Cardinality(DOMAIN v.buf)
           s == StartOf(v.range)
<1>1. pc[p] = "write" /\ v # None /\ view' = [view EXCEPT ![p] = None] /\ ViewOf(p, v)
  BY DEF Drop, IInv, Types
<1>2. \A q \in PE : view'[q] = None \/ (view'[q] = view[q])
  BY <1>1 DEF IInv, Types
<1>3. view' = [q \in PE |-> view'[q]]
  BY <1>1 DEF IInv, Types
<1>4. CASE Panic(p)
  <2>1. Types'
    BY <1>2, <1>3, <1>4 DEF Panic, IInv, Types, ViewOf
  <2>2. Asked' /\ Stored' /\ Over' /\ ReadsWhatWasWritten'
    BY <1>4, PanicKeeps
  <2> QED
    BY <2>1, <2>2 DEF IInv
<1>5. CASE ~ Panics(v.range, n) /\ UNCHANGED <<pc, writes, mem, got>>
           /\ Send(p, v.on, [i \in s..EndOf(v.range, n) |->
                               IF i - s < n THEN v.buf[i - s] ELSE Junk])
           /\ Ask(v.on, [i \in Denotes(v.range, Len) |-> v.buf[i - s]])
  <2> DEFINE vals == [i \in Denotes(v.range, Len) |-> v.buf[i - s]]
  <2>1. /\ v.range \in Ranges /\ ~ Panics(v.range, Len) /\ v.on \in PE
        /\ v.buf \in [0..Count(v.range, Len) - 1 -> Value]
    BY <1>1 DEF ViewOf
  <2>2. /\ Denotes(v.range, Len) = s..EndOf(v.range, Len) /\ Denotes(v.range, Len) \subseteq Element
        /\ s \in Nat /\ EndOf(v.range, Len) \in Nat
        /\ Count(v.range, Len) \in 1..Len
        /\ EndOf(v.range, n) = EndOf(v.range, Len)
    BY <2>1, RangeFacts
  <2>3. n = Count(v.range, Len)
    <3>1. DOMAIN v.buf = 0..Count(v.range, Len) - 1
      BY <2>1
    <3>2. \A c \in 1..Len : Cardinality(0..c - 1) = c
      BY FS_Interval, Lengths
    <3> QED
      BY <2>2, <3>1, <3>2
  <2>4. \A i \in Denotes(v.range, Len) : i - s \in 0..Count(v.range, Len) - 1 /\ i - s < n
    BY <2>2, <2>3 DEF Count
  <2>5. [i \in s..EndOf(v.range, n) |-> IF i - s < n THEN v.buf[i - s] ELSE Junk] = vals
    BY <2>2, <2>4
  <2>6. vals \in [Denotes(v.range, Len) -> Value]
    BY <2>1, <2>4
  <2>7. writes'[p] >= 1 /\ writes' \in [PE -> 0..MaxWrites]
    BY <1>1, <1>5 DEF ViewOf, IInv, Types
  <2>8. Send(p, v.on, vals) /\ Ask(v.on, vals)
    BY <1>5, <2>5
  <2>9. Denotes(v.range, Len) \in SUBSET Element
    BY <2>2
  <2> HIDE DEF v, n, s, vals
  <2>10. /\ puts' \subseteq Put /\ asked' \in [PE -> [Element -> SUBSET Value]]
         /\ Asked' /\ Stored' /\ Over' /\ ReadsWhatWasWritten'
    BY <1>1, <1>5, <2>1, <2>6, <2>7, <2>8, <2>9, SendInv
  <2>11. Types'
    BY <1>2, <1>3, <1>5, <2>10 DEF IInv, Types, ViewOf
  <2> QED
    BY <2>10, <2>11 DEF IInv
<1> QED
  BY <1>4, <1>5 DEF Drop

LEMMA WriteFromInv ==
  ASSUME IInv, NEW p \in PE, NEW q \in PE, NEW n \in 0..Len + 1, WriteFrom(p, q, n)
  PROVE  IInv'
<1> DEFINE vals == [i \in 0..n - 1 |-> p]
<1>1. /\ pc[p] = "write" /\ n <= Len /\ writes[p] < MaxWrites
      /\ writes' = [writes EXCEPT ![p] = @ + 1]
      /\ Send(p, q, vals) /\ Ask(q, vals)
      /\ UNCHANGED <<pc, mem, view, got>>
  BY DEF WriteFrom
<1>2. 0..n - 1 \in SUBSET Element /\ vals \in [0..n - 1 -> Value]
  BY <1>1, Lengths DEF Element, Value
<1>3. /\ writes' \in [PE -> 0..MaxWrites] /\ writes'[p] >= 1
      /\ \A s \in PE : writes[s] >= 1 => writes'[s] >= 1
  BY <1>1, Lengths DEF IInv, Types
<1> HIDE DEF vals
<1>4. /\ puts' \subseteq Put /\ asked' \in [PE -> [Element -> SUBSET Value]]
      /\ Asked' /\ Stored' /\ Over' /\ ReadsWhatWasWritten'
  BY <1>1, <1>2, <1>3, SendInv
<1>5. Types'
  BY <1>1, <1>3, <1>4 DEF IInv, Types, ViewOf
<1> QED
  BY <1>4, <1>5 DEF IInv

(***************************************************************************)
(* An element arrives: it is one that was asked for.                       *)
(***************************************************************************)
LEMMA DeliverInv ==
  ASSUME IInv, NEW m \in puts, Deliver(m)
  PROVE  IInv'
<1>1. /\ mem' = [mem EXCEPT ![m.dst][m.cell] = m.val] /\ puts' = puts \ {m}
      /\ UNCHANGED <<pc, writes, view, got, asked>>
  BY DEF Deliver
<1>2. /\ m.dst \in PE /\ m.cell \in Cell /\ m.val \in Value
      /\ m.cell \in Element /\ m.val \in asked[m.dst][m.cell]
  BY DEF IInv, Types, Put, Asked
<1>3. Types'
  BY <1>1, <1>2 DEF IInv, Types, ViewOf
<1>4. Asked' /\ Over' /\ ReadsWhatWasWritten'
  BY <1>1 DEF IInv, Asked, Over, ReadsWhatWasWritten
<1>5. Stored'
  <2> SUFFICES ASSUME NEW q \in PE, NEW i \in Cell
               PROVE  IF i \in Element /\ asked[q][i] # {}
                      THEN mem'[q][i] \in asked[q][i] \/ OnItsWay(q, i)'
                      ELSE mem'[q][i] = Initial(i)
    BY <1>1 DEF Stored
  <2>1. mem'[q][i] = IF q = m.dst /\ i = m.cell THEN m.val ELSE mem[q][i]
    BY <1>1, <1>2 DEF IInv, Types
  <2>2. OnItsWay(q, i) => OnItsWay(q, i)' \/ (q = m.dst /\ i = m.cell)
    BY <1>1 DEF OnItsWay
  <2>3. IF i \in Element /\ asked[q][i] # {}
        THEN mem[q][i] \in asked[q][i] \/ OnItsWay(q, i)
        ELSE mem[q][i] = Initial(i)
    BY DEF IInv, Stored
  <2> QED
    BY <1>2, <2>1, <2>2, <2>3
<1> QED
  BY <1>3, <1>4, <1>5 DEF IInv

(***************************************************************************)
(* Once a PE may read, everything has arrived.                             *)
(***************************************************************************)
LEMMA Everything == IInv => Settled
<1> SUFFICES ASSUME IInv, NEW p \in PE, pc[p] = "read", NEW q \in PE, NEW i \in Cell
             PROVE  IF i < Len /\ asked[q][i] # {} THEN mem[q][i] \in asked[q][i]
                                                   ELSE mem[q][i] = Initial(i)
  BY DEF Settled
<1>1. ~ OnItsWay(q, i)
  BY DEF OnItsWay, IInv, Over
<1>2. i < Len <=> i \in Element
  BY Lengths DEF Cell, Element
<1> QED
  BY <1>1, <1>2 DEF IInv, Stored

LEMMA ReadInv ==
  ASSUME ExactRanges, IInv, NEW p \in PE, NEW q \in PE, NEW r \in Ranges, Read(p, q, r)
  PROVE  IInv'
<1> DEFINE d == [i \in StartOf(r)..EndOf(r, Len) |-> mem[q][i]]
           g == [on |-> q, range |-> r, data |-> d]
<1>1. /\ pc[p] = "read" /\ ~ Panics(r, Len) /\ got' = [got EXCEPT ![p] = g]
      /\ UNCHANGED <<pc, writes, mem, view, puts, asked>>
  BY DEF Read
<1>2. \A s \in PE : got'[s] = IF s = p THEN g ELSE got[s]
  BY <1>1 DEF IInv, Types
<1>3. g.on = q /\ g.range = r /\ g.data = d
  OBVIOUS
<1>4. Types'
  <2>1. got' = [s \in PE |-> got'[s]]
    BY <1>1 DEF IInv, Types
  <2>2. \A s \in PE : got'[s] = None \/ got'[s].on \in PE
    <3> HIDE DEF g
    <3> QED
      BY <1>2, <1>3 DEF IInv, Types
  <2> QED
    BY <1>1, <2>1, <2>2 DEF IInv, Types, ViewOf
<1>5. Asked' /\ Stored'
  BY <1>1 DEF IInv, Asked, Stored, OnItsWay
<1>6. Over'
  BY <1>1 DEF IInv, Over
<1>7. DOMAIN d = Denotes(r, Len) /\ Denotes(r, Len) \subseteq Element
  BY <1>1, RangeFacts
<1>8. \A i \in DOMAIN d : d[i] \in IF asked[q][i] = {} THEN {Zero} ELSE asked[q][i]
  <2> TAKE i \in DOMAIN d
  <2>1. i \in Cell /\ i < Len
    <3> HIDE DEF d
    <3> QED
      BY <1>7, Lengths DEF Element, Cell
  <2>2. d[i] = mem[q][i]
    OBVIOUS
  <2> HIDE DEF d
  <2> QED
    BY <1>1, <2>1, <2>2, Everything DEF Settled, Initial
<1>9. ReadsWhatWasWritten'
  <2> SUFFICES ASSUME NEW s \in PE, got'[s] # None
               PROVE  /\ DOMAIN got'[s].data = Denotes(got'[s].range, Len)
                      /\ \A i \in DOMAIN got'[s].data :
                           got'[s].data[i] \in
                             IF asked[got'[s].on][i] = {} THEN {Zero}
                                                         ELSE asked[got'[s].on][i]
    BY <1>1 DEF ReadsWhatWasWritten
  <2>1. CASE s = p
    <3>1. got'[s].on = q /\ got'[s].range = r /\ got'[s].data = d
      <4> HIDE DEF g
      <4> QED
        BY <1>2, <1>3, <2>1
    <3> HIDE DEF d
    <3> QED
      BY <1>7, <1>8, <3>1
  <2>2. CASE s # p
    BY <1>2, <2>2 DEF IInv, ReadsWhatWasWritten
  <2> QED
    BY <2>1, <2>2
<1> QED
  BY <1>4, <1>5, <1>6, <1>9 DEF IInv

LEMMA WriteInv ==
  ASSUME ExactRanges, IInv, NEW p \in PE, NEW q \in PE, NEW r \in Ranges, Write(p, q, r)
  PROVE  IInv'
<1> DEFINE v == [on |-> q, range |-> r, buf |-> [k \in 0..Count(r, Len) - 1 |-> Junk]]
<1>1. /\ writes[p] < MaxWrites /\ ~ Panics(r, Len) /\ view' = [view EXCEPT ![p] = v]
      /\ writes' = [writes EXCEPT ![p] = @ + 1]
      /\ UNCHANGED <<pc, mem, puts, got, asked>>
  BY DEF Write
<1>2. /\ writes' \in [PE -> 0..MaxWrites] /\ writes'[p] >= 1
      /\ \A s \in PE : writes[s] >= 1 => writes'[s] >= 1
  BY <1>1, Lengths DEF IInv, Types
<1>3. v.buf \in [0..Count(v.range, Len) - 1 -> Value]
  BY DEF Value
<1>4. \A s \in PE : view'[s] = IF s = p THEN v ELSE view[s]
  BY <1>1 DEF IInv, Types
<1>5. \A s \in PE : view'[s] = None \/ ViewOf(s, view[s])'
  <2> TAKE s \in PE
  <2>1. CASE s = p
    <3>1. v.on = q /\ v.range = r /\ v = [on |-> v.on, range |-> v.range, buf |-> v.buf]
      OBVIOUS
    <3> HIDE DEF v
    <3> QED
      BY <1>1, <1>2, <1>3, <1>4, <2>1, <3>1 DEF ViewOf, Value
  <2>2. CASE s # p
    BY <1>2, <1>4, <2>2 DEF IInv, Types, ViewOf, Value
  <2> QED
    BY <2>1, <2>2
<1>6. view' = [s \in PE |-> view'[s]]
  BY <1>1 DEF IInv, Types
<1>7. Types'
  BY <1>1, <1>2, <1>5, <1>6 DEF IInv, Types
<1>8. Asked' /\ Stored' /\ Over' /\ ReadsWhatWasWritten'
  BY <1>1 DEF IInv, Asked, Stored, OnItsWay, Over, ReadsWhatWasWritten
<1> QED
  BY <1>7, <1>8 DEF IInv

LEMMA StoreInv ==
  ASSUME IInv, NEW p \in PE, NEW k \in 0..Len, Store(p, k)
  PROVE  IInv'
<1> DEFINE v == view[p]
           w == [v EXCEPT !.buf[k] = p]
<1>1. /\ v # None /\ k \in DOMAIN v.buf /\ view' = [view EXCEPT ![p] = w]
      /\ UNCHANGED <<pc, writes, mem, puts, got, asked>>
  BY DEF Store, IInv, Types
<1>2. ViewOf(p, v)
  BY <1>1 DEF IInv, Types
<1>3. w.on = v.on /\ w.range = v.range /\ w.buf = [v.buf EXCEPT ![k] = p]
  BY <1>2 DEF ViewOf
<1>4. w.buf \in [0..Count(v.range, Len) - 1 -> Value]
  BY <1>2, <1>3 DEF ViewOf, Value
<1>5. w = [on |-> w.on, range |-> w.range, buf |-> w.buf]
  BY <1>2 DEF ViewOf
<1>6. ViewOf(p, w)
  BY <1>2, <1>3, <1>4, <1>5 DEF ViewOf
<1>7. \A s \in PE : view'[s] = IF s = p THEN w ELSE view[s]
  BY <1>1 DEF IInv, Types
<1>8. Types'
  <2>1. view' = [s \in PE |-> view'[s]]
    BY <1>1 DEF IInv, Types
  <2>2. \A s \in PE : view'[s] = None \/ ViewOf(s, view[s])'
    BY <1>1, <1>6, <1>7 DEF IInv, Types, ViewOf, Value
  <2> QED
    BY <1>1, <2>1, <2>2 DEF IInv, Types
<1>9. Asked' /\ Stored' /\ Over' /\ ReadsWhatWasWritten'
  BY <1>1 DEF IInv, Asked, Stored, OnItsWay, Over, ReadsWhatWasWritten
<1> QED
  BY <1>8, <1>9 DEF IInv

LEMMA PanicInv ==
  ASSUME IInv, NEW p \in PE, Panic(p), UNCHANGED view
  PROVE  IInv'
<1>1. Types'
  BY DEF Panic, IInv, Types, ViewOf
<1> QED
  BY <1>1, PanicKeeps DEF IInv

\* A PE reaches the barrier when nothing of its own is on its way ...
LEMMA ArriveInv ==
  ASSUME IInv, NEW p \in PE, Arrive(p)
  PROVE  IInv'
<1>1. /\ pc[p] = "write" /\ (\A m \in puts : m.src # p)
      /\ pc' = [pc EXCEPT ![p] = "barrier"]
      /\ UNCHANGED <<writes, mem, view, puts, got, asked>>
  BY DEF Arrive
<1>2. Types'
  BY <1>1 DEF IInv, Types, ViewOf
<1>3. Asked' /\ Over'
  BY <1>1 DEF IInv, Types, Put, Asked, Over
<1>4. Stored' /\ ReadsWhatWasWritten'
  BY <1>1 DEF IInv, Stored, OnItsWay, ReadsWhatWasWritten
<1> QED
  BY <1>2, <1>3, <1>4 DEF IInv

\* ... and leaves it when that is so of every PE.
LEMMA LeaveInv ==
  ASSUME IInv, NEW p \in PE, Leave(p)
  PROVE  IInv'
<1>1. /\ \A q \in PE : pc[q] \in {"barrier", "read"}
      /\ pc' = [pc EXCEPT ![p] = "read"]
      /\ UNCHANGED <<writes, mem, view, puts, got, asked>>
  BY DEF Leave
<1>2. Types'
  BY <1>1 DEF IInv, Types, ViewOf
<1>3. puts = {}
  BY <1>1 DEF IInv, Types, Put, Asked
<1>4. Asked' /\ Over'
  BY <1>1, <1>3 DEF IInv, Types, Asked, Over
<1>5. Stored' /\ ReadsWhatWasWritten'
  BY <1>1 DEF IInv, Stored, OnItsWay, ReadsWhatWasWritten
<1> QED
  BY <1>2, <1>4, <1>5 DEF IInv

-----------------------------------------------------------------------------

LEMMA InvNext == ExactRanges /\ IInv /\ [Next]_vars => IInv'
<1> SUFFICES ASSUME ExactRanges, IInv, [Next]_vars PROVE IInv'
  OBVIOUS
<1>1. ASSUME NEW p \in PE, NEW q \in PE, NEW r \in Ranges, Write(p, q, r) PROVE IInv'
  BY <1>1, WriteInv
<1>2. ASSUME NEW p \in PE, NEW r \in Ranges, WritePanics(p, r) PROVE IInv'
  BY <1>2, PanicInv DEF WritePanics
<1>3. ASSUME NEW p \in PE, NEW k \in 0..Len, Store(p, k) PROVE IInv'
  BY <1>3, StoreInv
<1>4. ASSUME NEW p \in PE, Drop(p) \/ Arrive(p) \/ Leave(p) PROVE IInv'
  BY <1>4, DropInv, ArriveInv, LeaveInv
<1>5. ASSUME NEW p \in PE, NEW q \in PE, NEW n \in 0..Len + 1,
             WriteFrom(p, q, n) \/ WriteFromPanics(p, n)
      PROVE  IInv'
  <2>1. CASE WriteFrom(p, q, n)
    BY <2>1, WriteFromInv
  <2>2. CASE WriteFromPanics(p, n)
    BY <2>2, PanicInv DEF WriteFromPanics
  <2> QED
    BY <1>5, <2>1, <2>2
<1>6. ASSUME NEW m \in puts, Deliver(m) PROVE IInv'
  BY <1>6, DeliverInv
<1>7. ASSUME NEW p \in PE, NEW q \in PE, NEW r \in Ranges, Read(p, q, r) PROVE IInv'
  BY <1>7, ReadInv
<1>8. ASSUME NEW p \in PE, NEW r \in Ranges, NEW room \in 0..Len + 1, ReadPanics(p, r, room)
      PROVE  IInv'
  BY <1>8, PanicInv DEF ReadPanics
<1>9. CASE UNCHANGED vars
  <2>1. Types'
    BY <1>9 DEF vars, IInv, Types, ViewOf, Value
  <2>2. Asked' /\ Over'
    BY <1>9 DEF vars, IInv, Asked, Over
  <2>3. Stored' /\ ReadsWhatWasWritten'
    BY <1>9 DEF vars, IInv, Stored, OnItsWay, ReadsWhatWasWritten
  <2> QED
    BY <2>1, <2>2, <2>3 DEF IInv
<1> QED
  BY <1>1, <1>2, <1>3, <1>4, <1>5, <1>6, <1>7, <1>8, <1>9 DEF Next

LEMMA Invariance == ASSUME ExactRanges PROVE Spec => []IInv
BY InvInit, InvNext, PTL DEF Spec

(***************************************************************************)
(* Every state is well typed: a view that is written through always has a  *)
(* buffer as long as its range.                                            *)
(***************************************************************************)
THEOREM TypeCorrect == ASSUME ExactRanges PROVE Spec => []TypeOK
<1>1. IInv => TypeOK
  <2> SUFFICES ASSUME IInv PROVE TypeOK
    OBVIOUS
  <2>1. ASSUME NEW p \in PE, view[p] # None PROVE view[p] \in View
    <3>1. ViewOf(p, view[p])
      BY <2>1 DEF IInv, Types
    <3>2. Count(view[p].range, Len) \in 1..Len + 1
      BY <3>1, RangeFacts, Lengths DEF ViewOf
    <3>3. view[p].buf \in Buffer
      BY <3>1, <3>2 DEF ViewOf, Buffer
    <3> QED
      BY <3>1, <3>3 DEF ViewOf, View
  <2> QED
    BY <2>1 DEF IInv, Types, TypeOK, Element
<1> QED
  BY <1>1, Invariance, PTL

(***************************************************************************)
(* When a PE has left the barrier, every write has arrived where its range *)
(* says, and nothing else has changed.                                     *)
(***************************************************************************)
THEOREM WritesArrive == ASSUME ExactRanges PROVE Spec => []Settled
BY Everything, Invariance, PTL

(***************************************************************************)
(* A read after the barrier returns the elements its range denotes, each   *)
(* as it was written.                                                      *)
(***************************************************************************)
THEOREM ReadsAreExact == ASSUME ExactRanges PROVE Spec => []ReadsWhatWasWritten
<1>1. IInv => ReadsWhatWasWritten
  BY DEF IInv
<1> QED
  BY <1>1, Invariance, PTL

=============================================================================
