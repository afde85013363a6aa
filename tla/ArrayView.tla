------------------------------ MODULE ArrayView ------------------------------
(***************************************************************************)
(* Remote access to a Shbox<[T]>: PEReference::write and the               *)
(* MutableArrayView it returns, write_from, read and read_into             *)
(* (lib.rs:509-624, shmalloc.rs:204-289).  Every PE has its copy of one    *)
(* array, and the next object of its heap lies right behind it.            *)
(*                                                                         *)
(* The PEs run programs of the shape of examples/pass_the_port.rs and      *)
(* examples/mandlebrot.rs: writes, barrier_all, reads.  The array has been *)
(* constructed and a barrier passed before (SymmetricHeap says why).       *)
(*                                                                         *)
(* External: shmem_putmem returns when the source buffer may be reused,    *)
(* its elements arrive in any order, at the latest when the barrier of     *)
(* their sender completes them; shmem_getmem returns with the data.        *)
(***************************************************************************)
EXTENDS RangeBounds, FiniteSets

CONSTANTS
  PE,         \* the processing elements
  Len,        \* the length of the array
  Ranges,     \* the ranges the programs use
  Zero,       \* the first value of an element
  Junk,       \* the contents of uninitialized memory
  Other,      \* the contents of the next object
  None,       \* no view, no result
  MaxWrites   \* bound: the writes of one PE

ASSUME LenAssumption == Len \in Nat \ {0}
ASSUME MaxWritesAssumption == MaxWrites \in Nat

VARIABLES
  pc,       \* "write", "barrier", "read", or "panicked"
  writes,   \* writes[p]: the number of writes p has begun
  mem,      \* mem[p][i]: cell i of p's heap, counted from the array's start
  view,     \* view[p]: p's MutableArrayView, or None
  puts,     \* the elements on their way
  got,      \* got[p]: the result of p's read (bound: one), or None
  asked     \* asked[q][i]: history, the values written to element i of q

vars == <<pc, writes, mem, view, puts, got, asked>>

-----------------------------------------------------------------------------

\* The array and as much of the next object as a range can reach.
Cell == 0..Len + 1
Value == PE \cup {Zero, Junk, Other}

Buffer == UNION {[0..n - 1 -> Value] : n \in 1..Len + 1}
View == [on : PE, range : Ranges, buf : Buffer]
Put == [src : PE, dst : PE, cell : Cell, val : Value, n : 1..MaxWrites]
Result == [on : PE, range : Ranges, data : UNION {[S -> Value] : S \in SUBSET Cell}]

TypeOK ==
  /\ pc \in [PE -> {"write", "barrier", "read", "panicked"}]
  /\ writes \in [PE -> 0..MaxWrites]
  /\ mem \in [PE -> [Cell -> Value]]
  /\ \A p \in PE : view[p] \in View \cup {None}
  /\ puts \subseteq Put
  /\ \A p \in PE : got[p] = None \/ got[p].on \in PE
  /\ asked \in [PE -> [0..Len - 1 -> SUBSET Value]]

Initial(i) == IF i < Len THEN Zero ELSE Other

Init ==
  /\ pc = [p \in PE |-> "write"]
  /\ writes = [p \in PE |-> 0]
  /\ mem = [p \in PE |-> [i \in Cell |-> Initial(i)]]
  /\ view = [p \in PE |-> None]
  /\ puts = {}
  /\ got = [p \in PE |-> None]
  /\ asked = [q \in PE |-> [i \in 0..Len - 1 |-> {}]]

-----------------------------------------------------------------------------

\* An indexing or range panic: p unwinds, and the rest of it is EarlyExit's.
Panic(p) ==
  /\ pc' = [pc EXCEPT ![p] = "panicked"]
  /\ UNCHANGED <<writes, mem, puts, got, asked>>

\* Put vals, a function on cells, on q; the program meant the ones in the array.
Send(p, q, vals) ==
  puts' = puts \cup {[src |-> p, dst |-> q, cell |-> i, val |-> vals[i], n |-> writes'[p]] :
                       i \in DOMAIN vals}

\* The program wrote vals, a function on elements, to q's copy.
Ask(q, vals) ==
  asked' = [asked EXCEPT ![q] = [i \in 0..Len - 1 |->
              IF i \in DOMAIN vals THEN @[i] \cup {vals[i]} ELSE @[i]]]

(***************************************************************************)
(* PEReference::write: a view with a buffer of its own, of which the       *)
(* contents are whatever the memory held (lib.rs:532).                     *)
(***************************************************************************)
Write(p, q, r) ==
  /\ pc[p] = "write" /\ view[p] = None /\ writes[p] < MaxWrites
  /\ ~ Panics(r, Len)
  /\ view' = [view EXCEPT ![p] =
                [on |-> q, range |-> r, buf |-> [k \in 0..Count(r, Len) - 1 |-> Junk]]]
  /\ writes' = [writes EXCEPT ![p] = @ + 1]
  /\ UNCHANGED <<pc, mem, puts, got, asked>>

WritePanics(p, r) ==
  /\ pc[p] = "write" /\ view[p] = None
  /\ Panics(r, Len)
  /\ Panic(p) /\ UNCHANGED view

\* DerefMut of the view: the program stores its own number in an element.
Store(p, k) ==
  /\ pc[p] = "write" /\ view[p] # None
  /\ k \in DOMAIN view[p].buf /\ view[p].buf[k] # p
  /\ view' = [view EXCEPT ![p].buf[k] = p]
  /\ UNCHANGED <<pc, writes, mem, puts, got, asked>>

\* Mutant of Drop: the buffer goes to the start of the array.
DropAtStart(p) ==
  LET v == view[p]
      n == Cardinality(DOMAIN v.buf)
  IN  /\ pc[p] = "write" /\ v # None
      /\ view' = [view EXCEPT ![p] = None]
      /\ ~ Panics(v.range, n)
      /\ UNCHANGED <<pc, writes, mem, got>>
      /\ Send(p, v.on, [i \in 0..Count(v.range, n) - 1 |-> IF i < n THEN v.buf[i] ELSE Junk])
      /\ Ask(v.on, [i \in Denotes(v.range, Len) |-> v.buf[i - StartOf(v.range)]])

(***************************************************************************)
(* Drop of the view (and finish): the range is applied once more, to the   *)
(* BUFFER, and as many elements are put, from the start of the buffer to   *)
(* the cells that the range starts at (shmalloc.rs:243-253).               *)
(***************************************************************************)
Drop(p) ==
  LET v == view[p]
      n == Cardinality(DOMAIN v.buf)
      s == StartOf(v.range)
  IN  /\ pc[p] = "write" /\ v # None
      /\ view' = [view EXCEPT ![p] = None]
      /\ \/ /\ Panics(v.range, n)
            /\ Panic(p)
         \/ /\ ~ Panics(v.range, n)
            /\ UNCHANGED <<pc, writes, mem, got>>
            /\ Send(p, v.on, [i \in s..EndOf(v.range, n) |->
                                IF i - s < n THEN v.buf[i - s] ELSE Junk])
            /\ Ask(v.on, [i \in Denotes(v.range, Len) |-> v.buf[i - s]])

\* PEReference::write_from, with n elements.
WriteFrom(p, q, n) ==
  /\ pc[p] = "write" /\ view[p] = None /\ writes[p] < MaxWrites
  /\ n <= Len
  /\ writes' = [writes EXCEPT ![p] = @ + 1]
  /\ Send(p, q, [i \in 0..n - 1 |-> p])
  /\ Ask(q, [i \in 0..n - 1 |-> p])
  /\ UNCHANGED <<pc, mem, view, got>>

WriteFromPanics(p, n) ==
  /\ pc[p] = "write" /\ view[p] = None
  /\ n > Len
  /\ Panic(p) /\ UNCHANGED view

\* An element arrives.
Deliver(m) ==
  /\ mem' = [mem EXCEPT ![m.dst][m.cell] = m.val]
  /\ puts' = puts \ {m}
  /\ UNCHANGED <<pc, writes, view, got, asked>>

\* Mutant of Arrive: the barrier does not complete p's puts.
ArriveUndrained(p) ==
  /\ pc[p] = "write" /\ view[p] = None
  /\ pc' = [pc EXCEPT ![p] = "barrier"]
  /\ UNCHANGED <<writes, mem, view, puts, got, asked>>

\* barrier_all, once p's puts are complete.
Arrive(p) ==
  /\ pc[p] = "write" /\ view[p] = None
  /\ \A m \in puts : m.src # p
  /\ pc' = [pc EXCEPT ![p] = "barrier"]
  /\ UNCHANGED <<writes, mem, view, puts, got, asked>>

Leave(p) ==
  /\ pc[p] = "barrier"
  /\ \A q \in PE : pc[q] \in {"barrier", "read"}
  /\ pc' = [pc EXCEPT ![p] = "read"]
  /\ UNCHANGED <<writes, mem, view, puts, got, asked>>

(***************************************************************************)
(* PEReference::read (and its alias get), and read_into with a buffer that *)
(* has room: end - start + 1 elements from the start of the range.         *)
(***************************************************************************)
Read(p, q, r) ==
  /\ pc[p] = "read" /\ got[p] = None
  /\ ~ Panics(r, Len)
  /\ got' = [got EXCEPT ![p] =
               [on |-> q, range |-> r,
                data |-> [i \in StartOf(r)..EndOf(r, Len) |-> mem[q][i]]]]
  /\ UNCHANGED <<pc, writes, mem, view, puts, asked>>

\* The panics of read, and of read_into with a buffer of `room` elements.
ReadPanics(p, r, room) ==
  /\ pc[p] = "read" /\ got[p] = None
  /\ Panics(r, Len) \/ room < Count(r, Len)
  /\ Panic(p) /\ UNCHANGED view

-----------------------------------------------------------------------------

Next ==
  \/ \E p, q \in PE, r \in Ranges : Write(p, q, r)
  \/ \E p \in PE, r \in Ranges : WritePanics(p, r)
  \/ \E p \in PE, k \in 0..Len : Store(p, k)
  \/ \E p \in PE : Drop(p) \/ Arrive(p) \/ Leave(p)
  \/ \E p, q \in PE, n \in 0..Len + 1 : WriteFrom(p, q, n) \/ WriteFromPanics(p, n)
  \/ \E m \in puts : Deliver(m)
  \/ \E p, q \in PE, r \in Ranges : Read(p, q, r)
  \/ \E p \in PE, r \in Ranges, room \in 0..Len + 1 : ReadPanics(p, r, room)

Spec == Init /\ [][Next]_vars

-----------------------------------------------------------------------------

(***************************************************************************)
(* When a PE has left the barrier, every write has arrived where its range *)
(* says and nothing else has changed: an element of a copy holds a value   *)
(* some PE wrote to it, an element nobody wrote its first value, and the   *)
(* next object is untouched (examples/pass_the_port.rs:43-45).             *)
(***************************************************************************)
Settled ==
  (\E p \in PE : pc[p] = "read") =>
    \A q \in PE, i \in Cell :
      IF i < Len /\ asked[q][i] # {} THEN mem[q][i] \in asked[q][i]
                                     ELSE mem[q][i] = Initial(i)

(***************************************************************************)
(* A read after the barrier returns the elements its range denotes, no     *)
(* fewer and no more, each as it was written (lib.rs:573-598).             *)
(***************************************************************************)
ReadsWhatWasWritten ==
  \A p \in PE : got[p] # None =>
    /\ DOMAIN got[p].data = Denotes(got[p].range, Len)
    /\ \A i \in DOMAIN got[p].data :
         got[p].data[i] \in IF asked[got[p].on][i] = {} THEN {Zero} ELSE asked[got[p].on][i]

(***************************************************************************)
(* "No matter whether it has been written to, the internal buffer will be  *)
(* copied back to the remote host" (shmalloc.rs:206): the drop of a view   *)
(* never panics.                                                           *)
(***************************************************************************)
DropCopiesBack == [][\A p \in PE : view[p] # None => pc'[p] # "panicked"]_vars

=============================================================================
