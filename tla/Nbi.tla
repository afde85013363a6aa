--------------------------------- MODULE Nbi ---------------------------------
(***************************************************************************)
(* Non-blocking reads: PEReference::read_nbi and get_single_nbi, the       *)
(* PendingNbiOp and PendingNbiSliceOp they return, and ShmemCtx::quiet     *)
(* over one of them, a tuple, a vector or ()                               *)
(* (src/src/nbi.rs, src/src/lib.rs:396-413 and 626-675).                   *)
(*                                                                         *)
(* A read returns at once with a handle, and the elements arrive one by    *)
(* one in the handle's buffer, while the source may change.  External:     *)
(* shmem_quiet returns when every read of its caller has arrived.          *)
(***************************************************************************)
EXTENDS RangeBounds

CONSTANTS
  PE,         \* the processing elements
  Reader,     \* the ones that read; reads of two PEs share nothing but their source
  Len,        \* the length of the array of which every PE has a copy
  Ranges,     \* the ranges the programs read, with an end (see RangeBounds)
  Nothing,    \* no read, no buffer, no result, an element that has not arrived
  MaxReads,   \* bound: the reads of one PE
  MaxChanges  \* bound: how often an element changes

ASSUME LenAssumption == Len \in Nat \ {0}
ASSUME ReaderAssumption == Reader \subseteq PE
ASSUME RangesAssumption ==
  \A r \in Ranges : Panics(r, Len) \/ (StartOf(r) \in Nat /\ EndOf(r, Len) \in 0..Len - 1)
ASSUME BoundsAssumption == MaxReads \in Nat /\ MaxChanges \in Nat

VARIABLES
  pc,      \* "run", "quiet", "end", "panicked" (unwinding) or "aborted"
  read,    \* read[p][i]: p's i-th read: where from, and the versions it began with
  live,    \* live[p]: the reads of which p's program has the handle
  taken,   \* taken[p]: the reads whose handles p has passed to quiet
  buf,     \* buf[p][i]: the buffer in the handle, Nothing if there is none
  flight,  \* the elements to arrive: reader, read and index
  mem,     \* mem[q][c]: cell c of q's copy, as the number of its changes
  got      \* got[p][i]: what quiet returned, and the versions at that time

vars == <<pc, read, live, taken, buf, flight, mem, got>>

-----------------------------------------------------------------------------

Id == 1..MaxReads
Cell == 0..Len - 1

\* An element of a buffer, and what there is to know of a read, a buffer and
\* a result that begin with cell a and end with cell b.
Element == {Nothing} \cup (PE \X Cell \X (0..MaxChanges))
Began(a, b) == [on : PE, first : {a}, last : {b}, since : [a..b -> 0..MaxChanges]]
Buffer(a, b) == [a..b -> Element]
Returned(a, b) == [data : Buffer(a, b), until : [a..b -> 0..MaxChanges]]

ASSUME NothingAssumption ==
  \A a, b \in Cell : Nothing \notin Began(a, b) \cup Buffer(a, b) \cup Returned(a, b)

\* What is in cell c of q: which cell, and which version of it.
Content(q, c) == <<q, c, mem[q][c]>>

\* The versions of cells a..b of q.
Versions(q, a, b) == [c \in a..b |-> mem[q][c]]

TypeOK ==
  /\ pc \in [PE -> {"run", "quiet", "end", "panicked", "aborted"}]
  /\ live \in [PE -> SUBSET Id] /\ taken \in [PE -> SUBSET Id]
  /\ \A p \in PE :
       /\ live[p] \cap taken[p] = {}
       /\ \A i \in live[p] \cup taken[p] :
            buf[p][i] \in Buffer(read[p][i].first, read[p][i].last)
  /\ flight \subseteq PE \X Id \X Cell
  /\ mem \in [PE -> [Cell -> 0..MaxChanges]]

Init ==
  /\ pc = [p \in PE |-> IF p \in Reader THEN "run" ELSE "end"]
  /\ read = [p \in PE |-> [i \in Id |-> Nothing]]
  /\ live = [p \in PE |-> {}] /\ taken = [p \in PE |-> {}]
  /\ buf = [p \in PE |-> [i \in Id |-> Nothing]]
  /\ flight = {}
  /\ mem = [p \in PE |-> [c \in Cell |-> 0]]
  /\ got = [p \in PE |-> [i \in Id |-> Nothing]]

-----------------------------------------------------------------------------

\* Mutant of Begin: the buffer has end - start elements.
BeginShort(p, q, a, b) ==
  \E i \in Id :
    /\ pc[p] = "run"
    /\ read[p][i] = Nothing /\ (\A j \in 1..i - 1 : read[p][j] # Nothing)
    /\ read' = [read EXCEPT ![p][i] =
                  [on |-> q, first |-> a, last |-> b, since |-> Versions(q, a, b)]]
    /\ buf' = [buf EXCEPT ![p][i] = [c \in a..b - 1 |-> Nothing]]
    /\ live' = [live EXCEPT ![p] = @ \cup {i}]
    /\ flight' = flight \cup {<<p, i, c>> : c \in a..b}
    /\ UNCHANGED <<pc, taken, mem, got>>

\* shmem_getmem_nbi from cells a..b of q, into a new buffer and its handle.
Begin(p, q, a, b) ==
  \E i \in Id :
    /\ pc[p] = "run"
    /\ read[p][i] = Nothing /\ (\A j \in 1..i - 1 : read[p][j] # Nothing)
    /\ read' = [read EXCEPT ![p][i] =
                  [on |-> q, first |-> a, last |-> b, since |-> Versions(q, a, b)]]
    /\ buf' = [buf EXCEPT ![p][i] = [c \in a..b |-> Nothing]]
    /\ live' = [live EXCEPT ![p] = @ \cup {i}]
    /\ flight' = flight \cup {<<p, i, c>> : c \in a..b}
    /\ UNCHANGED <<pc, taken, mem, got>>

\* PEReference::read_nbi.
ReadNbi(p, q, r) == ~ Panics(r, Len) /\ Begin(p, q, StartOf(r), EndOf(r, Len))

\* PEReference::get_single_nbi.
GetSingleNbi(p, q, c) == c < Len /\ Begin(p, q, c, c)

(***************************************************************************)
(* p panics.  Unwinding drops the handles that are left in `rest`, each    *)
(* drop panics in turn, and a second panic aborts the process, with which  *)
(* its reads end.                                                          *)
(***************************************************************************)
Unwind(p, rest) ==
  /\ pc' = [pc EXCEPT ![p] = IF rest = {} THEN "panicked" ELSE "aborted"]
  /\ live' = [live EXCEPT ![p] = {}]
  /\ flight' = IF rest = {} THEN flight ELSE {m \in flight : m[1] # p}

\* The panic of a range, or of an index, out of bounds.
ReadPanics(p, r, c) ==
  /\ pc[p] = "run"
  /\ Panics(r, Len) \/ c >= Len
  /\ Unwind(p, live[p])
  /\ UNCHANGED <<read, taken, buf, mem, got>>

\* Mutant of DropHandle: the drop of a pending read goes unnoticed.
DropSilently(p, i) ==
  /\ pc[p] = "run" /\ i \in live[p]
  /\ buf' = [buf EXCEPT ![p][i] = Nothing]
  /\ live' = [live EXCEPT ![p] = @ \ {i}]
  /\ UNCHANGED <<pc, read, taken, flight, mem, got>>

(***************************************************************************)
(* Drop of a pending read panics, and the field `inner` is dropped all the *)
(* same: the buffer is freed while elements may still be on their way.     *)
(***************************************************************************)
DropHandle(p, i) ==
  /\ pc[p] = "run" /\ i \in live[p]
  /\ buf' = [buf EXCEPT ![p][i] = Nothing]
  /\ Unwind(p, live[p] \ {i})
  /\ UNCHANGED <<read, taken, mem, got>>

\* An element of q changes: its owner assigns to it, or a put arrives.
Change(q, c) ==
  /\ mem[q][c] < MaxChanges
  /\ mem' = [mem EXCEPT ![q][c] = @ + 1]
  /\ UNCHANGED <<pc, read, live, taken, buf, flight, got>>

\* An element arrives; in a freed buffer it overwrites whatever is there now.
Deliver(p, i, c) ==
  /\ <<p, i, c>> \in flight
  /\ flight' = flight \ {<<p, i, c>>}
  /\ buf' = IF buf[p][i] = Nothing THEN buf
            ELSE [buf EXCEPT ![p][i][c] = Content(read[p][i].on, c)]
  /\ UNCHANGED <<pc, read, live, taken, mem, got>>

\* ShmemCtx::quiet takes the handles of S, none for (), and calls shmem_quiet ...
EnterQuiet(p, S) ==
  /\ pc[p] = "run" /\ S \subseteq live[p]
  /\ pc' = [pc EXCEPT ![p] = "quiet"]
  /\ taken' = [taken EXCEPT ![p] = S]
  /\ live' = [live EXCEPT ![p] = @ \ S]
  /\ UNCHANGED <<read, buf, flight, mem, got>>

Result(p, i) ==
  LET r == read[p][i]
  IN  [data |-> buf[p][i], until |-> Versions(r.on, r.first, r.last)]

\* Every handle that was passed to quiet becomes its value.
Unwrap(p) ==
  /\ got' = [got EXCEPT ![p] = [i \in Id |->
               IF i \in taken[p] THEN Result(p, i) ELSE @[i]]]
  /\ buf' = [buf EXCEPT ![p] = [i \in Id |-> IF i \in taken[p] THEN Nothing ELSE @[i]]]
  /\ taken' = [taken EXCEPT ![p] = {}]

\* Mutants of ReturnQuiet: no shmem_quiet before after_quiet; into_inner leaves
\* out the mem::forget, and the handle is dropped.
ReturnUnquiet(p) ==
  /\ pc[p] = "quiet"
  /\ Unwrap(p)
  /\ pc' = [pc EXCEPT ![p] = "run"]
  /\ UNCHANGED <<read, live, flight, mem>>
ReturnDropping(p) ==
  /\ pc[p] = "quiet" /\ (\A m \in flight : m[1] # p)
  /\ Unwrap(p)
  /\ pc' = [pc EXCEPT ![p] = IF taken[p] = {} THEN "run" ELSE "panicked"]
  /\ UNCHANGED <<read, live, flight, mem>>

\* ... and when that returns, after_quiet unwraps them.
ReturnQuiet(p) ==
  /\ pc[p] = "quiet" /\ (\A m \in flight : m[1] # p)
  /\ Unwrap(p)
  /\ pc' = [pc EXCEPT ![p] = "run"]
  /\ UNCHANGED <<read, live, flight, mem>>

\* The program ends: its handles borrow the context, so none is left.
Finalize(p) ==
  /\ pc[p] = "run" /\ live[p] = {}
  /\ pc' = [pc EXCEPT ![p] = "end"]
  /\ UNCHANGED <<read, live, taken, buf, flight, mem, got>>

\* Not a step of the program: all PEs have stopped, and all reads have arrived.
Done ==
  /\ \A p \in PE : pc[p] \in {"end", "panicked", "aborted"}
  /\ flight = {}
  /\ UNCHANGED vars

-----------------------------------------------------------------------------

Next ==
  \/ \E p \in Reader, q \in PE, r \in Ranges : ReadNbi(p, q, r)
  \/ \E p \in Reader, q \in PE, c \in Cell : GetSingleNbi(p, q, c)
  \/ \E p \in Reader, r \in Ranges, c \in 0..Len : ReadPanics(p, r, c)
  \/ \E p \in Reader, i \in Id : DropHandle(p, i)
  \/ \E q \in PE, c \in Cell : Change(q, c)
  \/ \E m \in flight : Deliver(m[1], m[2], m[3])
  \/ \E p \in Reader, S \in SUBSET Id : EnterQuiet(p, S)
  \/ \E p \in Reader : ReturnQuiet(p) \/ Finalize(p)
  \/ Done

Spec == Init /\ [][Next]_vars

\* The library delivers what has been issued, and a PE inside quiet goes on.
Fairness ==
  \A p \in PE :
    /\ WF_vars(\E i \in Id, c \in Cell : Deliver(p, i, c))
    /\ WF_vars(ReturnQuiet(p))

FairSpec == Spec /\ Fairness

-----------------------------------------------------------------------------

(***************************************************************************)
(* What quiet returns for a read is complete and in place: element c is    *)
(* one that the source had in cell c at some time between the call of the  *)
(* read and the return of quiet, whichever handles were passed along and   *)
(* whatever changed meanwhile ("must have been initialized",               *)
(* src/src/nbi.rs:28-54).                                                  *)
(***************************************************************************)
ReadsInWindow ==
  \A p \in PE, i \in Id : got[p][i] # Nothing =>
    LET r == read[p][i]
        d == got[p][i].data
    IN  \A c \in r.first..r.last :
          \E v \in r.since[c]..got[p][i].until[c] : d[c] = <<r.on, c, v>>

(***************************************************************************)
(* An element is on its way only to a buffer that still exists, or to one  *)
(* of a PE that is unwinding from the drop of that very read: the PE goes  *)
(* on to drop its boxes and its context, and the library writes to freed   *)
(* memory (src/src/nbi.rs:57-71).  No PE that runs on is in that state, if *)
(* a panic ends the PE: one that is caught, by catch_unwind or because     *)
(* only a test thread panics, would leave the PE running in it, and is not *)
(* modelled.                                                               *)
(***************************************************************************)
TargetsExist ==
  \A m \in flight : buf[m[1]][m[2]] = Nothing => pc[m[1]] = "panicked"

(***************************************************************************)
(* "will panic if dropped without being passed to ShmemCtx::quiet"         *)
(* (src/src/nbi.rs:9): a program that comes to its end has had the result  *)
(* of every read it began.                                                 *)
(***************************************************************************)
NoReadForgotten ==
  \A p \in PE, i \in Id :
    read[p][i] # Nothing /\ pc[p] = "end" => got[p][i] # Nothing

(***************************************************************************)
(* quiet returns to its caller, and does not panic, whatever reads other   *)
(* PEs begin (src/src/lib.rs:404-413).                                     *)
(***************************************************************************)
QuietReturns == \A p \in PE : pc[p] = "quiet" ~> pc[p] = "run"
=============================================================================
