------------------------------ MODULE EarlyExit ------------------------------
(***************************************************************************)
(* SymmetricHeap with PEs that leave main early: `?` returns an error, or  *)
(* a PE panics and unwinds, between two collective calls                   *)
(* (examples/mandlebrot.rs:61, examples/reduction.rs:13-14,                *)
(* shmalloc.rs:111, 232-234).  The locals of main are dropped in reverse   *)
(* order of their construction and the context last, each with the         *)
(* collective call its Drop makes; the other PEs know nothing of it.       *)
(***************************************************************************)
EXTENDS SymmetricHeap, SequencesExt

CONSTANTS
  Quitters,  \* the PEs whose part of the program can fail
  QuitAt     \* the calls before which it can fail, by their indices

\* The calls that unwinding makes after n calls of p, to drop boxes and context.
Unwind(p, n, boxes) ==
  LET made == SubSeq(script[p], 1, n)
      live == SelectSeq(made, LAMBDA c : \E b \in boxes : c = Alloc(b))
  IN  made \o [i \in 1..Len(live) |-> Free(Reverse(live)[i].box)] \o <<Finalize>>

\* p returns from main, or unwinds out of it, at a point of its own.
ExitEarly(p) ==
  /\ pc[p] = "run"
  /\ at[p] \in QuitAt
  /\ script' = [script EXCEPT ![p] = Unwind(p, at[p] - 1, owned[p])]
  /\ UNCHANGED <<at, pc, heap, addr, owned, mem, inflight, issued, applied>>

\* The closure of array_gen panics: the slice is dropped half filled.
PanicInGen(p) ==
  /\ pc[p] = "init"
  /\ at[p] \in QuitAt
  /\ \E b \in Box :
       /\ Cur(p) = Alloc(b)
       /\ owned' = [owned EXCEPT ![p] = @ \cup {b}]
       /\ script' = [script EXCEPT ![p] = Unwind(p, at[p], owned'[p])]
  /\ GoOn(p)
  /\ UNCHANGED <<heap, addr, mem, inflight, issued, applied>>

ExitNext == Next \/ \E p \in Quitters : ExitEarly(p) \/ PanicInGen(p)

ExitSpec == Init /\ [][ExitNext]_vars

-----------------------------------------------------------------------------

(***************************************************************************)
(* "Wait until ALL PEs reach this point" (lib.rs:366): PEs that wait for   *)
(* each other in a collective call have made the same call, so that a      *)
(* barrier_all is never answered by another PE's drop of a Shbox.          *)
(***************************************************************************)
MatchedCollectives ==
  \A p, q \in PE :
    pc[p] = "barrier" /\ pc[q] = "barrier" /\ at[p] = at[q] => Cur(p) = Cur(q)

=============================================================================
