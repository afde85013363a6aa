-------------------------- MODULE MCSymmetricHeap --------------------------
(* Instances of SymmetricHeap for TLC: every program over a few boxes.     *)
EXTENDS HeapImplementsStore, SequencesExt

CONSTANTS MaxCalls  \* bound: the collective calls of a program, finalize included

\* All programs of at most MaxCalls calls, the last of which is finalize.
AllPrograms ==
  {s \in {Append(t, Finalize) : t \in BoundedSeq(Op \ {Finalize}, MaxCalls - 1)} :
     WellFormed(s)}

\* examples/estimate-pi.rs: construct `hit`, count, barrier, read, drop.
EstimatePi == {<<Alloc(b), BarrierAll, Free(b), Finalize>> : b \in Box}

=============================================================================
