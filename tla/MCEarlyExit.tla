----------------------------- MODULE MCEarlyExit -----------------------------
(* The program of examples/mandlebrot.rs for TLC: construct `rows`, three    *)
(* barriers, drop.  Between the last two the root PE creates its output file *)
(* and may fail to (mandlebrot.rs:61).                                       *)
EXTENDS EarlyExit

CONSTANT rows

ExamplePrograms ==
  {<<Alloc(rows), BarrierAll, BarrierAll, BarrierAll, Free(rows), Finalize>>}

=============================================================================
