-------------------------------- MODULE MCNbi --------------------------------
(* An instance of Nbi for TLC.                                               *)
EXTENDS Nbi

\* Ranges inside the array, and an empty one, which panics.
ReadRanges == {Closed(0, Len - 1), HalfOpen(0, 0)}
=============================================================================
