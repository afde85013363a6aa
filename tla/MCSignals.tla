------------------------------ MODULE MCSignals ------------------------------
(* Instances of Signals for TLC.                                             *)
EXTENDS Signals

\* One element in all rounds but the last.
GrowingSlice == [r \in 1..Rounds |-> IF r = Rounds THEN Size ELSE 1]

\* A wait of each variant, for one flag or more, and for the first or the last round.
EachWait ==
  {[variant |-> "until", op |-> "NotEqual", x |-> 0, of |-> K - 1],
   [variant |-> "all", op |-> "GreaterEqual", x |-> 1, of |-> 0],
   [variant |-> "some", op |-> "Greater", x |-> Rounds - 1, of |-> K - 1],
   [variant |-> "any", op |-> "Equal", x |-> Rounds, of |-> 0]}

\* The first sender issues two atomics, the others one each.
FewOps == [s \in Sender |-> IF s = 0 THEN 2 ELSE 1]

=============================================================================
