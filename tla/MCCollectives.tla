---------------------------- MODULE MCCollectives ----------------------------
(* Instances of Collectives for TLC.                                         *)
EXTENDS Collectives, SequencesExt

CONSTANT MaxCalls  \* bound: the calls of a program

\* Every reduction after every other, as fast as possible, with the array assigned in between.
BackToBack == {<<o, "assign", o2>> : o, o2 \in Op} \cup {<<o, o2>> : o, o2 \in Op}

\* Every program with one kind of reduction.
WithSums == {s \in BoundedSeq({"sum", "assign", "put", "barrier"}, MaxCalls) : Separated(s)}

ExamplePrograms == BackToBack \cup WithSums

=============================================================================
