----------------------------- MODULE MCArrayView -----------------------------
(* Instances of ArrayView for TLC: the ranges that the programs use.         *)
EXTENDS ArrayView, TLC

\* Ranges with a bounded end inside the array that start at 0 or 1, as in
\* examples/pass_the_port.rs:35 and examples/hello_world.rs:43.
SafeRanges ==
  {UpTo(Len - 1), HalfOpen(1, Len), Closed(1, Len - 1), HalfOpen(1, Len - 1)}

\* Ranges that panic: past the end, or empty.
PanickingRanges == {HalfOpen(0, Len + 2), HalfOpen(0, 0), HalfOpen(1, 1)}

ExampleRanges == SafeRanges \cup PanickingRanges

\* examples/hello_world.rs:36 writes the upper half.
UpperHalf == {HalfOpen(Len \div 2, Len)}

Symmetry == Permutations(PE)

=============================================================================
