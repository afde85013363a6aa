----------------------------- MODULE RangeBounds -----------------------------
(***************************************************************************)
(* apply_range_bounds (shmalloc.rs:221-236): what the crate makes of a     *)
(* Rust range over the array of a Shbox, for reads, views and the drop of  *)
(* a view.  Its result is a pair of INCLUSIVE indices.                     *)
(*                                                                         *)
(* A range is a pair of bounds.  Arithmetic on usize is checked or wraps:  *)
(* the `x - 1` of an excluded end 0 panics at once, or wraps to usize::MAX *)
(* and fails the next check, so that it panics in every build.             *)
(***************************************************************************)
EXTENDS Integers

Included(x) == [kind |-> "included", at |-> x]
Excluded(x) == [kind |-> "excluded", at |-> x]
Unbounded == [kind |-> "unbounded", at |-> 0]

Bounds(lo, hi) == [start |-> lo, end |-> hi]
HalfOpen(a, b) == Bounds(Included(a), Excluded(b))     \* a..b
Closed(a, b) == Bounds(Included(a), Included(b))       \* a..=b
Full == Bounds(Unbounded, Unbounded)                   \* ..
From(a) == Bounds(Included(a), Unbounded)              \* a..
UpTo(b) == Bounds(Unbounded, Excluded(b))              \* ..b

-----------------------------------------------------------------------------

\* Mutant of EndOf: an excluded end is taken for an inclusive one.
EndExcluded(r, n) ==
  CASE r.end.kind = "included"  -> r.end.at
    [] r.end.kind = "excluded"  -> r.end.at
    [] r.end.kind = "unbounded" -> n

EndOf(r, n) ==
  CASE r.end.kind = "included"  -> r.end.at
    [] r.end.kind = "excluded"  -> r.end.at - 1
    [] r.end.kind = "unbounded" -> n

StartOf(r) ==
  CASE r.start.kind = "included"  -> r.start.at
    [] r.start.kind = "excluded"  -> r.start.at + 1
    [] r.start.kind = "unbounded" -> 0

\* Mutant of Panics: start and end are not compared.
PanicsUnordered(r, n) ==
  \/ r.end = Excluded(0)
  \/ EndOf(r, n) > n
  \/ StartOf(r) > n

\* The three panics, and the underflow of an excluded end 0.
Panics(r, n) ==
  \/ r.end = Excluded(0)
  \/ EndOf(r, n) > n
  \/ StartOf(r) > n
  \/ StartOf(r) > EndOf(r, n)

\* The number of elements that the callers of apply_range_bounds move.
Count(r, n) == EndOf(r, n) - StartOf(r) + 1

-----------------------------------------------------------------------------

\* What the range means in Rust: the elements of an array of n that it denotes.
After(lo, i) == lo.kind = "unbounded" \/ lo.at < i \/ (lo.kind = "included" /\ lo.at = i)
Before(hi, i) == hi.kind = "unbounded" \/ i < hi.at \/ (hi.kind = "included" /\ hi.at = i)
Denotes(r, n) == {i \in 0..n - 1 : After(r.start, i) /\ Before(r.end, i)}

=============================================================================
