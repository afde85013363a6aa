-------------------------------- MODULE Words --------------------------------
(***************************************************************************)
(* Machine words as numbers and as sets of bits: the values that the       *)
(* atomics of src/src/atomics.rs and the reductions of src/src/reduce.rs   *)
(* combine with and, or and xor.                                           *)
(***************************************************************************)
EXTENDS Integers, Functions

Pow2[j \in Nat] == IF j = 0 THEN 1 ELSE 2 * Pow2[j - 1]

\* The bit of v at the position j.
Bit(v, j) == (v \div Pow2[j]) % 2

\* The number the ones of which are at the positions S.
Number(S) == SumFunction([j \in S |-> Pow2[j]])

\* The product of the values of f (SumFunction is their sum).
Product(f) == FoldFunction(LAMBDA a, b : a * b, 1, f)

=============================================================================
