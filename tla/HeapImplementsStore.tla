------------------------- MODULE HeapImplementsStore -------------------------
(***************************************************************************)
(* SymmetricHeap implements ObjectStore: an object is found behind the     *)
(* address that the box holds, and only as long as it is constructed.      *)
(***************************************************************************)
EXTENDS SymmetricHeap

CONSTANT Absent  \* ObjectStore's value of a copy that does not exist

ASSUME AbsentAssumption == Absent \notin Nat

Value ==
  [p \in PE |-> [b \in Box |-> IF Constructed(p, b) THEN mem[p][addr[p][b]] ELSE Absent]]

Holders == [b \in Box |-> {p \in PE : Holds(p, b)}]

Store == INSTANCE ObjectStore WITH value <- Value, holders <- Holders

(***************************************************************************)
(* Every step of the heap is a step of the object store or none: for       *)
(* programs that share a box only after one more collective call, reuse of *)
(* chunks, late stores of first values and updates in flight are never     *)
(* seen (shmalloc.rs:34-45, 135-139, and the remote atomics).              *)
(***************************************************************************)
ImplementsStore == Store!Spec

=============================================================================
