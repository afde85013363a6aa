----------------------------- MODULE ObjectStore -----------------------------
(***************************************************************************)
(* What the symmetric heap promises to a program that never looks at an    *)
(* address: every PE has its own copy of every box.  A box may be updated  *)
(* only while every PE has its copy and some PE still holds the box, and a *)
(* copy goes away only when nobody holds the box any more.  There are no   *)
(* addresses, no chunks that are reused and no barriers here:              *)
(* SymmetricHeap has to provide this with them.                            *)
(***************************************************************************)
EXTENDS Naturals

CONSTANTS
  PE,      \* the processing elements
  Box,     \* the boxes of the program
  Absent   \* the value of a copy that does not exist, no number

VARIABLES
  value,    \* value[p][b]: the value of p's copy of b, or Absent
  holders   \* holders[b]: the PEs that can still update b

vars == <<value, holders>>

Init ==
  /\ value = [p \in PE |-> [b \in Box |-> Absent]]
  /\ holders = [b \in Box |-> {}]

\* p constructs its copy of b.
Construct(p, b) ==
  /\ value[p][b] = Absent
  /\ value' = [value EXCEPT ![p][b] = 0]
  /\ holders' = [holders EXCEPT ![b] = @ \cup {p}]

\* An update of b reaches the copy of p.
Update(p, b) ==
  /\ holders[b] # {}
  /\ \A q \in PE : value[q][b] # Absent
  /\ value' = [value EXCEPT ![p][b] = @ + 1]
  /\ UNCHANGED holders

\* p gives b up.
Drop(p, b) ==
  /\ p \in holders[b]
  /\ holders' = [holders EXCEPT ![b] = @ \ {p}]
  /\ UNCHANGED value

\* p's copy of b goes away.
Retire(p, b) ==
  /\ value[p][b] # Absent
  /\ holders[b] = {}
  /\ value' = [value EXCEPT ![p][b] = Absent]
  /\ UNCHANGED holders

Next ==
  \E p \in PE, b \in Box :
    Construct(p, b) \/ Update(p, b) \/ Drop(p, b) \/ Retire(p, b)

Spec == Init /\ [][Next]_vars

=============================================================================
