------------------------------- MODULE Collect -------------------------------
(***************************************************************************)
(* ShmemCtx::collect (src/src/lib.rs:415-438): every PE hands in its part  *)
(* `from` of a distributed array and is promised the whole of it.          *)
(*                                                                         *)
(* The parts have the same length, as the parts of a Shbox have.  The call *)
(* is four collective calls in a row: the barrier in shbox(), the sum of   *)
(* the lengths, shmem_collectmem, and the barrier of the Drop of the Shbox *)
(* that holds the sum.  buf, the target, is on the heap of the process.    *)
(*                                                                         *)
(* External: shmem_collectmem(team, dest, source, nbytes) concatenates in  *)
(* dest the first nbytes of source of each PE, in PE order: nbytes is the  *)
(* size of the caller's own part.  Sizes are in elements here.             *)
(***************************************************************************)
EXTENDS Integers, Sequences

CONSTANTS
  N,    \* the number of PEs
  Len0  \* the length of `from`

PE == 0..N - 1

VARIABLES
  pc,     \* pc[p]: the next step of p in collect
  temp,   \* temp[p]: p's total_buffer_size, a Shbox<usize>
  given,  \* given[p]: the length p passes to shmem_collectmem, 0 before
  buf     \* buf[p]: [cap |-> the elements allocated, got |-> those stored]

vars == <<pc, temp, given, buf>>

\* What memory holds behind the end of `from`.
Other == "other"

\* Element i of the part of p.
Cell(p, i) == IF i < Len0 THEN <<p, i>> ELSE Other

\* The first n cells from the start of each part, in PE order.
Concatenation(n) ==
  [j \in 1..N * n |-> Cell((j - 1) \div n, (j - 1) % n)]

Init ==
  /\ pc = [p \in PE |-> "shbox"]
  /\ temp = [p \in PE |-> 0]
  /\ given = [p \in PE |-> 0]
  /\ buf = [p \in PE |-> [cap |-> 0, got |-> <<>>]]

Goes(p, from, to) == pc[p] = from /\ pc' = [pc EXCEPT ![p] = to]

\* Every PE is at the collective call `here`, or past it: the order of steps.
Order == <<"shbox", "store", "sum", "new", "collect", "free", "returned">>
Rank(step) == CHOOSE i \in DOMAIN Order : Order[i] = step
AllAt(here) == \A q \in PE : Rank(pc[q]) >= Rank(here)

\* shm.shbox(from.len()): the symmetric allocation, then the value.
Shbox(p) ==
  /\ Goes(p, "shbox", "store") /\ AllAt("shbox")
  /\ UNCHANGED <<temp, given, buf>>

StoreLen(p) ==
  /\ Goes(p, "store", "sum")
  /\ temp' = [temp EXCEPT ![p] = Len0]
  /\ UNCHANGED <<given, buf>>

\* total_buffer_size.reduce_sum: each PE's own copy holds its length until then.
ReduceSum(p) ==
  /\ Goes(p, "sum", "new") /\ AllAt("sum")
  /\ temp' = [temp EXCEPT ![p] = N * Len0]
  /\ UNCHANGED <<given, buf>>

\* Box::new_uninit_slice, then the call of shmem_collectmem.
EnterCollect(p) ==
  /\ Goes(p, "new", "collect")
  /\ buf' = [buf EXCEPT ![p].cap = temp[p]]
  /\ given' = [given EXCEPT ![p] = temp[p]]
  /\ UNCHANGED temp

\* shmem_collectmem, whose target takes what all PEs give.
Collectmem(p) ==
  /\ Goes(p, "collect", "free") /\ AllAt("collect")
  /\ buf' = [buf EXCEPT ![p].got = Concatenation(given[p])]
  /\ UNCHANGED <<temp, given>>

\* total_buffer_size is dropped, and buf returned.
Return(p) ==
  /\ Goes(p, "free", "returned") /\ AllAt("free")
  /\ UNCHANGED <<temp, given, buf>>

Next ==
  \E p \in PE :
    Shbox(p) \/ StoreLen(p) \/ ReduceSum(p) \/ EnterCollect(p) \/ Collectmem(p) \/ Return(p)

Spec == Init /\ [][Next]_vars

-----------------------------------------------------------------------------

(***************************************************************************)
(* What collect returns has every element of every part of `from`, in PE   *)
(* order, and nothing else; and no more than fits was stored in it         *)
(* (src/src/lib.rs:415-416, 425-426).                                      *)
(***************************************************************************)
CollectsEverything ==
  \A p \in PE : pc[p] = "returned" =>
    /\ buf[p].got = Concatenation(Len0)
    /\ Len(buf[p].got) <= buf[p].cap

=============================================================================
