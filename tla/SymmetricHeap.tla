---------------------------- MODULE SymmetricHeap ----------------------------
(***************************************************************************)
(* The symmetric heap of openshmem_rs: `Shmallocator` and `Shbox`          *)
(* (src/src/shmalloc.rs), `ShmemCtx::barrier_all` and the context's drop   *)
(* (src/src/lib.rs) and the remote updates made through a Shbox            *)
(* (src/src/atomics.rs), run by a set of PEs.                              *)
(*                                                                         *)
(* Every PE runs the same sequence of collective calls (an SPMD program)   *)
(* and, in between, updates the copies that other PEs have of the boxes it *)
(* owns.  A PE only ever passes its OWN address of a box to the library,   *)
(* which applies the update at that address of the target PE: nothing in   *)
(* the crate checks that the target has the same object there.             *)
(*                                                                         *)
(* The OpenSHMEM library is external.  What the crate relies on:           *)
(*   - every collective call holds exactly one barrier: shmem_align and    *)
(*     shmem_calloc on exit (examples/hello_world.rs:18), shmem_free on    *)
(*     entry, shmem_barrier_all and shmem_finalize throughout;             *)
(*   - that barrier first completes the caller's outstanding updates;      *)
(*   - the allocator of a PE is a function of the state of its heap.       *)
(***************************************************************************)
EXTENDS Naturals, Sequences

CONSTANTS
  PE,         \* the processing elements
  Box,        \* one name for each Shbox construction of the program
  Slot,       \* the places of a symmetric heap, each fit for one object
  None,       \* an empty slot, and the null pointer
  Programs,   \* the sequences of collective calls the PEs may run
  Fenced,     \* TRUE: a box is shared only after one more collective call
  MaxUpdates  \* bound: the remote updates one PE issues

Alloc(b) == [kind |-> "alloc", box |-> b]
Free(b) == [kind |-> "free", box |-> b]
BarrierAll == [kind |-> "barrier", box |-> None]
Finalize == [kind |-> "finalize", box |-> None]

Op == {Alloc(b) : b \in Box} \cup {Free(b) : b \in Box} \cup {BarrierAll, Finalize}

(***************************************************************************)
(* What Rust's ownership rules leave of the sequences of calls: a Shbox is *)
(* constructed once, dropped at most once and after its construction, and  *)
(* the context, which every Shbox borrows, is dropped last.                *)
(***************************************************************************)
WellFormed(s) ==
  /\ s \in Seq(Op)
  /\ Len(s) > 0
  /\ \A i \in 1..Len(s) : s[i] = Finalize <=> i = Len(s)
  /\ \A i, j \in 1..Len(s) : s[i] = s[j] /\ s[i] # BarrierAll => i = j
  /\ \A b \in Box : \A j \in 1..Len(s) : s[j] = Free(b) => \E i \in 1..j - 1 : s[i] = Alloc(b)

ASSUME NoneAssumption == None \notin Box /\ None \notin Slot
ASSUME ProgramsAssumption == \A s \in Programs : WellFormed(s)
ASSUME FencedAssumption == Fenced \in BOOLEAN
ASSUME MaxUpdatesAssumption == MaxUpdates \in Nat

VARIABLES
  script,    \* script[p]: the collective calls p makes
  at,        \* at[p]: the index in script[p] of the call p makes now or next
  pc,        \* where p is in that call
  heap,      \* heap[p][s]: the box whose object p's slot s holds, or None
  addr,      \* addr[p][b]: the pointer in p's Shbox b
  owned,     \* owned[p]: the Shboxes that are live in p's program
  mem,       \* mem[p][s]: the contents of p's slot s
  inflight,  \* remote updates issued and not yet applied
  issued,    \* issued[p]: the number of updates p has issued
  applied    \* applied[p][b]: history, the updates of p's copy of b that arrived

vars == <<script, at, pc, heap, addr, owned, mem, inflight, issued, applied>>

-----------------------------------------------------------------------------

(***************************************************************************)
(* "run"      p is in its program, between two collective calls            *)
(* "quiet"    in a call, before its barrier: p's updates are completing    *)
(* "barrier"  in a call, waiting at its barrier                            *)
(* "init"     back from shmem_align, before the value is stored            *)
(* "free"     past the barrier of shmem_free, before the slot is released  *)
(* "end"      the context is finalized                                     *)
(* "aborted"  the allocation failed, and alloc's error handler ended p     *)
(***************************************************************************)
Stage == {"run", "quiet", "barrier", "init", "free", "end", "aborted"}

Update == [src : PE, dst : PE, box : Box, to : Slot \cup {None}, epoch : Nat, n : Nat]

TypeOK ==
  /\ script \in [PE -> Seq(Op)]
  /\ at \in [PE -> Nat]
  /\ \A p \in PE : at[p] \in 1..Len(script[p])
  /\ pc \in [PE -> Stage]
  /\ heap \in [PE -> [Slot -> Box \cup {None}]]
  /\ addr \in [PE -> [Box -> Slot \cup {None}]]
  /\ owned \in [PE -> SUBSET Box]
  /\ mem \in [PE -> [Slot -> Nat]]
  /\ inflight \subseteq Update
  /\ issued \in [PE -> Nat]
  /\ applied \in [PE -> [Box -> Nat]]

Init ==
  /\ \E s \in Programs : script = [p \in PE |-> s]
  /\ at = [p \in PE |-> 1]
  /\ pc = [p \in PE |-> "run"]
  /\ heap = [p \in PE |-> [s \in Slot |-> None]]
  /\ addr = [p \in PE |-> [b \in Box |-> None]]
  /\ owned = [p \in PE |-> {}]
  /\ mem = [p \in PE |-> [s \in Slot |-> 0]]
  /\ inflight = {}
  /\ issued = [p \in PE |-> 0]
  /\ applied = [p \in PE |-> [b \in Box |-> 0]]

-----------------------------------------------------------------------------

Cur(p) == script[p][at[p]]

\* Mutant of Arrived: a PE that the error handler ended is not counted.
ArrivedAlive(p) == IF pc[p] \in {"run", "quiet", "aborted"} THEN at[p] - 1 ELSE at[p]

\* The barriers p has reached and the barriers p has left.
Arrived(p) == IF pc[p] \in {"run", "quiet"} THEN at[p] - 1 ELSE at[p]
Left(p) == IF pc[p] \in {"run", "quiet", "barrier"} THEN at[p] - 1 ELSE at[p]

\* Where an allocation lands in heap h: any function of h will do, and None
\* stands for the null pointer of an exhausted heap.
Place(h) ==
  IF \E s \in Slot : h[s] = None THEN CHOOSE s \in Slot : h[s] = None ELSE None

\* p has completed a further collective call since it constructed b, so that
\* every PE has stored b's first value.
Published(p, b) ==
  \E i \in 1..Len(script[p]) : script[p][i] = Alloc(b) /\ i + 1 < at[p]

-----------------------------------------------------------------------------

\* p's memory with slot t zeroed.
Zeroed(p, t) == [mem EXCEPT ![p] = [s \in Slot |-> IF s = t THEN 0 ELSE mem[p][s]]]

(***************************************************************************)
(* Shmallocator::shbox, array, array_default and array_gen call the        *)
(* allocator first.  shmem_align (shbox) leaves in the chunk what an       *)
(* earlier object left there, shmem_calloc (the arrays) zeroes it.         *)
(***************************************************************************)
EnterAlloc(p) ==
  /\ pc[p] = "run"
  /\ \E b \in Box :
       /\ Cur(p) = Alloc(b)
       /\ addr' = [addr EXCEPT ![p][b] = Place(heap[p])]
       /\ heap' = IF Place(heap[p]) = None THEN heap
                  ELSE [heap EXCEPT ![p][Place(heap[p])] = b]
  /\ mem' \in {mem, Zeroed(p, Place(heap[p]))}
  /\ pc' = [pc EXCEPT ![p] = "quiet"]
  /\ UNCHANGED <<script, at, owned, inflight, issued, applied>>

(***************************************************************************)
(* Drop of a Shbox: its handle is gone, and Allocator::deallocate calls    *)
(* shmem_free.                                                             *)
(***************************************************************************)
EnterFree(p) ==
  /\ pc[p] = "run"
  /\ \E b \in owned[p] :
       /\ Cur(p) = Free(b)
       /\ owned' = [owned EXCEPT ![p] = @ \ {b}]
  /\ pc' = [pc EXCEPT ![p] = "quiet"]
  /\ UNCHANGED <<script, at, heap, addr, mem, inflight, issued, applied>>

\* ShmemCtx::barrier_all.
EnterBarrierAll(p) ==
  /\ pc[p] = "run"
  /\ Cur(p) = BarrierAll
  /\ pc' = [pc EXCEPT ![p] = "quiet"]
  /\ UNCHANGED <<script, at, heap, addr, owned, mem, inflight, issued, applied>>

\* Drop of the ShmemCtx: shmem_finalize.
EnterFinalize(p) ==
  /\ pc[p] = "run"
  /\ Cur(p) = Finalize
  /\ pc' = [pc EXCEPT ![p] = "quiet"]
  /\ UNCHANGED <<script, at, heap, addr, owned, mem, inflight, issued, applied>>

\* Mutant of Arrive: the barrier does not complete p's updates first.
ArriveUndrained(p) ==
  /\ pc[p] = "quiet"
  /\ pc' = [pc EXCEPT ![p] = "barrier"]
  /\ UNCHANGED <<script, at, heap, addr, owned, mem, inflight, issued, applied>>

\* The library reaches the barrier of p's call once p's updates are complete.
Arrive(p) ==
  /\ pc[p] = "quiet"
  /\ \A m \in inflight : m.src # p
  /\ pc' = [pc EXCEPT ![p] = "barrier"]
  /\ UNCHANGED <<script, at, heap, addr, owned, mem, inflight, issued, applied>>

\* Go to stage t of the same call, or on to the next call.
GoTo(p, t) == pc' = [pc EXCEPT ![p] = t] /\ UNCHANGED at
GoOn(p) == pc' = [pc EXCEPT ![p] = "run"] /\ at' = [at EXCEPT ![p] = @ + 1]

\* Mutants of Return: alloc does not check for null; the context outlives finalize.
ReturnUnchecked(p) ==
  \/ (\E b \in Box : Cur(p) = Alloc(b)) /\ GoTo(p, "init")
  \/ (\E b \in Box : Cur(p) = Free(b)) /\ GoTo(p, "free")
  \/ Cur(p) = BarrierAll /\ GoOn(p)
  \/ Cur(p) = Finalize /\ GoTo(p, "end")
ReturnFinalized(p) ==
  \/ \E b \in Box :
       Cur(p) = Alloc(b) /\ GoTo(p, IF addr[p][b] = None THEN "aborted" ELSE "init")
  \/ (\E b \in Box : Cur(p) = Free(b)) /\ GoTo(p, "free")
  \/ Cur(p) \in {BarrierAll, Finalize} /\ GoOn(p)

(***************************************************************************)
(* What is left of a call past its barrier: shmem_align returns a pointer, *)
(* and a null one aborts p; shmem_free goes on to release the chunk;       *)
(* barrier_all and shmem_finalize return.                                  *)
(***************************************************************************)
Return(p) ==
  \/ \E b \in Box :
       Cur(p) = Alloc(b) /\ GoTo(p, IF addr[p][b] = None THEN "aborted" ELSE "init")
  \/ (\E b \in Box : Cur(p) = Free(b)) /\ GoTo(p, "free")
  \/ Cur(p) = BarrierAll /\ GoOn(p)
  \/ Cur(p) = Finalize /\ GoTo(p, "end")

\* Mutants of Leave: no wait for the others; a wait for one barrier too many.
LeaveEarly(p) ==
  /\ pc[p] = "barrier"
  /\ Return(p)
  /\ UNCHANGED <<script, heap, addr, owned, mem, inflight, issued, applied>>
LeaveLate(p) ==
  /\ pc[p] = "barrier"
  /\ \A q \in PE : Arrived(q) > at[p]
  /\ Return(p)
  /\ UNCHANGED <<script, heap, addr, owned, mem, inflight, issued, applied>>

\* p leaves the barrier of its call when every PE has reached it.
Leave(p) ==
  /\ pc[p] = "barrier"
  /\ \A q \in PE : Arrived(q) >= at[p]
  /\ Return(p)
  /\ UNCHANGED <<script, heap, addr, owned, mem, inflight, issued, applied>>

\* Mutant of StoreInitial: the chunk keeps what an earlier box left in it.
StoreNothing(p) ==
  /\ pc[p] = "init"
  /\ \E b \in Box : Cur(p) = Alloc(b) /\ owned' = [owned EXCEPT ![p] = @ \cup {b}]
  /\ GoOn(p)
  /\ UNCHANGED <<script, heap, addr, mem, inflight, issued, applied>>

(***************************************************************************)
(* Box::new_in stores the value, and the array constructors fill the       *)
(* slice, AFTER the allocator's barrier: another PE may already be using   *)
(* the copy of p.                                                          *)
(***************************************************************************)
StoreInitial(p) ==
  /\ pc[p] = "init"
  /\ \E b \in Box :
       /\ Cur(p) = Alloc(b)
       /\ mem' = [mem EXCEPT ![p][addr[p][b]] = 0]
       /\ owned' = [owned EXCEPT ![p] = @ \cup {b}]
  /\ GoOn(p)
  /\ UNCHANGED <<script, heap, addr, inflight, issued, applied>>

\* The end of shmem_free: the slot goes back to p's allocator.
Release(p) ==
  /\ pc[p] = "free"
  /\ \E b \in Box :
       /\ Cur(p) = Free(b)
       /\ heap' = [heap EXCEPT ![p][addr[p][b]] = None]
  /\ GoOn(p)
  /\ UNCHANGED <<script, addr, owned, mem, inflight, issued, applied>>

(***************************************************************************)
(* A non-fetching update of q's copy of b (Shbox::atomic_inc), of which    *)
(* the call returns before it is applied.                                  *)
(***************************************************************************)
AtomicInc(p, q, b) ==
  /\ pc[p] = "run"
  /\ b \in owned[p]
  /\ Fenced => Published(p, b)
  /\ issued[p] < MaxUpdates
  /\ inflight' = inflight \cup {[src |-> p, dst |-> q, box |-> b, to |-> addr[p][b],
                                 epoch |-> at[p], n |-> issued[p]]}
  /\ issued' = [issued EXCEPT ![p] = @ + 1]
  /\ UNCHANGED <<script, at, pc, heap, addr, owned, mem, applied>>

\* The update reaches its target, in any order with the others.
Deliver(m) ==
  /\ mem' = [mem EXCEPT ![m.dst][m.to] = @ + 1]
  /\ applied' = [applied EXCEPT ![m.dst][m.box] = @ + 1]
  /\ inflight' = inflight \ {m}
  /\ UNCHANGED <<script, at, pc, heap, addr, owned, issued>>

-----------------------------------------------------------------------------

Call(p) ==
  \/ EnterAlloc(p)
  \/ EnterFree(p)
  \/ EnterBarrierAll(p)
  \/ EnterFinalize(p)
  \/ Arrive(p)
  \/ Leave(p)
  \/ StoreInitial(p)
  \/ Release(p)

DeliverFrom(p) == \E m \in inflight : m.src = p /\ Deliver(m)

\* Not a step of the program: all PEs have stopped.
Stopped(p) == pc[p] \in {"end", "aborted"}
Done == (\A p \in PE : Stopped(p)) /\ UNCHANGED vars

Next ==
  \/ \E p \in PE : Call(p)
  \/ \E p, q \in PE : \E b \in Box : AtomicInc(p, q, b)
  \/ \E p \in PE : DeliverFrom(p)
  \/ Done

Spec == Init /\ [][Next]_vars

\* A PE that can take its next step takes it, and the network delivers.
Fairness == \A p \in PE : WF_vars(Call(p)) /\ WF_vars(DeliverFrom(p))

FairSpec == Spec /\ Fairness

-----------------------------------------------------------------------------

\* p still answers for box b: it owns it, or is completing its updates in the
\* call that drops it.
Holds(p, b) == b \in owned[p] \/ (pc[p] = "quiet" /\ Cur(p) = Free(b))

\* p's copy of b holds a value: from the store of the first one to the
\* release of its slot.
Constructed(p, b) ==
  b \in owned[p] \/ (pc[p] \in {"quiet", "barrier", "free"} /\ Cur(p) = Free(b))

(***************************************************************************)
(* A Shbox names the same object on every PE.  The address p keeps in it   *)
(* is, on every other PE, the address of that PE's copy of the same box,   *)
(* for as long as p can use it: `raw_ptr()` is what the crate passes to    *)
(* every remote operation (src/src/macros.rs:184-234).                     *)
(***************************************************************************)
SymmetricBox ==
  \A p, q \in PE : \A b \in Box : Holds(p, b) => heap[q][addr[p][b]] = b

(***************************************************************************)
(* No update lands in another object: while an update of a box is on its   *)
(* way, its target holds that box at that address, although the box may be *)
(* dropped and its slot reused soon after (shmalloc.rs:43-45).             *)
(***************************************************************************)
NoStrayUpdate == \A m \in inflight : m.to # None /\ heap[m.dst][m.to] = m.box

(***************************************************************************)
(* No update is lost or invented: an initialized copy of a box holds the   *)
(* number of updates that reached it.  What could break it is the store of *)
(* the first value, which comes after the allocator's barrier              *)
(* (shmalloc.rs:135-139).                                                  *)
(***************************************************************************)
NoLostUpdate ==
  \A q \in PE : \A b \in owned[q] : mem[q][addr[q][b]] = applied[q][b]

(***************************************************************************)
(* A barrier flushes: when a PE has left it, every update issued before    *)
(* its issuer entered the call has been applied.  examples/atomic.rs:19-23 *)
(* counts on it to read the final count.                                   *)
(***************************************************************************)
BarrierFlushes == \A m \in inflight : \A p \in PE : Left(p) < m.epoch

(***************************************************************************)
(* Memory runs out on all PEs or on none: when the allocation of one PE    *)
(* fails (shmalloc.rs:35-41, and Box::new_in then aborts), no other PE     *)
(* goes on with that box.                                                  *)
(***************************************************************************)
UnanimousOutOfMemory ==
  \A p, q \in PE :
    pc[p] = "aborted" => at[q] = at[p] /\ pc[q] \in {"barrier", "aborted"}

\* p's next step is there to take: nothing it waits for is missing.
CanGo(p) ==
  \/ pc[p] = "run" /\ \A b \in Box : Cur(p) = Free(b) => b \in owned[p]
  \/ pc[p] = "quiet" /\ \A m \in inflight : m.src # p
  \/ pc[p] = "barrier" /\ \A q \in PE : Arrived(q) >= at[p]
  \/ pc[p] \in {"init", "free"}

(***************************************************************************)
(* The PEs never all wait for each other: whichever of them are inside     *)
(* which call, and when memory runs out, which leaves nobody at a barrier  *)
(* that an aborted PE will not reach (src/src/shmalloc.rs:28-47).          *)
(***************************************************************************)
NeverStuck ==
  \/ \A p \in PE : Stopped(p)
  \/ inflight # {}
  \/ \E p \in PE : CanGo(p)

(***************************************************************************)
(* Every run of the program ends: no collective call waits for ever.       *)
(***************************************************************************)
Termination == <>(\A p \in PE : Stopped(p))

=============================================================================
