------------------------------- MODULE Shmlock -------------------------------
(***************************************************************************)
(* The distributed lock of openshmem_rs (src/src/shmutex.rs), from its     *)
(* collective construction to its collective drop.  Where                  *)
(* examples/lock.rs prints under the lock, once, each PE here takes it up  *)
(* to Rounds times, and updates a shared counter with a read and a         *)
(* write_from under the guard.                                             *)
(*                                                                         *)
(* shmem_set_lock and shmem_clear_lock are external.  What the crate       *)
(* relies on: the PEs that pass the same symmetric address contend for one *)
(* word, kept in the copy of one of them (Home); a word of 0 is a free     *)
(* lock, so somebody has to have stored a 0 there before; and clear_lock   *)
(* completes the caller's puts before it frees the word.                   *)
(***************************************************************************)
EXTENDS Naturals

CONSTANTS
  PE,        \* the processing elements
  Home,      \* the PE whose copy of the lock word is used
  Unlocked,  \* the value 0 of the lock word
  Fenced,    \* TRUE: a barrier_all between Shmlock::new and the first lock
  Rounds     \* bound: how often a PE takes the lock

ASSUME HomeAssumption == Home \in PE
ASSUME UnlockedAssumption == Unlocked \notin PE
ASSUME FencedAssumption == Fenced \in BOOLEAN
ASSUME RoundsAssumption == Rounds \in Nat

VARIABLES
  pc,        \* the stage each PE has reached
  word,      \* Home's copy of the lock word: Unlocked, or the PE that took it
  taken,     \* taken[p]: how often p has called lock
  counter,   \* the value that the lock protects
  seen,      \* seen[p]: the counter as p has read it
  wire,      \* wire[p]: p's put to the counter is on its way
  updates    \* history: the updates under guards that have been dropped

vars == <<pc, word, taken, counter, seen, wire, updates>>

(***************************************************************************)
(* "new"      before Shmlock::new                                          *)
(* "align"    at the barrier of shmem_align                                *)
(* "store"    back from it, before the 0 is stored                         *)
(* "fence"    in barrier_all                                               *)
(* "idle"     the lock is there, and p has no guard                        *)
(* "wait"     in shmem_set_lock                                            *)
(* "held", "read", "written"   p has the guard; the steps of its update    *)
(* "free"     at the barrier of shmem_free, called by the lock's drop      *)
(* "done"     the chunk is back in p's heap                                *)
(***************************************************************************)
Section == {"held", "read", "written"}
Stage == {"new", "align", "store", "fence", "idle", "wait", "free", "done"} \cup Section

\* How far a PE is in its life: 1, 3 and 5 are the barriers.
Rank(s) ==
  CASE s = "new" -> 0 [] s = "align" -> 1 [] s = "store" -> 2 [] s = "fence" -> 3
    [] s = "free" -> 5 [] s = "done" -> 6 [] OTHER -> 4

TypeOK ==
  /\ pc \in [PE -> Stage]
  /\ word \in PE \cup {Unlocked}
  /\ taken \in [PE -> 0..Rounds]
  /\ counter \in Nat /\ updates \in Nat
  /\ seen \in [PE -> Nat]
  /\ wire \in [PE -> BOOLEAN]

\* The chunk that becomes the lock holds what an earlier object left in it.
Init ==
  /\ pc = [p \in PE |-> "new"]
  /\ word \in PE \cup {Unlocked}
  /\ taken = [p \in PE |-> 0]
  /\ counter = 0 /\ updates = 0
  /\ seen = [p \in PE |-> 0]
  /\ wire = [p \in PE |-> FALSE]

-----------------------------------------------------------------------------

GoTo(p, s) == pc' = [pc EXCEPT ![p] = s]

\* Every PE has reached the barrier that p is at.
AllHere(p) == \A q \in PE : Rank(pc[q]) >= Rank(pc[p])

\* Shmlock::new calls Shmallocator::shbox, which calls shmem_align ...
New(p) ==
  /\ pc[p] = "new"
  /\ GoTo(p, "align")
  /\ UNCHANGED <<word, taken, counter, seen, wire, updates>>

Aligned(p) ==
  /\ pc[p] = "align" /\ AllHere(p)
  /\ GoTo(p, "store")
  /\ UNCHANGED <<word, taken, counter, seen, wire, updates>>

\* Mutant of StoreZero: p uses the lock without the barrier behind the store.
StoreUnfenced(p) ==
  /\ pc[p] = "store"
  /\ GoTo(p, "idle")
  /\ word' = IF p = Home THEN Unlocked ELSE word
  /\ UNCHANGED <<taken, counter, seen, wire, updates>>

\* ... and stores the 0 behind the barrier of shmem_align.
StoreZero(p) ==
  /\ pc[p] = "store"
  /\ GoTo(p, IF Fenced THEN "fence" ELSE "idle")
  /\ word' = IF p = Home THEN Unlocked ELSE word
  /\ UNCHANGED <<taken, counter, seen, wire, updates>>

\* ShmemCtx::barrier_all.
Fence(p) ==
  /\ pc[p] = "fence" /\ AllHere(p)
  /\ GoTo(p, "idle")
  /\ UNCHANGED <<word, taken, counter, seen, wire, updates>>

\* Shmlock::lock: shmem_set_lock blocks until the word is free ...
Lock(p) ==
  /\ pc[p] = "idle" /\ taken[p] < Rounds
  /\ GoTo(p, "wait")
  /\ taken' = [taken EXCEPT ![p] = @ + 1]
  /\ UNCHANGED <<word, counter, seen, wire, updates>>

\* Mutants of Acquire: lock does not wait for the word; the word is a flag.
AcquireBlindly(p) ==
  /\ pc[p] = "wait"
  /\ word' = p
  /\ GoTo(p, "held")
  /\ UNCHANGED <<taken, counter, seen, wire, updates>>
AcquireFlag(p) ==
  /\ pc[p] = "wait" /\ word = Unlocked
  /\ word' = TRUE
  /\ GoTo(p, "held")
  /\ UNCHANGED <<taken, counter, seen, wire, updates>>

\* ... and lock returns the guard.
Acquire(p) ==
  /\ pc[p] = "wait" /\ word = Unlocked
  /\ word' = p
  /\ GoTo(p, "held")
  /\ UNCHANGED <<taken, counter, seen, wire, updates>>

\* Under the guard: PEReference::read of the counter ...
Read(p) ==
  /\ pc[p] = "held"
  /\ seen' = [seen EXCEPT ![p] = counter]
  /\ GoTo(p, "read")
  /\ UNCHANGED <<word, taken, counter, wire, updates>>

\* ... and write_from of the value plus one, which arrives later.
WriteFrom(p) ==
  /\ pc[p] = "read"
  /\ wire' = [wire EXCEPT ![p] = TRUE]
  /\ GoTo(p, "written")
  /\ UNCHANGED <<word, taken, counter, seen, updates>>

Deliver(p) ==
  /\ wire[p]
  /\ counter' = seen[p] + 1
  /\ wire' = [wire EXCEPT ![p] = FALSE]
  /\ UNCHANGED <<pc, word, taken, seen, updates>>

\* The updates made under guards, if p's is dropped now.
WithMine(p) == IF pc[p] = "written" THEN updates + 1 ELSE updates

\* Mutants of DropGuard: the puts are not completed first; the word is not freed.
DropGuardUndrained(p) ==
  /\ pc[p] \in Section
  /\ word' = Unlocked
  /\ updates' = WithMine(p)
  /\ GoTo(p, "idle")
  /\ UNCHANGED <<taken, counter, seen, wire>>
DropGuardLocked(p) ==
  /\ pc[p] \in Section /\ ~ wire[p]
  /\ updates' = WithMine(p)
  /\ GoTo(p, "idle")
  /\ UNCHANGED <<word, taken, counter, seen, wire>>

\* Drop of the ShmlockLock, after an update or without one: shmem_clear_lock.
DropGuard(p) ==
  /\ pc[p] \in Section /\ ~ wire[p]
  /\ word' = Unlocked
  /\ updates' = WithMine(p)
  /\ GoTo(p, "idle")
  /\ UNCHANGED <<taken, counter, seen, wire>>

\* Drop of the Shmlock, whose guards borrow it: deallocate of its Shbox.
DropLock(p) ==
  /\ pc[p] = "idle"
  /\ GoTo(p, "free")
  /\ UNCHANGED <<word, taken, counter, seen, wire, updates>>

\* Mutant of Freed: the chunk is released without the barrier of shmem_free.
FreedEarly(p) ==
  /\ pc[p] = "free"
  /\ GoTo(p, "done")
  /\ word' \in IF p = Home THEN PE \cup {Unlocked} ELSE {word}
  /\ UNCHANGED <<taken, counter, seen, wire, updates>>

\* The chunk is released, and the next object may store into it.
Freed(p) ==
  /\ pc[p] = "free" /\ AllHere(p)
  /\ GoTo(p, "done")
  /\ word' \in IF p = Home THEN PE \cup {Unlocked} ELSE {word}
  /\ UNCHANGED <<taken, counter, seen, wire, updates>>

Done == (\A p \in PE : pc[p] = "done") /\ UNCHANGED vars

-----------------------------------------------------------------------------

\* The steps that p takes once it has begun; Lock is the program's choice.
Step(p) ==
  \/ New(p) \/ Aligned(p) \/ StoreZero(p) \/ Fence(p)
  \/ Acquire(p) \/ Read(p) \/ WriteFrom(p) \/ DropGuard(p)
  \/ DropLock(p) \/ Freed(p)

Next ==
  \/ \E p \in PE : Step(p) \/ Lock(p) \/ Deliver(p)
  \/ Done

Spec == Init /\ [][Next]_vars

\* Every PE is scheduled, and the network delivers.
Fairness == \A p \in PE : WF_vars(Step(p)) /\ WF_vars(Deliver(p))

FairSpec == Spec /\ Fairness

-----------------------------------------------------------------------------

InSection(p) == pc[p] \in Section

(***************************************************************************)
(* Two PEs never have a guard at the same time, although the lock word is  *)
(* stored behind the barrier of its allocation and read by other PEs       *)
(* (src/src/shmutex.rs:28-40).                                             *)
(***************************************************************************)
MutualExclusion ==
  \A p, q \in PE : InSection(p) /\ InSection(q) => p = q

(***************************************************************************)
(* The lock protects remote data: when no guard is live, the counter is    *)
(* the number of updates that were made under a guard.  A put that is      *)
(* still on its way when the next PE gets the lock would be lost, or would *)
(* take back the next PE's update (ShmlockLock::drop).                     *)
(***************************************************************************)
NoLostUpdate ==
  (\A p \in PE : ~ InSection(p)) => counter = updates

(***************************************************************************)
(* The word is Home's from its store on until the last PE has stopped      *)
(* contending for it: the drop of the Shmlock on Home cannot give it to    *)
(* another object while somebody waits for it or has the guard.            *)
(***************************************************************************)
WordOutlivesUse ==
  \A p \in PE : pc[p] = "wait" \/ InSection(p) => Rank(pc[Home]) \in 3..5

(***************************************************************************)
(* The lock is a mutex: whatever stale value the word starts with, and     *)
(* whatever is stored there after the drop of the lock.                    *)
(***************************************************************************)
M == INSTANCE Mutex WITH
  None <- Unlocked,
  waiting <- {p \in PE : pc[p] = "wait"},
  holder <- IF \E p \in PE : InSection(p) THEN CHOOSE p \in PE : InSection(p)
            ELSE Unlocked

ImplementsMutex == M!Spec

\* p's next step is there to take: nothing it waits for is missing.
CanGo(p) ==
  \/ pc[p] \in {"new", "store", "idle"}
  \/ pc[p] \in {"align", "fence", "free"} /\ AllHere(p)
  \/ pc[p] = "wait" /\ word = Unlocked
  \/ InSection(p) /\ ~ wire[p]

(***************************************************************************)
(* The PEs never all wait for each other: not at the barriers around the   *)
(* lock's life, while others wait for the lock, and not for a lock that    *)
(* nobody has, because of what its word held before                        *)
(* (src/src/shmutex.rs:16-40).                                             *)
(***************************************************************************)
NeverStuck ==
  \/ \A p \in PE : pc[p] = "done"
  \/ \E p \in PE : wire[p] \/ CanGo(p)

(***************************************************************************)
(* Every call of lock returns, in programs that take the lock a bounded    *)
(* number of times, one guard at a time and never across a collective call *)
(* (src/src/shmutex.rs:36-40).                                             *)
(***************************************************************************)
EveryLockReturns == \A p \in PE : pc[p] = "wait" ~> pc[p] = "held"
=============================================================================
