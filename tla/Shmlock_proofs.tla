---------------------------- MODULE Shmlock_proofs ----------------------------
(***************************************************************************)
(* A Shmlock is a mutex, and the PEs are never all stuck, for every set of *)
(* PEs and every number of locks, if a barrier follows its construction.   *)
(***************************************************************************)
EXTENDS Shmlock, TLAPS

(***************************************************************************)
(* The three barriers: nobody is past one that another has not reached.    *)
(***************************************************************************)
Barriers ==
  \A p, q \in PE :
    /\ Rank(pc[p]) > 1 => Rank(pc[q]) >= 1
    /\ Rank(pc[p]) > 3 => Rank(pc[q]) >= 3
    /\ Rank(pc[p]) > 5 => Rank(pc[q]) >= 5

\* The PE with a guard is the one in the word.
Owner == \A p \in PE : InSection(p) => word = p

\* What the PE in its section knows of the counter, and the word of the rest.
Counted ==
  /\ (\A p \in PE : ~ InSection(p)) => counter = updates
  /\ \A p \in PE :
       /\ wire[p] => pc[p] = "written"
       /\ pc[p] \in {"held", "read"} => counter = updates
       /\ pc[p] = "read" => seen[p] = updates
       /\ pc[p] = "written" =>
            /\ seen[p] = updates
            /\ counter = IF wire[p] THEN updates ELSE updates + 1

IInv == TypeOK /\ Barriers /\ Owner /\ Counted

-----------------------------------------------------------------------------

\* The stages in the order of a PE's life.
LEMMA Ranks ==
  /\ Rank("new") = 0 /\ Rank("align") = 1 /\ Rank("store") = 2 /\ Rank("fence") = 3
  /\ Rank("idle") = 4 /\ Rank("wait") = 4 /\ Rank("held") = 4 /\ Rank("read") = 4
  /\ Rank("written") = 4 /\ Rank("free") = 5 /\ Rank("done") = 6
  BY DEF Rank

LEMMA RankType == \A s \in Stage : Rank(s) \in 0..6
  BY Ranks DEF Stage, Section

\* While somebody has a guard, every PE is past the store of the word and
\* nobody has released it.
LEMMA SectionRank ==
  ASSUME TypeOK, Barriers, NEW p \in PE, pc[p] = "wait" \/ InSection(p), NEW q \in PE
  PROVE  Rank(pc[q]) \in 3..5
<1>1. Rank(pc[p]) = 4
  BY Ranks DEF InSection, Section
<1>2. Rank(pc[q]) \in 0..6
  BY RankType DEF TypeOK
<1> QED
  BY <1>1, <1>2 DEF Barriers

LEMMA Exclusive == IInv => MutualExclusion
  BY DEF IInv, Owner, MutualExclusion

-----------------------------------------------------------------------------

LEMMA TypeStep == TypeOK /\ [Next]_vars => TypeOK'
<1> SUFFICES ASSUME TypeOK, [Next]_vars PROVE TypeOK'
  OBVIOUS
<1> USE HomeAssumption, RoundsAssumption DEF TypeOK, Stage, Section, GoTo
<1>1. ASSUME NEW p \in PE, Step(p) PROVE TypeOK'
  <2>1. CASE New(p) BY <2>1 DEF New
  <2>2. CASE Aligned(p) BY <2>2 DEF Aligned
  <2>3. CASE StoreZero(p) BY <2>3 DEF StoreZero
  <2>4. CASE Fence(p) BY <2>4 DEF Fence
  <2>5. CASE Acquire(p) BY <2>5 DEF Acquire
  <2>6. CASE Read(p) BY <2>6 DEF Read
  <2>7. CASE WriteFrom(p) BY <2>7 DEF WriteFrom
  <2>8. CASE DropGuard(p) BY <2>8 DEF DropGuard, WithMine
  <2>9. CASE DropLock(p) BY <2>9 DEF DropLock
  <2>10. CASE Freed(p) BY <2>10 DEF Freed
  <2> QED
    BY <1>1, <2>1, <2>2, <2>3, <2>4, <2>5, <2>6, <2>7, <2>8, <2>9, <2>10 DEF Step
<1>2. ASSUME NEW p \in PE, Lock(p) PROVE TypeOK'
  BY <1>2 DEF Lock
<1>3. ASSUME NEW p \in PE, Deliver(p) PROVE TypeOK'
  BY <1>3 DEF Deliver
<1>4. CASE UNCHANGED vars
  BY <1>4 DEF vars
<1> QED
  BY <1>1, <1>2, <1>3, <1>4 DEF Next, Done

(***************************************************************************)
(* A step moves one PE by at most one rank, and out of a barrier only when *)
(* all are there.                                                          *)
(***************************************************************************)
Moves(p) ==
  \E s \in Stage :
    /\ pc' = [pc EXCEPT ![p] = s]
    /\ Rank(s) >= Rank(pc[p])
    /\ Rank(s) <= Rank(pc[p]) + 1
    /\ Rank(s) # Rank(pc[p]) /\ Rank(pc[p]) \in {1, 3, 5} =>
         \A q \in PE : Rank(pc[q]) >= Rank(pc[p])

LEMMA StepMoves ==
  ASSUME Fenced, TypeOK, NEW p \in PE, Step(p) \/ Lock(p)
  PROVE  Moves(p)
<1> USE Ranks DEF Moves, Stage, Section, GoTo
<1>1. CASE New(p) BY <1>1 DEF New
<1>2. CASE Aligned(p) BY <1>2 DEF Aligned, AllHere
<1>3. CASE StoreZero(p) BY <1>3 DEF StoreZero
<1>4. CASE Fence(p) BY <1>4 DEF Fence, AllHere
<1>5. CASE Acquire(p) BY <1>5 DEF Acquire
<1>6. CASE Read(p) BY <1>6 DEF Read
<1>7. CASE WriteFrom(p) BY <1>7 DEF WriteFrom
<1>8. CASE DropGuard(p) BY <1>8 DEF DropGuard
<1>9. CASE DropLock(p) BY <1>9 DEF DropLock
<1>10. CASE Freed(p) BY <1>10 DEF Freed, AllHere
<1>11. CASE Lock(p) BY <1>11 DEF Lock
<1> QED
  BY <1>1, <1>2, <1>3, <1>4, <1>5, <1>6, <1>7, <1>8, <1>9, <1>10, <1>11 DEF Step

LEMMA MovesBarriers ==
  ASSUME TypeOK, Barriers, NEW p \in PE, Moves(p)
  PROVE  Barriers'
<1>1. PICK s \in Stage :
        /\ pc' = [pc EXCEPT ![p] = s]
        /\ Rank(s) >= Rank(pc[p])
        /\ Rank(s) <= Rank(pc[p]) + 1
        /\ Rank(s) # Rank(pc[p]) /\ Rank(pc[p]) \in {1, 3, 5} =>
             \A q \in PE : Rank(pc[q]) >= Rank(pc[p])
  BY DEF Moves
<1>2. /\ Rank(s) \in 0..6
      /\ \A q \in PE : Rank(pc[q]) \in 0..6
  BY RankType DEF TypeOK
<1> SUFFICES ASSUME NEW a \in PE, NEW b \in PE
             PROVE  /\ Rank(pc'[a]) > 1 => Rank(pc'[b]) >= 1
                    /\ Rank(pc'[a]) > 3 => Rank(pc'[b]) >= 3
                    /\ Rank(pc'[a]) > 5 => Rank(pc'[b]) >= 5
  BY DEF Barriers
<1>3. \A q \in PE : Rank(pc'[q]) = IF q = p THEN Rank(s) ELSE Rank(pc[q])
  BY <1>1 DEF TypeOK
<1>4. /\ Rank(pc[a]) > 1 => Rank(pc[b]) >= 1
      /\ Rank(pc[a]) > 3 => Rank(pc[b]) >= 3
      /\ Rank(pc[a]) > 5 => Rank(pc[b]) >= 5
  BY DEF Barriers
<1>5. CASE a = p /\ b = p
  BY <1>2, <1>3, <1>5
<1>6. CASE a # p /\ b # p
  BY <1>3, <1>4, <1>6
<1>7. CASE a = p /\ b # p
  <2>1. /\ Rank(pc'[a]) = Rank(s) /\ Rank(pc'[b]) = Rank(pc[b])
        /\ Rank(s) # Rank(pc[a]) /\ Rank(pc[a]) \in {1, 3, 5} => Rank(pc[b]) >= Rank(pc[a])
    BY <1>1, <1>3, <1>7
  <2> QED
    BY <2>1, <1>1, <1>2, <1>4, <1>7
<1>8. CASE a # p /\ b = p
  <2>1. Rank(pc'[a]) = Rank(pc[a]) /\ Rank(pc'[b]) = Rank(s)
    BY <1>3, <1>8
  <2> QED
    BY <2>1, <1>1, <1>2, <1>4, <1>8
<1> QED
  BY <1>5, <1>6, <1>7, <1>8

(***************************************************************************)
(* The word.  Home stores its 0, and releases the chunk, when no other PE  *)
(* can have a guard: the barriers are in between.                          *)
(***************************************************************************)
LEMMA OwnerStep ==
  ASSUME IInv, NEW p \in PE, Step(p) \/ Lock(p) \/ Deliver(p)
  PROVE  Owner'
<1> USE DEF IInv, TypeOK, Owner, InSection, Section, GoTo
<1>1. CASE New(p) BY <1>1 DEF New
<1>2. CASE Aligned(p) BY <1>2 DEF Aligned
<1>3. CASE StoreZero(p)
  <2>1. CASE p = Home
    <3>1. \A q \in PE : ~ InSection(q)
      BY <1>3, <2>1, SectionRank, Ranks DEF StoreZero
    <3> QED
      BY <1>3, <3>1 DEF StoreZero
  <2>2. CASE p # Home
    BY <1>3, <2>2 DEF StoreZero
  <2> QED
    BY <2>1, <2>2
<1>4. CASE Fence(p) BY <1>4 DEF Fence
<1>5. CASE Acquire(p) BY <1>5, UnlockedAssumption DEF Acquire
<1>6. CASE Read(p) BY <1>6 DEF Read
<1>7. CASE WriteFrom(p) BY <1>7 DEF WriteFrom
<1>8. CASE DropGuard(p) BY <1>8 DEF DropGuard
<1>9. CASE DropLock(p) BY <1>9 DEF DropLock
<1>10. CASE Freed(p)
  <2>1. \A q \in PE : Rank(pc[q]) >= 5
    BY <1>10, Ranks DEF Freed, AllHere
  <2>2. ASSUME NEW q \in PE, InSection(q) PROVE FALSE
    <3>1. Rank(pc[q]) = 4
      BY <2>2, Ranks
    <3> QED
      BY <2>1, <3>1
  <2> QED
    BY <1>10, <2>2 DEF Freed
<1>11. CASE Lock(p) BY <1>11 DEF Lock
<1>12. CASE Deliver(p) BY <1>12 DEF Deliver
<1> QED
  BY <1>1, <1>2, <1>3, <1>4, <1>5, <1>6, <1>7, <1>8, <1>9, <1>10, <1>11, <1>12 DEF Step

(***************************************************************************)
(* The counter: only the PE in its section touches it, and its put has     *)
(* arrived before the word is free.                                        *)
(***************************************************************************)
LEMMA CountedStep ==
  ASSUME IInv, NEW p \in PE, Step(p) \/ Lock(p) \/ Deliver(p)
  PROVE  Counted'
<1>0. MutualExclusion
  BY Exclusive
<1> USE <1>0 DEF IInv, TypeOK, Counted, MutualExclusion, InSection, Section, GoTo
<1>1. CASE New(p) BY <1>1 DEF New
<1>2. CASE Aligned(p) BY <1>2 DEF Aligned
<1>3. CASE StoreZero(p) BY <1>3 DEF StoreZero
<1>4. CASE Fence(p) BY <1>4 DEF Fence
<1>5. CASE Acquire(p)
  <2>1. \A q \in PE : ~ InSection(q)
    BY <1>5, UnlockedAssumption DEF Acquire, Owner
  <2> QED
    BY <1>5, <2>1 DEF Acquire
<1>6. CASE Read(p) BY <1>6 DEF Read
<1>7. CASE WriteFrom(p) BY <1>7 DEF WriteFrom
<1>8. CASE DropGuard(p) BY <1>8 DEF DropGuard, WithMine
<1>9. CASE DropLock(p) BY <1>9 DEF DropLock
<1>10. CASE Freed(p) BY <1>10 DEF Freed
<1>11. CASE Lock(p) BY <1>11 DEF Lock
<1>12. CASE Deliver(p) BY <1>12 DEF Deliver
<1> QED
  BY <1>1, <1>2, <1>3, <1>4, <1>5, <1>6, <1>7, <1>8, <1>9, <1>10, <1>11, <1>12 DEF Step

-----------------------------------------------------------------------------

LEMMA IInvInit == Init => IInv
  BY Ranks, HomeAssumption, RoundsAssumption
  DEF Init, IInv, TypeOK, Stage, Section, Barriers, Owner, InSection, Counted

LEMMA IInvStep == Fenced /\ IInv /\ [Next]_vars => IInv'
<1> SUFFICES ASSUME Fenced, IInv, [Next]_vars PROVE IInv'
  OBVIOUS
<1>1. TypeOK'
  BY TypeStep DEF IInv
<1>2. ASSUME NEW p \in PE, Step(p) \/ Lock(p) \/ Deliver(p) PROVE IInv'
  <2>1. Barriers'
    <3>1. CASE Step(p) \/ Lock(p)
      BY <3>1, StepMoves, MovesBarriers DEF IInv
    <3>2. CASE Deliver(p)
      BY <3>2 DEF Deliver, Barriers, IInv
    <3> QED
      BY <1>2, <3>1, <3>2
  <2> QED
    BY <1>1, <1>2, <2>1, OwnerStep, CountedStep DEF IInv
<1>3. CASE UNCHANGED vars
  BY <1>1, <1>3 DEF vars, IInv, Barriers, Owner, Counted, InSection
<1> QED
  BY <1>2, <1>3 DEF Next, Done

LEMMA Invariance == ASSUME Fenced PROVE Spec => []IInv
  BY IInvInit, IInvStep, PTL DEF Spec

(***************************************************************************)
(* The type invariant of the lock's stages, word and counter               *)
(* (src/src/shmutex.rs:7-41).                                              *)
(***************************************************************************)
THEOREM TypeCorrect == ASSUME Fenced PROVE Spec => []TypeOK
<1>1. IInv => TypeOK
  BY DEF IInv
<1> QED
  BY <1>1, Invariance, PTL

(***************************************************************************)
(* Shmlock::lock never gives a guard to two PEs, if a barrier follows      *)
(* Shmlock::new (src/src/shmutex.rs:28-40).                                *)
(***************************************************************************)
THEOREM OneGuard == ASSUME Fenced PROVE Spec => []MutualExclusion
  BY Invariance, Exclusive, PTL

(***************************************************************************)
(* The drop of a guard leaves no put of its section behind                 *)
(* (src/src/shmutex.rs:16-20): no update is lost.                          *)
(***************************************************************************)
THEOREM UpdatesKept == ASSUME Fenced PROVE Spec => []NoLostUpdate
<1>1. IInv => NoLostUpdate
  BY DEF IInv, Counted, NoLostUpdate
<1> QED
  BY <1>1, Invariance, PTL

(***************************************************************************)
(* The lock word is there as long as a PE contends for it                  *)
(* (src/src/shmutex.rs:11-15, the lifetimes of lock and guard).            *)
(***************************************************************************)
THEOREM WordOutlives == ASSUME Fenced PROVE Spec => []WordOutlivesUse
<1>1. IInv => WordOutlivesUse
  BY SectionRank, HomeAssumption DEF IInv, WordOutlivesUse
<1> QED
  BY <1>1, Invariance, PTL

-----------------------------------------------------------------------------

\* The PEs that wait, and the one that holds the lock, as the mutex has them.
Waiting == {p \in PE : pc[p] = "wait"}
Holder == IF \E p \in PE : InSection(p) THEN CHOOSE p \in PE : InSection(p) ELSE Unlocked

LEMMA HolderIs ==
  ASSUME MutualExclusion
  PROVE  /\ \A p \in PE : InSection(p) => Holder = p
         /\ (\A p \in PE : ~ InSection(p)) => Holder = Unlocked
  BY DEF Holder, MutualExclusion

LEMMA SameHolder ==
  ASSUME MutualExclusion, MutualExclusion', \A p \in PE : InSection(p)' <=> InSection(p)
  PROVE  Holder' = Holder
<1>1. CASE \E p \in PE : InSection(p)
  <2>1. PICK p \in PE : InSection(p)
    BY <1>1
  <2>2. Holder = p
    BY <2>1, HolderIs
  <2>3. InSection(p)'
    BY <2>1
  <2>4. Holder' = p
    BY <2>3 DEF Holder, MutualExclusion
  <2> QED
    BY <2>2, <2>4
<1>2. CASE \A p \in PE : ~ InSection(p)
  BY <1>2 DEF Holder
<1> QED
  BY <1>1, <1>2

LEMMA MutexStep ==
  ASSUME TypeOK, Owner, MutualExclusion, MutualExclusion', [Next]_vars
  PROVE  \/ \E p \in PE :
               \/ p \notin Waiting /\ Holder # p /\ Waiting' = Waiting \cup {p} /\ Holder' = Holder
               \/ p \in Waiting /\ Holder = Unlocked /\ Holder' = p /\ Waiting' = Waiting \ {p}
               \/ Holder = p /\ Holder' = Unlocked /\ Waiting' = Waiting
         \/ Waiting' = Waiting /\ Holder' = Holder
<1> DEFINE Quiet ==
      /\ Waiting' = Waiting
      /\ \A p \in PE : InSection(p)' <=> InSection(p)
<1>0. Quiet => Waiting' = Waiting /\ Holder' = Holder
  BY SameHolder
<1> USE DEF TypeOK, GoTo, Waiting, InSection, Section
<1>1. ASSUME NEW p \in PE, Step(p), ~ Acquire(p), ~ DropGuard(p) PROVE Quiet
  <2>1. CASE New(p) BY <2>1 DEF New
  <2>2. CASE Aligned(p) BY <2>2 DEF Aligned
  <2>3. CASE StoreZero(p) BY <2>3 DEF StoreZero
  <2>4. CASE Fence(p) BY <2>4 DEF Fence
  <2>5. CASE Read(p) BY <2>5 DEF Read
  <2>6. CASE WriteFrom(p) BY <2>6 DEF WriteFrom
  <2>7. CASE DropLock(p) BY <2>7 DEF DropLock
  <2>8. CASE Freed(p) BY <2>8 DEF Freed
  <2> QED
    BY <1>1, <2>1, <2>2, <2>3, <2>4, <2>5, <2>6, <2>7, <2>8 DEF Step
<1>2. ASSUME NEW p \in PE, Acquire(p)
      PROVE  p \in Waiting /\ Holder = Unlocked /\ Holder' = p /\ Waiting' = Waiting \ {p}
  <2>1. \A q \in PE : ~ InSection(q)
    BY <1>2, UnlockedAssumption DEF Acquire, Owner
  <2>2. Holder = Unlocked
    BY <2>1, HolderIs
  <2>3. InSection(p)' /\ p \in Waiting /\ Waiting' = Waiting \ {p}
    BY <1>2 DEF Acquire
  <2>4. Holder' = p
    BY <2>3 DEF Holder, MutualExclusion
  <2> QED
    BY <2>2, <2>3, <2>4
<1>3. ASSUME NEW p \in PE, DropGuard(p)
      PROVE  Holder = p /\ Holder' = Unlocked /\ Waiting' = Waiting
  <2>1. InSection(p) /\ Waiting' = Waiting
    BY <1>3 DEF DropGuard
  <2>2. \A q \in PE : ~ InSection(q)'
    BY <1>3, <2>1 DEF DropGuard, MutualExclusion
  <2>3. Holder = p
    BY <2>1, HolderIs
  <2>4. Holder' = Unlocked
    BY <2>2 DEF Holder
  <2> QED
    BY <2>1, <2>3, <2>4
<1>4. ASSUME NEW p \in PE, Lock(p)
      PROVE  p \notin Waiting /\ Holder # p /\ Waiting' = Waiting \cup {p} /\ Holder' = Holder
  <2>1. /\ p \notin Waiting /\ ~ InSection(p) /\ Waiting' = Waiting \cup {p}
        /\ \A q \in PE : InSection(q)' <=> InSection(q)
    BY <1>4 DEF Lock
  <2>2. Holder' = Holder
    BY <2>1, SameHolder
  <2>3. Holder # p
    BY <2>1, UnlockedAssumption DEF Holder
  <2> QED
    BY <2>1, <2>2, <2>3
<1>5. ASSUME NEW p \in PE, Deliver(p) PROVE Quiet
  BY <1>5 DEF Deliver
<1>6. CASE UNCHANGED vars
  <2>1. Quiet
    BY <1>6 DEF vars
  <2> QED
    BY <1>0, <2>1
<1> QED
  BY <1>0, <1>1, <1>2, <1>3, <1>4, <1>5, <1>6 DEF Next, Done

(***************************************************************************)
(* A Shmlock implements the mutex, if a barrier follows its construction:  *)
(* each step of the detailed specification is a Request (lock called), a   *)
(* Grant (lock returns), a Release (guard dropped) or nothing at all.      *)
(***************************************************************************)
THEOREM LockIsMutex == ASSUME Fenced PROVE Spec => ImplementsMutex
<1>1. Init => M!Init
  BY DEF Init, M!Init, InSection, Section
<1>2. IInv /\ IInv' /\ [Next]_vars => [M!Next]_<<Waiting, Holder>>
  <2> SUFFICES ASSUME IInv, IInv', [Next]_vars
               PROVE  M!Next \/ (Waiting' = Waiting /\ Holder' = Holder)
    OBVIOUS
  <2>1. MutualExclusion /\ MutualExclusion'
    BY DEF IInv, Owner, MutualExclusion
  <2>2. TypeOK /\ Owner
    BY DEF IInv
  <2> QED
    BY <2>1, <2>2, MutexStep
    DEF M!Next, M!Request, M!Grant, M!Release, Waiting, Holder
<1> QED
  BY <1>1, <1>2, Invariance, PTL DEF Spec, ImplementsMutex, M!Spec, Waiting, Holder
-----------------------------------------------------------------------------

(***************************************************************************)
(* From Home's store of the 0 to its release of the chunk, a word that is  *)
(* taken names a PE with the guard: no stale value is left in it.          *)
(***************************************************************************)
Answered ==
  Rank(pc[Home]) \in 3..5 => word = Unlocked \/ (word \in PE /\ InSection(word))

LEMMA AnsweredInit == Init => Answered
  BY Ranks, HomeAssumption DEF Init, Answered

LEMMA AnsweredStep == Fenced /\ IInv /\ Answered /\ [Next]_vars => Answered'
<1> SUFFICES ASSUME Fenced, IInv, Answered, [Next]_vars PROVE Answered'
  OBVIOUS
<1> USE Ranks, HomeAssumption DEF Answered, IInv, TypeOK, InSection, Section, GoTo
<1>1. ASSUME NEW p \in PE, Step(p) \/ Lock(p) \/ Deliver(p) PROVE Answered'
  <2>1. CASE New(p) BY <2>1 DEF New
  <2>2. CASE Aligned(p) BY <2>2 DEF Aligned
  <2>3. CASE StoreZero(p) BY <2>3 DEF StoreZero
  <2>4. CASE Fence(p) BY <2>4 DEF Fence
  <2>5. CASE Acquire(p) BY <2>5 DEF Acquire
  <2>6. CASE Read(p) BY <2>6 DEF Read
  <2>7. CASE WriteFrom(p) BY <2>7 DEF WriteFrom
  <2>8. CASE DropGuard(p) BY <2>8 DEF DropGuard
  <2>9. CASE DropLock(p) BY <2>9 DEF DropLock
  <2>10. CASE Freed(p) BY <2>10 DEF Freed
  <2>11. CASE Lock(p) BY <2>11 DEF Lock
  <2>12. CASE Deliver(p) BY <2>12 DEF Deliver
  <2> QED
    BY <1>1, <2>1, <2>2, <2>3, <2>4, <2>5, <2>6, <2>7, <2>8, <2>9, <2>10, <2>11, <2>12 DEF Step
<1>2. CASE UNCHANGED vars
  BY <1>2 DEF vars
<1> QED
  BY <1>1, <1>2 DEF Next, Done

\* A PE waits for the lock while another has it, and at a barrier for one that
\* can go on, or is at the barrier before.
LEMMA SomebodyGoes == IInv /\ Answered => NeverStuck
<1> SUFFICES ASSUME IInv, Answered, \A q \in PE : ~ wire[q], \E p \in PE : pc[p] # "done"
             PROVE  \E q \in PE : CanGo(q)
  BY DEF NeverStuck
<1>1. \A q \in PE : pc[q] \in Stage /\ Rank(pc[q]) \in 0..6
  BY RankType DEF IInv, TypeOK
<1>2. ASSUME NEW p \in PE, pc[p] = "wait" PROVE \E q \in PE : CanGo(q)
  <2>1. Rank(pc[Home]) \in 3..5
    BY <1>2, SectionRank, HomeAssumption DEF IInv
  <2>2. CASE word = Unlocked
    BY <1>2, <2>2 DEF CanGo
  <2>3. CASE word \in PE /\ InSection(word)
    BY <2>3 DEF CanGo
  <2> QED
    BY <2>1, <2>2, <2>3 DEF Answered
<1>3. ASSUME NEW p \in PE, pc[p] \notin {"align", "fence", "free", "done"}
      PROVE  \E q \in PE : CanGo(q)
  BY <1>1, <1>2, <1>3 DEF CanGo, InSection, Stage, Section
<1>4. ASSUME NEW p \in PE, pc[p] \in {"align", "fence", "free"},
             NEW q \in PE, ~ Rank(pc[q]) >= Rank(pc[p])
      PROVE  \E r \in PE : CanGo(r)
  <2>1. CASE pc[q] \in {"align", "fence", "free"}
    <3>1. (pc[q] = "align" /\ Rank(pc[p]) > 1) \/ (pc[q] = "fence" /\ Rank(pc[p]) > 3)
      BY <1>4, <2>1, Ranks DEF IInv, Barriers
    <3>2. AllHere(q)
      BY <3>1, Ranks DEF AllHere, IInv, Barriers
    <3> QED
      BY <2>1, <3>2 DEF CanGo
  <2>2. pc[q] # "done"
    BY <1>4, Ranks
  <2> QED
    BY <1>3, <2>1, <2>2
<1>5. ASSUME NEW p \in PE, pc[p] \in {"align", "fence", "free"}, AllHere(p)
      PROVE  CanGo(p)
  BY <1>5 DEF CanGo
<1> QED
  BY <1>3, <1>4, <1>5 DEF AllHere

(***************************************************************************)
(* However many PEs contend for the lock, they never all wait: nobody for  *)
(* a lock that nobody has, because of what was in its word before, and     *)
(* nobody at a barrier for a PE that waits there for the lock              *)
(* (src/src/shmutex.rs:16-40).                                             *)
(***************************************************************************)
THEOREM NoDeadlock == ASSUME Fenced PROVE Spec => []NeverStuck
  BY AnsweredInit, AnsweredStep, Invariance, SomebodyGoes, PTL DEF Spec

=============================================================================
