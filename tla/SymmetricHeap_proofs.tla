------------------------ MODULE SymmetricHeap_proofs ------------------------
(***************************************************************************)
(* Proofs about SymmetricHeap, for every set of PEs, boxes and slots and   *)
(* every well-formed program, that the PEs are never all stuck in one, and *)
(* that it implements ObjectStore.                                         *)
(*                                                                         *)
(* The inductive invariant has five named parts:                           *)
(*   SameProgram  all PEs run one program;                                 *)
(*   Stages       a PE is only in stages that its call has;                *)
(*   InStep       no PE has left a barrier that another has not reached;   *)
(*   Handles      what a PE knows of the boxes it constructed;             *)
(*   Messages     an update is on its way only while its issuer waits;     *)
(* and Log, which says that one sequence of heaps explains all PEs: the    *)
(* heap of each is the one after the calls it has carried out.             *)
(***************************************************************************)
EXTENDS HeapImplementsStore, Integers, TLAPS

SameProgram == \A p, q \in PE : script[p] = script[q] /\ script[p] \in Programs

Stages ==
  \A p \in PE :
    /\ pc[p] \in {"init", "aborted"} => \E b \in Box : Cur(p) = Alloc(b)
    /\ pc[p] = "free" => \E b \in Box : Cur(p) = Free(b)
    /\ pc[p] = "end" => Cur(p) = Finalize

InStep == \A p, q \in PE : Left(p) <= Arrived(q)

-----------------------------------------------------------------------------

(***************************************************************************)
(* The calls of the program are told apart by their kind and box.          *)
(***************************************************************************)
LEMMA CallsDiffer ==
  /\ \A b, c \in Box : Alloc(b) = Alloc(c) => b = c
  /\ \A b, c \in Box : Free(b) = Free(c) => b = c
  /\ \A b, c \in Box : Alloc(b) # Free(c)
  /\ \A b \in Box : Alloc(b) # BarrierAll /\ Alloc(b) # Finalize
  /\ \A b \in Box : Free(b) # BarrierAll /\ Free(b) # Finalize
  /\ BarrierAll # Finalize
  BY DEF Alloc, Free, BarrierAll, Finalize

(***************************************************************************)
(* An allocation lands in an empty slot, or nowhere.                       *)
(***************************************************************************)
LEMMA PlaceEmpty ==
  ASSUME NEW h
  PROVE  /\ Place(h) \in Slot \cup {None}
         /\ Place(h) \in Slot => h[Place(h)] = None
         /\ Place(h) = None => \A s \in Slot : h[s] # None
  BY NoneAssumption DEF Place

(***************************************************************************)
(* One entry of a table changes, or none if there is no such column.       *)
(***************************************************************************)
LEMMA Table ==
  ASSUME NEW S, NEW X, NEW Y, NEW f \in [S -> [X -> Y]],
         NEW p \in S, NEW x, NEW y, x \in X => y \in Y, NEW g, g = [f EXCEPT ![p][x] = y]
  PROVE  /\ g \in [S -> [X -> Y]]
         /\ \A q \in S, z \in X : g[q][z] = IF q = p /\ z = x THEN y ELSE f[q][z]
         /\ \A q \in S : q # p => g[q] = f[q]
<1>1. [f[p] EXCEPT ![x] = y] \in [X -> Y]
  OBVIOUS
<1>2. g = [f EXCEPT ![p] = [f[p] EXCEPT ![x] = y]]
  OBVIOUS
<1> QED BY <1>1, <1>2

\* A call before finalize is not the last one.
LEMMA MoreCalls ==
  ASSUME TypeOK, SameProgram, NEW p \in PE, Cur(p) # Finalize
  PROVE  at[p] + 1 \in 1..Len(script[p])
  BY ProgramsAssumption DEF TypeOK, SameProgram, Cur, WellFormed

\* Going on to the next call keeps p within its program.
LEMMA Advance ==
  ASSUME TypeOK, NEW p \in PE, at[p] + 1 \in 1..Len(script[p]),
         at' = [at EXCEPT ![p] = @ + 1]
  PROVE  at' \in [PE -> Nat] /\ \A r \in PE : at'[r] \in 1..Len(script[r])
<1>1. at \in [PE -> Nat] /\ \A r \in PE : at[r] \in 1..Len(script[r])
  BY DEF TypeOK
<1>2. at' \in [PE -> Nat]
  BY <1>1
<1>3. ASSUME NEW r \in PE PROVE at'[r] \in 1..Len(script[r])
  <2>1. CASE r = p
    BY <1>1, <2>1
  <2>2. CASE r # p
    BY <1>1, <2>2
  <2> QED BY <2>1, <2>2
<1> QED BY <1>2, <1>3

LEMMA TypeInit == Init => TypeOK /\ SameProgram /\ Stages
  BY ProgramsAssumption DEF Init, TypeOK, SameProgram, Stages, Stage, WellFormed

LEMMA TypeStep == TypeOK /\ SameProgram /\ [Next]_vars => TypeOK' /\ SameProgram'
<1> SUFFICES ASSUME TypeOK, SameProgram, [Next]_vars PROVE TypeOK' /\ SameProgram'
  OBVIOUS
<1> USE DEF TypeOK
<1>1. ASSUME NEW p \in PE, EnterAlloc(p) PROVE TypeOK' /\ SameProgram'
  <2>1. mem' \in [PE -> [Slot -> Nat]]
    <3>1. Zeroed(p, Place(heap[p])) \in [PE -> [Slot -> Nat]]
      BY DEF Zeroed
    <3> QED BY <1>1, <3>1 DEF EnterAlloc
  <2>2. /\ heap' \in [PE -> [Slot -> Box \cup {None}]]
        /\ addr' \in [PE -> [Box -> Slot \cup {None}]]
        /\ pc' \in [PE -> Stage]
    BY <1>1, PlaceEmpty DEF EnterAlloc, Stage
  <2>3. UNCHANGED <<script, at, owned, inflight, issued, applied>>
    BY <1>1 DEF EnterAlloc
  <2> QED BY <2>1, <2>2, <2>3 DEF SameProgram
<1>2. ASSUME NEW p \in PE, EnterFree(p) PROVE TypeOK' /\ SameProgram'
  BY <1>2 DEF EnterFree, SameProgram, Stage
<1>3. ASSUME NEW p \in PE, EnterBarrierAll(p) PROVE TypeOK' /\ SameProgram'
  BY <1>3 DEF EnterBarrierAll, SameProgram, Stage
<1>4. ASSUME NEW p \in PE, EnterFinalize(p) PROVE TypeOK' /\ SameProgram'
  BY <1>4 DEF EnterFinalize, SameProgram, Stage
<1>5. ASSUME NEW p \in PE, Arrive(p) PROVE TypeOK' /\ SameProgram'
  BY <1>5 DEF Arrive, SameProgram, Stage
<1>6. ASSUME NEW p \in PE, Leave(p) PROVE TypeOK' /\ SameProgram'
  <2>1. Cur(p) = BarrierAll => at[p] + 1 \in 1..Len(script[p])
    BY MoreCalls, CallsDiffer
  <2>2. pc' \in [PE -> Stage]
    BY <1>6 DEF Leave, Stage, Return, GoTo, GoOn
  <2>3. at' \in [PE -> Nat] /\ \A r \in PE : at'[r] \in 1..Len(script[r])
    <3>1. at' = at \/ (Cur(p) = BarrierAll /\ at' = [at EXCEPT ![p] = @ + 1])
      BY <1>6 DEF Leave, Return, GoTo, GoOn
    <3> QED BY <2>1, <3>1, Advance
  <2>4. UNCHANGED <<script, heap, addr, owned, mem, inflight, issued, applied>>
    BY <1>6 DEF Leave, Return, GoTo, GoOn
  <2> QED BY <2>2, <2>3, <2>4 DEF SameProgram
<1>7. ASSUME NEW p \in PE, StoreInitial(p) PROVE TypeOK' /\ SameProgram'
  <2>1. at[p] + 1 \in 1..Len(script[p])
    BY <1>7, MoreCalls, CallsDiffer DEF StoreInitial, GoOn
  <2>2. at' \in [PE -> Nat] /\ \A r \in PE : at'[r] \in 1..Len(script[r])
    <3>1. at' = [at EXCEPT ![p] = @ + 1]
      BY <1>7 DEF StoreInitial, GoOn
    <3> QED BY <2>1, <3>1, Advance
  <2>3. pc' \in [PE -> Stage]
    BY <1>7 DEF StoreInitial, Stage, GoOn
  <2>4. mem' \in [PE -> [Slot -> Nat]] /\ owned' \in [PE -> SUBSET Box]
    <3>1. \E b \in Box : /\ mem' = [mem EXCEPT ![p][addr[p][b]] = 0]
                        /\ owned' = [owned EXCEPT ![p] = @ \cup {b}]
      BY <1>7 DEF StoreInitial, GoOn
    <3> PICK b \in Box : /\ mem' = [mem EXCEPT ![p][addr[p][b]] = 0]
                         /\ owned' = [owned EXCEPT ![p] = @ \cup {b}]
      BY <3>1
    <3>2. mem' \in [PE -> [Slot -> Nat]]
      BY Table
    <3>3. owned' \in [PE -> SUBSET Box]
      OBVIOUS
    <3> QED BY <3>2, <3>3
  <2>5. UNCHANGED <<script, heap, addr, inflight, issued, applied>>
    BY <1>7 DEF StoreInitial, GoOn
  <2> QED BY <2>2, <2>3, <2>4, <2>5 DEF SameProgram
<1>8. ASSUME NEW p \in PE, Release(p) PROVE TypeOK' /\ SameProgram'
  <2>1. at[p] + 1 \in 1..Len(script[p])
    BY <1>8, MoreCalls, CallsDiffer DEF Release, GoOn
  <2>2. at' \in [PE -> Nat] /\ \A r \in PE : at'[r] \in 1..Len(script[r])
    <3>1. at' = [at EXCEPT ![p] = @ + 1]
      BY <1>8 DEF Release, GoOn
    <3> QED BY <2>1, <3>1, Advance
  <2>3. pc' \in [PE -> Stage]
    BY <1>8 DEF Release, Stage, GoOn
  <2>4. heap' \in [PE -> [Slot -> Box \cup {None}]]
    <3> PICK b \in Box : heap' = [heap EXCEPT ![p][addr[p][b]] = None]
      BY <1>8 DEF Release, GoOn
    <3> QED BY Table
  <2>5. UNCHANGED <<script, addr, owned, mem, inflight, issued, applied>>
    BY <1>8 DEF Release, GoOn
  <2> QED BY <2>2, <2>3, <2>4, <2>5 DEF SameProgram
<1>9. ASSUME NEW p \in PE, NEW q \in PE, NEW b \in Box, AtomicInc(p, q, b)
      PROVE  TypeOK' /\ SameProgram'
  <2>1. issued' \in [PE -> Nat]
    BY <1>9 DEF AtomicInc
  <2>2. [src |-> p, dst |-> q, box |-> b, to |-> addr[p][b],
         epoch |-> at[p], n |-> issued[p]] \in Update
    BY DEF Update
  <2>3. inflight' \subseteq Update
    BY <1>9, <2>2 DEF AtomicInc
  <2>4. UNCHANGED <<script, at, pc, heap, addr, owned, mem, applied>>
    BY <1>9 DEF AtomicInc
  <2> QED BY <2>1, <2>3, <2>4 DEF SameProgram
<1>10. ASSUME NEW p \in PE, DeliverFrom(p) PROVE TypeOK' /\ SameProgram'
  <2> PICK m \in inflight : Deliver(m)
    BY <1>10 DEF DeliverFrom
  <2>1. m.dst \in PE /\ m.box \in Box
    BY DEF Update
  <2>2. mem' \in [PE -> [Slot -> Nat]]
    <3> DEFINE v == mem[m.dst][m.to] + 1
    <3>1. mem' = [mem EXCEPT ![m.dst][m.to] = v]
      BY DEF Deliver
    <3>2. m.to \in Slot => v \in Nat
      BY <2>1
    <3>3. [mem[m.dst] EXCEPT ![m.to] = v] \in [Slot -> Nat]
      <4>1. mem[m.dst] \in [Slot -> Nat]
        BY <2>1
      <4> HIDE DEF v, TypeOK
      <4> QED BY <4>1, <3>2
    <3> HIDE DEF v
    <3> QED BY <2>1, <3>1, <3>3
  <2>3. applied' \in [PE -> [Box -> Nat]]
    BY <2>1 DEF Deliver
  <2>4. inflight' \subseteq Update /\ UNCHANGED <<script, at, pc, heap, addr, owned, issued>>
    BY DEF Deliver
  <2> QED BY <2>2, <2>3, <2>4 DEF SameProgram
<1>11. CASE UNCHANGED vars
  BY <1>11 DEF vars, SameProgram
<1> QED
  BY <1>1, <1>2, <1>3, <1>4, <1>5, <1>6, <1>7, <1>8, <1>9, <1>10, <1>11
     DEF Next, Call, Done

-----------------------------------------------------------------------------

(***************************************************************************)
(* A collective call of p moves p alone, never back over a barrier it has  *)
(* reached, and past one only when all PEs have reached it.                *)
(***************************************************************************)
LEMMA CallMoves ==
  ASSUME TypeOK, Stages, NEW p \in PE, Call(p)
  PROVE  /\ \A q \in PE \ {p} : at'[q] = at[q] /\ pc'[q] = pc[q]
         /\ script' = script
         /\ Arrived(p)' >= Arrived(p)
         /\ \/ Left(p)' = Left(p)
            \/ \A q \in PE : Arrived(q) >= Left(p)'
         /\ Stages'
<1> USE DEF Arrived, Left
<1>1. at \in [PE -> Nat] /\ pc \in [PE -> Stage]
  BY DEF TypeOK
<1>2. CASE EnterAlloc(p)
  BY <1>1, <1>2 DEF EnterAlloc, Stages, Cur
<1>3. CASE EnterFree(p)
  BY <1>1, <1>3 DEF EnterFree, Stages, Cur
<1>4. CASE EnterBarrierAll(p)
  BY <1>1, <1>4 DEF EnterBarrierAll, Stages, Cur
<1>5. CASE EnterFinalize(p)
  BY <1>1, <1>5 DEF EnterFinalize, Stages, Cur
<1>6. CASE Arrive(p)
  BY <1>1, <1>6 DEF Arrive, Stages, Cur
<1>7. CASE Leave(p)
  <2>1. CASE \E b \in Box : Cur(p) = Alloc(b)
    BY <1>1, <1>7, <2>1, CallsDiffer DEF Leave, Stages, Cur, Return, GoTo, GoOn
  <2>2. CASE \E b \in Box : Cur(p) = Free(b)
    BY <1>1, <1>7, <2>2, CallsDiffer DEF Leave, Stages, Cur, Return, GoTo, GoOn
  <2>3. CASE Cur(p) = BarrierAll
    BY <1>1, <1>7, <2>3, CallsDiffer DEF Leave, Stages, Cur, Return, GoTo, GoOn
  <2>4. CASE Cur(p) = Finalize
    BY <1>1, <1>7, <2>4, CallsDiffer DEF Leave, Stages, Cur, Return, GoTo, GoOn
  <2> QED BY <1>7, <2>1, <2>2, <2>3, <2>4 DEF Leave, Return, GoTo, GoOn
<1>8. CASE StoreInitial(p)
  BY <1>1, <1>8 DEF StoreInitial, Stages, Cur, GoOn
<1>9. CASE Release(p)
  BY <1>1, <1>9 DEF Release, Stages, Cur, GoOn
<1> QED BY <1>2, <1>3, <1>4, <1>5, <1>6, <1>7, <1>8, <1>9 DEF Call

\* The other steps move no PE.
LEMMA Still ==
  ASSUME [Next]_vars
  PROVE  \/ \E p \in PE : Call(p)
         \/ UNCHANGED <<script, at, pc, heap, addr, owned>>
  BY DEF Next, AtomicInc, DeliverFrom, Deliver, Done, vars

LEMMA InStepInit == Init => InStep
  BY DEF Init, InStep, Arrived, Left

\* What is counted is a number.
LEMMA Counts == TypeOK => \A q \in PE : at[q] \in Int /\ Arrived(q) \in Int /\ Left(q) \in Int
  BY DEF TypeOK, Arrived, Left

LEMMA InStepStep ==
  TypeOK /\ TypeOK' /\ Stages /\ InStep /\ [Next]_vars => Stages' /\ InStep'
<1> SUFFICES ASSUME TypeOK, TypeOK', Stages, InStep, [Next]_vars PROVE Stages' /\ InStep'
  OBVIOUS
<1>1. CASE UNCHANGED <<script, at, pc, heap, addr, owned>>
  BY <1>1 DEF Stages, InStep, Arrived, Left, Cur
<1>2. ASSUME NEW p \in PE, Call(p) PROVE Stages' /\ InStep'
  <2>1. \A q \in PE : Arrived(q) \in Int /\ Left(q) \in Int
    BY Counts
  <2>2. \A q \in PE : Arrived(q)' \in Int /\ Left(q)' \in Int
    BY DEF TypeOK, Arrived, Left
  <2>3. \A q \in PE \ {p} : Arrived(q)' = Arrived(q) /\ Left(q)' = Left(q)
    BY <1>2, CallMoves DEF Arrived, Left
  <2>4. \A q \in PE : Arrived(q)' >= Arrived(q)
    BY <1>2, <2>1, <2>3, CallMoves
  <2>5. ASSUME NEW q \in PE, NEW r \in PE PROVE Left(q)' <= Arrived(r)'
    <3>1. Left(q)' = Left(q) \/ Arrived(r) >= Left(q)'
      BY <1>2, <2>3, CallMoves
    <3>2. Left(q) <= Arrived(r)
      BY DEF InStep
    <3> QED BY <2>1, <2>2, <2>4, <3>1, <3>2
  <2> QED BY <1>2, <2>5, CallMoves DEF InStep
<1> QED BY <1>1, <1>2, Still

-----------------------------------------------------------------------------

\* The boxes p constructed in the calls it has completed.
Made(p, b) == \E i \in 1..at[p] - 1 : script[p][i] = Alloc(b)

HandlesOf(p) ==
  \A b \in Box :
    /\ b \in owned[p] => /\ Made(p, b)
                         /\ \A j \in 1..at[p] - 1 : script[p][j] # Free(b)
                         /\ pc[p] = "run" \/ Cur(p) # Free(b)
    /\ Made(p, b) => addr[p][b] # None
    /\ Cur(p) = Alloc(b) /\ pc[p] = "init" => addr[p][b] # None
    /\ Cur(p) = Alloc(b) /\ pc[p] = "aborted" => addr[p][b] = None
    /\ Cur(p) = Free(b) /\ pc[p] # "run" => Made(p, b)

Handles == \A p \in PE : HandlesOf(p)

Messages ==
  \A m \in inflight :
    /\ pc[m.src] \in {"run", "quiet"}
    /\ m.epoch = at[m.src]
    /\ m.to = addr[m.src][m.box]
    /\ Holds(m.src, m.box)
    /\ Fenced => Published(m.src, m.box)

-----------------------------------------------------------------------------

\* What WellFormed says of the program, for the calls of one PE.
LEMMA OneProgram ==
  ASSUME NEW s \in Programs
  PROVE  \A b \in Box : \A i, j \in 1..Len(s) : s[i] = Alloc(b) /\ s[j] = Free(b) => i < j
<1> SUFFICES ASSUME NEW b \in Box, NEW i \in 1..Len(s), NEW j \in 1..Len(s),
                    s[i] = Alloc(b), s[j] = Free(b)
             PROVE  i < j
  OBVIOUS
<1>1. /\ Len(s) \in Nat
      /\ \A k, l \in 1..Len(s) : s[k] = s[l] /\ s[k] # BarrierAll => k = l
  BY ProgramsAssumption DEF WellFormed
<1>2. PICK k \in 1..j - 1 : s[k] = Alloc(b)
  BY ProgramsAssumption DEF WellFormed
<1>3. k \in 1..Len(s) /\ k < j
  BY <1>1
<1> QED BY <1>1, <1>2, <1>3, CallsDiffer

LEMMA ProgramFacts ==
  ASSUME TypeOK, SameProgram, NEW p \in PE
  PROVE  /\ at[p] \in 1..Len(script[p]) /\ Len(script[p]) \in Nat
         /\ \A i, j \in 1..Len(script[p]) :
              script[p][i] = script[p][j] /\ script[p][i] # BarrierAll => i = j
         /\ \A b \in Box : \A i, j \in 1..Len(script[p]) :
              script[p][i] = Alloc(b) /\ script[p][j] = Free(b) => i < j
<1>1. script[p] \in Programs
  BY DEF SameProgram
<1> QED BY <1>1, OneProgram, ProgramsAssumption DEF TypeOK, WellFormed

LEMMA HandlesInit == Init => Handles
  BY DEF Init, Handles, HandlesOf, Made, Cur

LEMMA HandlesStep ==
  TypeOK /\ SameProgram /\ Stages /\ Handles /\ [Next]_vars => Handles'
<1> SUFFICES ASSUME TypeOK, SameProgram, Stages, Handles, [Next]_vars PROVE Handles'
  OBVIOUS
<1> USE DEF HandlesOf, Made, Cur
<1>0. ASSUME NEW p \in PE, UNCHANGED <<script, at[p], pc[p], addr[p], owned[p]>>
      PROVE  HandlesOf(p)'
  BY <1>0 DEF Handles
<1>1. CASE UNCHANGED <<script, at, pc, heap, addr, owned>>
  BY <1>0, <1>1 DEF Handles
<1>2. ASSUME NEW p \in PE, Call(p) PROVE Handles'
  <2>1. \A q \in PE \ {p} : UNCHANGED <<script, at[q], pc[q], addr[q], owned[q]>>
    BY <1>2 DEF TypeOK, Call, EnterAlloc, EnterFree, EnterBarrierAll, EnterFinalize,
                Arrive, Leave, StoreInitial, Release, Return, GoTo, GoOn
  <2>2. SUFFICES HandlesOf(p)'
    BY <1>0, <2>1 DEF Handles
  <2>3. HandlesOf(p)
    BY DEF Handles
  <2>4. /\ at \in [PE -> Nat] /\ pc \in [PE -> Stage] /\ addr \in [PE -> [Box -> Slot \cup {None}]]
        /\ owned \in [PE -> SUBSET Box]
    BY DEF TypeOK
  <2>0. ASSUME at'[p] = at[p] + 1 PROVE 1..at'[p] - 1 = (1..at[p] - 1) \cup {at[p]}
    <3>1. at[p] \in Nat /\ at[p] >= 1
      BY ProgramFacts, <2>4
    <3> QED BY <2>0, <3>1
  <2>5. CASE EnterAlloc(p)
    <3> PICK b0 \in Box : Cur(p) = Alloc(b0) /\ addr' = [addr EXCEPT ![p][b0] = Place(heap[p])]
      BY <2>5 DEF EnterAlloc
    <3>1. pc'[p] = "quiet" /\ UNCHANGED <<script, at, owned>>
      BY <2>4, <2>5 DEF EnterAlloc
    <3>2. \A b \in Box : Cur(p) # Free(b)
      BY CallsDiffer
    <3>3. ~ Made(p, b0)
      BY ProgramFacts, CallsDiffer
    <3>4. \A b \in Box \ {b0} : addr'[p][b] = addr[p][b]
      BY <2>4
    <3> QED BY <2>3, <3>1, <3>2, <3>3, <3>4
  <2>6. CASE EnterFree(p)
    <3> PICK b0 \in owned[p] : Cur(p) = Free(b0) /\ owned' = [owned EXCEPT ![p] = @ \ {b0}]
      BY <2>6 DEF EnterFree
    <3>1. pc'[p] = "quiet" /\ owned'[p] = owned[p] \ {b0} /\ UNCHANGED <<script, at, addr>>
      BY <2>4, <2>6 DEF EnterFree
    <3>2. \A b \in Box : Cur(p) = Free(b) => b = b0
      BY <2>4, CallsDiffer
    <3> QED BY <2>3, <2>4, <3>1, <3>2
  <2>7. CASE EnterBarrierAll(p) \/ EnterFinalize(p)
    <3>1. pc'[p] = "quiet" /\ UNCHANGED <<script, at, addr, owned>>
      BY <2>4, <2>7 DEF EnterBarrierAll, EnterFinalize
    <3>2. \A b \in Box : Cur(p) # Free(b) /\ Cur(p) # Alloc(b)
      BY <2>7, CallsDiffer DEF EnterBarrierAll, EnterFinalize
    <3> QED BY <2>3, <3>1, <3>2
  <2>8. CASE Arrive(p)
    <3>1. pc[p] = "quiet" /\ pc'[p] = "barrier" /\ UNCHANGED <<script, at, addr, owned>>
      BY <2>4, <2>8 DEF Arrive
    <3> QED BY <2>3, <3>1
  <2>9. CASE Leave(p)
    <3>1. pc[p] = "barrier" /\ UNCHANGED <<script, addr, owned>>
      BY <2>9 DEF Leave, Return, GoTo, GoOn
    <3>2. CASE at' = at
      <4>1. ASSUME NEW b \in Box, Cur(p) = Alloc(b)
            PROVE  pc'[p] = IF addr[p][b] = None THEN "aborted" ELSE "init"
        BY <2>4, <2>9, <3>2, <4>1, CallsDiffer DEF Leave, Return, GoTo, GoOn
      <4>2. pc'[p] # "run"
        BY <2>4, <2>9, <3>2, CallsDiffer DEF Leave, Return, GoTo, GoOn
      <4> QED BY <2>3, <3>1, <3>2, <4>1, <4>2
    <3>3. CASE at' # at
      <4>1. Cur(p) = BarrierAll /\ pc'[p] = "run" /\ at'[p] = at[p] + 1
        BY <2>4, <2>9, <3>3 DEF Leave, Return, GoTo, GoOn
      <4>2. \A b \in Box : Cur(p) # Free(b) /\ Cur(p) # Alloc(b)
        BY <4>1, CallsDiffer
      <4>3. \A b \in Box : Made(p, b)' <=> Made(p, b)
        BY <2>0, <3>1, <4>1, <4>2
      <4>4. \A b \in owned[p], j \in 1..at'[p] - 1 : script[p][j] # Free(b)
        BY <2>0, <2>3, <2>4, <4>1, <4>2
      <4> QED BY <2>3, <2>4, <3>1, <4>1, <4>3, <4>4
    <3> QED BY <3>2, <3>3
  <2>10. CASE StoreInitial(p)
    <3> PICK b0 \in Box : Cur(p) = Alloc(b0) /\ owned' = [owned EXCEPT ![p] = @ \cup {b0}]
      BY <2>10 DEF StoreInitial, GoOn
    <3>1. /\ pc[p] = "init" /\ pc'[p] = "run" /\ at'[p] = at[p] + 1
          /\ owned'[p] = owned[p] \cup {b0} /\ UNCHANGED <<script, addr>>
      BY <2>4, <2>10 DEF StoreInitial, GoOn
    <3>2. \A b \in Box : Made(p, b)' <=> Made(p, b) \/ b = b0
      BY <2>0, <3>1, CallsDiffer
    <3>3. \A j \in 1..at[p] : script[p][j] # Free(b0)
      BY <2>4, ProgramFacts
    <3>4. \A b \in Box : Cur(p) # Free(b)
      BY CallsDiffer
    <3>5. \A b \in owned'[p], j \in 1..at'[p] - 1 : script[p][j] # Free(b)
      BY <2>0, <2>3, <2>4, <3>1, <3>3, <3>4
    <3> QED BY <2>3, <2>4, <3>1, <3>2, <3>5
  <2>11. CASE Release(p)
    <3>1. pc[p] = "free" /\ pc'[p] = "run" /\ at'[p] = at[p] + 1 /\ UNCHANGED <<script, addr, owned>>
      BY <2>4, <2>11 DEF Release, GoOn
    <3>2. \A b \in Box : Cur(p) # Alloc(b)
      BY <2>11, CallsDiffer DEF Release, GoOn
    <3>3. \A b \in Box : Made(p, b)' <=> Made(p, b)
      BY <2>0, <3>1, <3>2
    <3>4. \A b \in owned[p], j \in 1..at'[p] - 1 : script[p][j] # Free(b)
      BY <2>0, <2>3, <2>4, <3>1
    <3> QED BY <2>3, <2>4, <3>1, <3>3, <3>4
  <2> QED
    BY <1>2, <2>5, <2>6, <2>7, <2>8, <2>9, <2>10, <2>11 DEF Call
<1> QED BY <1>1, <1>2, Still

-----------------------------------------------------------------------------

(***************************************************************************)
(* The log: heap H[k] is the heap of a PE that has carried out the first k *)
(* calls of program s, and A[b] is where that puts box b.                  *)
(***************************************************************************)
Heaps == [Slot -> Box \cup {None}]

Effect(h, A, c) ==
  IF c.kind = "alloc" THEN IF A[c.box] = None THEN h ELSE [h EXCEPT ![A[c.box]] = c.box]
  ELSE IF c.kind = "free" THEN [h EXCEPT ![A[c.box]] = None]
  ELSE h

\* b is allocated by the first k calls of s, and not freed by them.
InUse(s, k, b) ==
  /\ \E i \in 1..k : s[i] = Alloc(b)
  /\ \A j \in 1..k : s[j] # Free(b)

IsLog(s, H, A, n) ==
  /\ s \in Programs /\ n \in 0..Len(s)
  /\ H \in [Nat -> Heaps] /\ A \in [Box -> Slot \cup {None}]
  /\ \A k \in 1..n : H[k] = Effect(H[k - 1], A, s[k])
  /\ \A k \in 1..n, b \in Box : s[k] = Alloc(b) => A[b] = Place(H[k - 1])
  /\ \A k \in 0..n, b \in Box : A[b] # None /\ InUse(s, k, b) => H[k][A[b]] = b

\* The calls that p has carried out on its heap.
Executed(p) ==
  IF pc[p] # "run" /\ ~ \E b \in Box : Cur(p) = Free(b) THEN at[p] ELSE at[p] - 1

Linked(s, H, A, n) ==
  \A p \in PE :
    /\ script[p] = s
    /\ Executed(p) <= n
    /\ heap[p] = H[Executed(p)]
    /\ \A b \in Box : (\E i \in 1..Executed(p) : s[i] = Alloc(b)) => addr[p][b] = A[b]

Log == \E s, H, A, n : IsLog(s, H, A, n) /\ Linked(s, H, A, n)

LEMMA CallFields ==
  /\ \A b \in Box : Alloc(b).kind = "alloc" /\ Alloc(b).box = b
  /\ \A b \in Box : Free(b).kind = "free" /\ Free(b).box = b
  /\ BarrierAll.kind = "barrier" /\ Finalize.kind = "finalize"
  BY DEF Alloc, Free, BarrierAll, Finalize

LEMMA CallKinds ==
  ASSUME NEW c \in Op
  PROVE  \/ \E b \in Box : c = Alloc(b)
         \/ \E b \in Box : c = Free(b)
         \/ c.kind \notin {"alloc", "free"}
<1>1. CASE c = BarrierAll \/ c = Finalize
  BY <1>1, CallFields
<1>2. CASE c # BarrierAll /\ c # Finalize
  BY <1>2 DEF Op
<1> QED BY <1>1, <1>2

LEMMA EffectType ==
  ASSUME NEW h \in Heaps, NEW A, NEW c \in Op
  PROVE  Effect(h, A, c) \in Heaps
<1>1. ASSUME NEW b \in Box, c = Alloc(b) PROVE Effect(h, A, c) \in Heaps
  <2>1. c.kind = "alloc" /\ c.box = b
    BY <1>1, CallFields
  <2>2. [h EXCEPT ![A[b]] = b] \in Heaps
    BY DEF Heaps
  <2> QED BY <2>1, <2>2 DEF Effect
<1>2. CASE \E b \in Box : c = Free(b)
  BY <1>2, CallFields DEF Effect, Heaps
<1>3. CASE c.kind \notin {"alloc", "free"}
  BY <1>3 DEF Effect
<1> QED BY <1>1, <1>2, <1>3, CallKinds

(***************************************************************************)
(* One more call can always be added to a log, and nothing in it changes.  *)
(***************************************************************************)
LEMMA LogExtends ==
  ASSUME NEW s, NEW H, NEW A, NEW n, IsLog(s, H, A, n), n + 1 <= Len(s),
         \A b \in Box : s[n + 1] = Free(b) => \E i \in 1..n : s[i] = Alloc(b)
  PROVE  \E H2, A2 :
           /\ IsLog(s, H2, A2, n + 1)
           /\ \A k \in 0..n : H2[k] = H[k]
           /\ \A b \in Box : (\E i \in 1..n : s[i] = Alloc(b)) => A2[b] = A[b]
<1> DEFINE c == s[n + 1]
           A2 == IF c.kind = "alloc" THEN [A EXCEPT ![c.box] = Place(H[n])] ELSE A
           h == Effect(H[n], A2, c)
           H2 == [H EXCEPT ![n + 1] = h]
<1>1. /\ s \in Programs /\ WellFormed(s) /\ n \in Nat /\ n + 1 \in 1..Len(s)
      /\ Len(s) \in Nat /\ \A i \in 1..Len(s) : s[i] \in Op
      /\ H \in [Nat -> Heaps] /\ A \in [Box -> Slot \cup {None}] /\ H[n] \in Heaps
  BY ProgramsAssumption DEF IsLog, WellFormed
<1>2. /\ \A i, j \in 1..Len(s) : s[i] = s[j] /\ s[i] # BarrierAll => i = j
      /\ \A b \in Box : \A i, j \in 1..Len(s) : s[i] = Alloc(b) /\ s[j] = Free(b) => i < j
  BY <1>1, OneProgram DEF WellFormed
<1>3. c \in Op
  BY <1>1
<1>4. A2 \in [Box -> Slot \cup {None}]
  BY <1>1, PlaceEmpty
<1>5. H2 \in [Nat -> Heaps] /\ H2[n + 1] = h /\ \A k \in 0..n : H2[k] = H[k]
  BY <1>1, <1>3, EffectType
<1>6. \A b \in Box : c = Alloc(b) => A2[b] = Place(H[n])
  BY <1>1, CallFields
<1>7. \A b \in Box : c # Alloc(b) => A2[b] = A[b]
  <2>1. CASE \E d \in Box : c = Alloc(d)
    BY <1>1, <2>1, CallFields
  <2>2. CASE ~ \E d \in Box : c = Alloc(d)
    BY <1>3, <2>2, CallKinds, CallFields
  <2> QED BY <2>1, <2>2
<1>8. \A b \in Box, i \in 1..n : s[i] = Alloc(b) => A2[b] = A[b]
  <2>1. ASSUME NEW b \in Box, NEW i \in 1..n, s[i] = Alloc(b) PROVE c # Alloc(b)
    BY <1>1, <1>2, <2>1, CallsDiffer
  <2> QED BY <1>7, <2>1
<1>9. \A b \in Box, i \in 1..n : s[i] = Free(b) => A2[b] = A[b]
  <2>1. ASSUME NEW b \in Box, NEW i \in 1..n, s[i] = Free(b) PROVE c # Alloc(b)
    BY <1>1, <1>2, <2>1
  <2> QED BY <1>7, <2>1
<1> HIDE DEF A2, H2
<1>10. \A k \in 1..n + 1 : H2[k] = Effect(H2[k - 1], A2, s[k])
  <2>1. ASSUME NEW k \in 1..n PROVE H2[k] = Effect(H2[k - 1], A2, s[k])
    <3>1. s[k] \in Op /\ k - 1 \in 0..n /\ k \in 0..n
      BY <1>1
    <3>2. H2[k] = Effect(H2[k - 1], A, s[k])
      BY <1>5, <3>1 DEF IsLog
    <3>3. CASE \E b \in Box : s[k] = Alloc(b)
      BY <1>8, <3>2, <3>3, CallFields DEF Effect
    <3>4. CASE \E b \in Box : s[k] = Free(b)
      BY <1>9, <3>2, <3>4, CallFields DEF Effect
    <3>5. CASE s[k].kind \notin {"alloc", "free"}
      BY <3>2, <3>5 DEF Effect
    <3> QED BY <3>1, <3>3, <3>4, <3>5, CallKinds
  <2>2. H2[n + 1] = Effect(H2[n + 1 - 1], A2, s[n + 1])
    BY <1>1, <1>5
  <2> QED BY <1>1, <2>1, <2>2
<1>11. \A k \in 1..n + 1, b \in Box : s[k] = Alloc(b) => A2[b] = Place(H2[k - 1])
  <2>1. ASSUME NEW k \in 1..n, NEW b \in Box, s[k] = Alloc(b)
        PROVE  A2[b] = Place(H2[k - 1])
    <3>1. k - 1 \in 0..n
      BY <1>1
    <3> QED BY <1>5, <1>8, <2>1, <3>1 DEF IsLog
  <2>2. \A b \in Box : s[n + 1] = Alloc(b) => A2[b] = Place(H2[n + 1 - 1])
    BY <1>1, <1>5, <1>6
  <2> QED BY <1>1, <2>1, <2>2
<1>12. \A k \in 0..n + 1, b \in Box : A2[b] # None /\ InUse(s, k, b) => H2[k][A2[b]] = b
  <2>1. ASSUME NEW k \in 0..n, NEW b \in Box, A2[b] # None, InUse(s, k, b)
        PROVE  H2[k][A2[b]] = b
    BY <1>1, <1>5, <1>8, <2>1 DEF IsLog, InUse
  <2>2. ASSUME NEW b \in Box, A2[b] # None, InUse(s, n + 1, b) PROVE h[A2[b]] = b
    <3>1. A2[b] \in Slot
      BY <1>4, <2>2
    <3>2. CASE c = Alloc(b)
      <4>1. c.kind = "alloc" /\ c.box = b
        BY <3>2, CallFields
      <4> QED BY <1>1, <2>2, <3>1, <4>1 DEF Effect, Heaps
    <3>3. CASE c # Alloc(b)
      <4>1. InUse(s, n, b)
        <5>1. PICK i \in 1..n + 1 : s[i] = Alloc(b)
          BY <2>2 DEF InUse
        <5>2. i \in 1..n
          BY <1>1, <3>3, <5>1
        <5>3. 1..n \subseteq 1..n + 1
          BY <1>1
        <5> QED BY <2>2, <5>1, <5>2, <5>3 DEF InUse
      <4>2. A2[b] = A[b] /\ H[n][A[b]] = b
        BY <1>1, <1>7, <2>2, <3>3, <4>1 DEF IsLog
      <4>3. ASSUME NEW d \in Box, c = Alloc(d) PROVE h[A2[b]] = b
        <5>1. A2[d] = Place(H[n]) /\ c.kind = "alloc" /\ c.box = d
          BY <1>6, <4>3, CallFields
        <5>2. A2[d] # None => A2[d] # A2[b]
          BY <1>4, <4>2, <5>1, PlaceEmpty, NoneAssumption
        <5> QED BY <1>1, <3>1, <4>2, <5>1, <5>2 DEF Effect, Heaps
      <4>4. ASSUME NEW d \in Box, c = Free(d) PROVE h[A2[b]] = b
        <5>1. d # b
          BY <1>1, <2>2, <4>4 DEF InUse
        <5>2. InUse(s, n, d)
          BY <1>1, <1>2, <4>4, CallsDiffer DEF InUse
        <5>3. A2[d] = A[d]
          BY <1>7, <4>4, CallsDiffer
        <5>4. A2[d] # A2[b]
          BY <1>1, <4>2, <5>1, <5>2, <5>3, <2>2 DEF IsLog
        <5>5. c.kind = "free" /\ c.box = d
          BY <4>4, CallFields
        <5> QED BY <1>1, <3>1, <4>2, <5>4, <5>5 DEF Effect, Heaps
      <4>5. CASE c.kind \notin {"alloc", "free"}
        BY <4>2, <4>5 DEF Effect
      <4> QED BY <1>3, <4>3, <4>4, <4>5, CallKinds
    <3> QED BY <3>2, <3>3
  <2> QED BY <1>1, <1>5, <2>1, <2>2
<1>13. IsLog(s, H2, A2, n + 1)
  BY <1>1, <1>4, <1>5, <1>10, <1>11, <1>12 DEF IsLog
<1> QED BY <1>5, <1>8, <1>13

LEMMA LogInit == Init => Log
<1> SUFFICES ASSUME Init PROVE Log
  OBVIOUS
<1> PICK s \in Programs : script = [p \in PE |-> s]
  BY DEF Init
<1> DEFINE H == [k \in Nat |-> [x \in Slot |-> None]]
           A == [b \in Box |-> None]
<1>1. IsLog(s, H, A, 0)
  BY ProgramsAssumption DEF IsLog, Heaps, WellFormed, InUse
<1>2. \A p \in PE : Executed(p) = 0
  <2>1. ASSUME NEW p \in PE PROVE Executed(p) = 0
    <3>1. at[p] = 1 /\ pc[p] = "run" /\ 1 - 1 = 0
      BY DEF Init
    <3> QED BY <3>1 DEF Executed, Cur
  <2> QED BY <2>1
<1>3. Linked(s, H, A, 0)
  <2>1. \A p \in PE : script[p] = s /\ heap[p] = [x \in Slot |-> None]
    BY DEF Init
  <2>2. H[0] = [x \in Slot |-> None]
    OBVIOUS
  <2>3. \A i \in 1..0 : FALSE
    OBVIOUS
  <2> HIDE DEF H, A
  <2>4. ASSUME NEW p \in PE
        PROVE  /\ Executed(p) <= 0
               /\ heap[p] = H[Executed(p)]
               /\ ~ \E i \in 1..Executed(p) : TRUE
    BY <1>2, <2>1, <2>2, <2>3
  <2> QED BY <2>1, <2>4 DEF Linked
<1> QED BY <1>1, <1>3 DEF Log

(***************************************************************************)
(* What a call of p does to the log: nothing, or p carries out the next    *)
(* call of its program.                                                    *)
(***************************************************************************)
Executes(p) == EnterAlloc(p) \/ EnterBarrierAll(p) \/ EnterFinalize(p) \/ Release(p)

LEMMA ExecutedStep ==
  ASSUME TypeOK, SameProgram, NEW p \in PE, Call(p)
  PROVE  /\ \A q \in PE \ {p} : /\ Executed(q)' = Executed(q)
                                /\ UNCHANGED <<script, heap[q], addr[q]>>
         /\ Executes(p) => Executed(p) = at[p] - 1 /\ Executed(p)' = at[p]
         /\ ~ Executes(p) => Executed(p)' = Executed(p) /\ UNCHANGED <<script, heap, addr>>
<1>1. /\ at \in [PE -> Nat] /\ pc \in [PE -> Stage]
      /\ heap \in [PE -> [Slot -> Box \cup {None}]]
      /\ addr \in [PE -> [Box -> Slot \cup {None}]]
  BY DEF TypeOK
<1>2. ASSUME NEW q \in PE \ {p}
      PROVE  UNCHANGED <<script, at[q], pc[q], heap[q], addr[q]>>
  BY <1>1 DEF Call, EnterAlloc, EnterFree, EnterBarrierAll, EnterFinalize,
              Arrive, Leave, StoreInitial, Release, Return, GoTo, GoOn
<1>3. \A q \in PE \ {p} : Executed(q)' = Executed(q)
  BY <1>2 DEF Executed, Cur
<1> USE DEF Executed, Cur
<1>4. CASE EnterAlloc(p)
  <2>1. /\ pc[p] = "run" /\ pc'[p] = "quiet" /\ UNCHANGED <<script, at>>
        /\ \E b \in Box : Cur(p) = Alloc(b)
    BY <1>1, <1>4 DEF EnterAlloc
  <2> QED BY <1>2, <1>3, <1>4, <2>1, CallsDiffer DEF Executes
<1>5. CASE EnterBarrierAll(p) \/ EnterFinalize(p)
  <2>1. /\ pc[p] = "run" /\ pc'[p] = "quiet" /\ UNCHANGED <<script, at>>
        /\ Cur(p) \in {BarrierAll, Finalize}
    BY <1>1, <1>5 DEF EnterBarrierAll, EnterFinalize
  <2> QED BY <1>2, <1>3, <1>5, <2>1, CallsDiffer DEF Executes
<1>6. CASE Release(p)
  <2>1. /\ pc[p] = "free" /\ pc'[p] = "run" /\ UNCHANGED script /\ at'[p] = at[p] + 1
        /\ \E b \in Box : Cur(p) = Free(b)
    BY <1>1, <1>6 DEF Release, GoOn
  <2>2. Executed(p) = at[p] - 1
    BY <2>1
  <2>3. Executed(p)' = at[p]
    BY <1>1, <2>1
  <2>4. Executes(p)
    BY <1>6 DEF Executes
  <2> QED BY <1>2, <1>3, <2>2, <2>3, <2>4
<1>7. CASE EnterFree(p)
  <2>1. /\ pc[p] = "run" /\ pc'[p] = "quiet" /\ UNCHANGED <<script, at, heap, addr>>
        /\ \E b \in Box : Cur(p) = Free(b)
    BY <1>1, <1>7 DEF EnterFree, TypeOK
  <2>2. ~ Executes(p)
    BY <2>1, CallsDiffer DEF Executes, EnterAlloc, EnterBarrierAll, EnterFinalize, Release, GoOn
  <2> QED BY <1>1, <1>2, <1>3, <2>1, <2>2
<1>8. CASE Arrive(p)
  <2>1. pc[p] = "quiet" /\ pc'[p] = "barrier" /\ UNCHANGED <<script, at, heap, addr>>
    BY <1>1, <1>8 DEF Arrive
  <2>2. ~ Executes(p)
    BY <2>1 DEF Executes, EnterAlloc, EnterBarrierAll, EnterFinalize, Release, GoOn
  <2> QED BY <1>1, <1>2, <1>3, <2>1, <2>2
<1>9. CASE Leave(p)
  <2>1. pc[p] = "barrier" /\ UNCHANGED <<script, heap, addr>>
    BY <1>9 DEF Leave, Return, GoTo, GoOn
  <2>2. ~ Executes(p)
    BY <2>1 DEF Executes, EnterAlloc, EnterBarrierAll, EnterFinalize, Release, GoOn
  <2>3. \/ at' = at /\ pc'[p] # "run"
        \/ Cur(p) = BarrierAll /\ at'[p] = at[p] + 1 /\ pc'[p] = "run"
    BY <1>1, <1>9 DEF Leave, Return, GoTo, GoOn
  <2>4. Executed(p)' = Executed(p)
    <3>1. CASE at' = at /\ pc'[p] # "run"
      BY <2>1, <3>1
    <3>2. CASE Cur(p) = BarrierAll /\ at'[p] = at[p] + 1 /\ pc'[p] = "run"
      BY <1>1, <2>1, <3>2, CallsDiffer
    <3> QED BY <2>3, <3>1, <3>2
  <2> QED BY <1>2, <1>3, <2>1, <2>2, <2>4
<1>10. CASE StoreInitial(p)
  <2>1. /\ pc[p] = "init" /\ pc'[p] = "run" /\ UNCHANGED <<script, heap, addr>>
        /\ at'[p] = at[p] + 1 /\ \E b \in Box : Cur(p) = Alloc(b)
    BY <1>1, <1>10 DEF StoreInitial, GoOn
  <2>2. ~ Executes(p)
    BY <2>1 DEF Executes, EnterAlloc, EnterBarrierAll, EnterFinalize, Release, GoOn
  <2> QED BY <1>1, <1>2, <1>3, <2>1, <2>2, CallsDiffer
<1> QED BY <1>4, <1>5, <1>6, <1>7, <1>8, <1>9, <1>10 DEF Call

\* A log that is long enough for the call p is about to carry out.
LEMMA LongEnough ==
  ASSUME TypeOK, SameProgram, Stages, Handles, Log, NEW p \in PE, Executes(p),
         Executed(p) = at[p] - 1
  PROVE  \E s, H, A, n : IsLog(s, H, A, n) /\ Linked(s, H, A, n) /\ at[p] <= n
<1> PICK s, H, A, n : IsLog(s, H, A, n) /\ Linked(s, H, A, n)
  BY DEF Log
<1>1. n \in Nat /\ at[p] \in Nat /\ at[p] <= Len(s) /\ script[p] = s /\ at[p] - 1 <= n
  BY ProgramFacts, ProgramsAssumption DEF IsLog, Linked, WellFormed, TypeOK
<1>2. CASE at[p] <= n
  BY <1>2
<1>3. CASE at[p] = n + 1
  <2>1. \A b \in Box : s[n + 1] = Free(b) => \E i \in 1..n : s[i] = Alloc(b)
    <3>1. ASSUME NEW b \in Box, Cur(p) = Free(b) PROVE Made(p, b)
      BY <3>1, CallsDiffer
         DEF Executes, EnterAlloc, EnterBarrierAll, EnterFinalize, Release, Handles, HandlesOf, GoOn
    <3> QED BY <1>1, <1>3, <3>1 DEF Cur, Made
  <2>2. PICK H2, A2 :
           /\ IsLog(s, H2, A2, n + 1)
           /\ \A k \in 0..n : H2[k] = H[k]
           /\ \A b \in Box : (\E i \in 1..n : s[i] = Alloc(b)) => A2[b] = A[b]
    BY <1>1, <1>3, <2>1, LogExtends
  <2>3. \A q \in PE : Executed(q) \in 0..n /\ 1..Executed(q) \subseteq 1..n
    BY <1>1, ProgramFacts DEF Executed, Linked, TypeOK
  <2>4. Linked(s, H2, A2, n + 1)
    <3>1. ASSUME NEW q \in PE
          PROVE  heap[q] = H2[Executed(q)] /\ Executed(q) <= n + 1
      BY <1>1, <2>2, <2>3 DEF Linked
    <3>2. ASSUME NEW q \in PE, NEW b \in Box, \E i \in 1..Executed(q) : s[i] = Alloc(b)
          PROVE  addr[q][b] = A2[b]
      <4>1. \E i \in 1..n : s[i] = Alloc(b)
        BY <2>3, <3>2
      <4> QED BY <2>2, <3>2, <4>1 DEF Linked
    <3> QED BY <3>1, <3>2 DEF Linked
  <2> QED BY <1>1, <1>3, <2>2, <2>4
<1> QED BY <1>1, <1>2, <1>3

\* The call p carries out is the next one of the log.
LEMMA LogFollowed ==
  ASSUME TypeOK, SameProgram, Stages, Handles, NEW p \in PE, Executes(p),
         Executed(p) = at[p] - 1,
         NEW s, NEW H, NEW A, NEW n, IsLog(s, H, A, n), Linked(s, H, A, n), at[p] <= n
  PROVE  /\ heap'[p] = H[at[p]]
         /\ \A b \in Box : (\E i \in 1..at[p] : s[i] = Alloc(b)) => addr'[p][b] = A[b]
<1>1. /\ heap \in [PE -> [Slot -> Box \cup {None}]]
      /\ addr \in [PE -> [Box -> Slot \cup {None}]]
      /\ at[p] \in 1..n /\ at[p] \in 1..Len(s) /\ script[p] = s /\ Cur(p) = s[at[p]]
      /\ heap[p] = H[at[p] - 1]
  BY ProgramFacts DEF TypeOK, IsLog, Linked, Cur
<1>2. H[at[p]] = Effect(heap[p], A, Cur(p))
  BY <1>1 DEF IsLog
<1>3. \A b \in Box : (\E i \in 1..at[p] - 1 : s[i] = Alloc(b)) => addr[p][b] = A[b]
  BY DEF Linked
<1>4. \A i \in 1..at[p] : i = at[p] \/ i \in 1..at[p] - 1
  BY <1>1
<1>5. CASE EnterAlloc(p)
  <2> PICK b \in Box : /\ Cur(p) = Alloc(b)
                       /\ addr' = [addr EXCEPT ![p][b] = Place(heap[p])]
                       /\ heap' = IF Place(heap[p]) = None THEN heap
                                  ELSE [heap EXCEPT ![p][Place(heap[p])] = b]
    BY <1>5 DEF EnterAlloc
  <2>0. Cur(p).kind = "alloc" /\ Cur(p).box = b
    BY CallFields
  <2>1. A[b] = Place(heap[p])
    BY <1>1 DEF IsLog
  <2>2. heap'[p] = H[at[p]]
    BY <1>1, <1>2, <2>0, <2>1 DEF Effect
  <2>3. addr'[p][b] = A[b] /\ \A d \in Box \ {b} : addr'[p][d] = addr[p][d]
    BY <1>1, <2>1
  <2>4. ASSUME NEW d \in Box, NEW i \in 1..at[p], s[i] = Alloc(d) PROVE addr'[p][d] = A[d]
    <3>1. CASE d = b
      BY <2>3, <3>1
    <3>2. CASE d # b
      <4>1. i # at[p]
        BY <1>1, <2>4, <3>2, CallsDiffer
      <4>2. addr[p][d] = A[d]
        BY <1>3, <1>4, <2>4, <4>1
      <4> QED BY <2>3, <3>2, <4>2
    <3> QED BY <3>1, <3>2
  <2> QED BY <2>2, <2>4
<1>6. CASE EnterBarrierAll(p) \/ EnterFinalize(p)
  <2>1. Cur(p) \in {BarrierAll, Finalize} /\ UNCHANGED <<heap, addr>>
    BY <1>6 DEF EnterBarrierAll, EnterFinalize
  <2>2. heap'[p] = H[at[p]]
    BY <1>2, <2>1, CallFields DEF Effect
  <2> QED BY <1>1, <1>3, <1>4, <2>1, <2>2, CallsDiffer
<1>7. CASE Release(p)
  <2> PICK b \in Box : /\ Cur(p) = Free(b)
                       /\ heap' = [heap EXCEPT ![p][addr[p][b]] = None]
    BY <1>7 DEF Release, GoOn
  <2>0. Cur(p).kind = "free" /\ Cur(p).box = b
    BY CallFields
  <2>1. pc[p] = "free" /\ addr' = addr
    BY <1>7 DEF Release, GoOn
  <2>2. Made(p, b)
    BY <2>1 DEF Handles, HandlesOf
  <2>3. addr[p][b] = A[b]
    BY <1>1, <1>3, <2>2 DEF Made
  <2>4. heap'[p] = H[at[p]]
    BY <1>1, <1>2, <2>0, <2>3 DEF Effect
  <2>5. ASSUME NEW d \in Box, NEW i \in 1..at[p], s[i] = Alloc(d) PROVE addr'[p][d] = A[d]
    <3>1. i # at[p]
      BY <1>1, <2>5, CallsDiffer
    <3> QED BY <1>3, <1>4, <2>1, <2>5, <3>1
  <2> QED BY <2>4, <2>5
<1> QED BY <1>5, <1>6, <1>7 DEF Executes

LEMMA LogStep ==
  TypeOK /\ SameProgram /\ Stages /\ Handles /\ Log /\ [Next]_vars => Log'
<1> SUFFICES ASSUME TypeOK, SameProgram, Stages, Handles, Log, [Next]_vars PROVE Log'
  OBVIOUS
<1>1. ASSUME UNCHANGED <<script, heap, addr>>, \A q \in PE : Executed(q)' = Executed(q)
      PROVE  Log'
  BY <1>1 DEF Log, Linked
<1>2. CASE UNCHANGED <<script, at, pc, heap, addr, owned>>
  BY <1>1, <1>2 DEF Executed, Cur
<1>3. ASSUME NEW p \in PE, Call(p), Executes(p) PROVE Log'
  <2>1. Executed(p) = at[p] - 1 /\ Executed(p)' = at[p]
    BY <1>3, ExecutedStep
  <2>2. PICK s, H, A, n : IsLog(s, H, A, n) /\ Linked(s, H, A, n) /\ at[p] <= n
    BY <1>3, <2>1, LongEnough
  <2>3. /\ heap'[p] = H[at[p]]
        /\ \A b \in Box : (\E i \in 1..at[p] : s[i] = Alloc(b)) => addr'[p][b] = A[b]
    BY <1>3, <2>1, <2>2, LogFollowed
  <2>4. script' = script
    BY <1>3 DEF Executes, EnterAlloc, EnterBarrierAll, EnterFinalize, Release, GoOn
  <2>5. ASSUME NEW q \in PE \ {p}
        PROVE  Executed(q)' = Executed(q) /\ UNCHANGED <<heap[q], addr[q]>>
    BY <1>3, ExecutedStep
  <2>6. Linked(s, H, A, n)'
    BY <2>1, <2>2, <2>3, <2>4, <2>5 DEF Linked
  <2> QED BY <2>2, <2>6 DEF Log
<1>4. ASSUME NEW p \in PE, Call(p), ~ Executes(p) PROVE Log'
  BY <1>1, <1>4, ExecutedStep
<1> QED BY <1>2, <1>3, <1>4, Still

-----------------------------------------------------------------------------

LEMMA MessagesInit == Init => Messages
  BY DEF Init, Messages

LEMMA MessagesStep ==
  TypeOK /\ SameProgram /\ Handles /\ Messages /\ [Next]_vars => Messages'
<1> SUFFICES ASSUME TypeOK, SameProgram, Handles, Messages, [Next]_vars PROVE Messages'
  OBVIOUS
<1> DEFINE Pending(m) ==
      /\ pc[m.src] \in {"run", "quiet"}
      /\ m.epoch = at[m.src]
      /\ m.to = addr[m.src][m.box]
      /\ Holds(m.src, m.box)
      /\ Fenced => Published(m.src, m.box)
<1>1. /\ \A m \in inflight : m.src \in PE /\ m.box \in Box
      /\ at \in [PE -> Nat] /\ pc \in [PE -> Stage]
      /\ addr \in [PE -> [Box -> Slot \cup {None}]] /\ owned \in [PE -> SUBSET Box]
  BY DEF TypeOK, Update
<1>2. ASSUME NEW m \in inflight,
             UNCHANGED <<script, at[m.src], pc[m.src], addr[m.src], owned[m.src]>>
      PROVE  Pending(m)'
  BY <1>2 DEF Messages, Holds, Published, Cur
<1>3. ASSUME NEW p \in PE, Call(p) PROVE Messages'
  <2>1. inflight' = inflight
    BY <1>3 DEF Call, EnterAlloc, EnterFree, EnterBarrierAll, EnterFinalize,
                Arrive, Leave, StoreInitial, Release, Return, GoTo, GoOn
  <2>2. \A q \in PE \ {p} : UNCHANGED <<script, at[q], pc[q], addr[q], owned[q]>>
    BY <1>1, <1>3 DEF Call, EnterAlloc, EnterFree, EnterBarrierAll, EnterFinalize,
                      Arrive, Leave, StoreInitial, Release, Return, GoTo, GoOn
  <2>3. ASSUME NEW m \in inflight, m.src = p PROVE Pending(m)'
    <3>1. m.box \in Box /\ Pending(m)
      BY <1>1 DEF Messages
    <3>2. CASE EnterAlloc(p)
      <4> PICK b \in Box : /\ Cur(p) = Alloc(b)
                           /\ addr' = [addr EXCEPT ![p][b] = Place(heap[p])]
        BY <3>2 DEF EnterAlloc
      <4>1. pc[p] = "run" /\ pc'[p] = "quiet" /\ UNCHANGED <<script, at, owned>>
        BY <1>1, <3>2 DEF EnterAlloc
      <4>2. m.box \in owned[p] /\ Made(p, m.box)
        BY <2>3, <3>1, <4>1 DEF Holds, Handles, HandlesOf
      <4>3. m.box # b
        BY <4>2, ProgramFacts, CallsDiffer DEF Made, Cur
      <4>4. addr'[p][m.box] = addr[p][m.box]
        BY <1>1, <3>1, <4>3
      <4> QED BY <2>3, <3>1, <4>1, <4>2, <4>4 DEF Holds, Published
    <3>3. CASE EnterFree(p)
      <4> PICK b \in owned[p] : Cur(p) = Free(b) /\ owned' = [owned EXCEPT ![p] = @ \ {b}]
        BY <3>3 DEF EnterFree
      <4>1. pc[p] = "run" /\ pc'[p] = "quiet" /\ UNCHANGED <<script, at, addr>>
        BY <1>1, <3>3 DEF EnterFree
      <4>2. m.box \in owned[p]
        BY <2>3, <3>1, <4>1 DEF Holds
      <4>3. m.box = b \/ m.box \in owned'[p]
        BY <1>1, <4>2
      <4>4. Holds(p, m.box)'
        BY <4>1, <4>3 DEF Holds, Cur
      <4> QED BY <2>3, <3>1, <4>1, <4>4 DEF Published
    <3>4. CASE EnterBarrierAll(p) \/ EnterFinalize(p)
      <4>1. pc[p] = "run" /\ pc'[p] = "quiet" /\ UNCHANGED <<script, at, addr, owned>>
        BY <1>1, <3>4 DEF EnterBarrierAll, EnterFinalize
      <4> QED BY <2>3, <3>1, <4>1 DEF Holds, Published
    <3>5. CASE Arrive(p)
      BY <2>3, <3>5 DEF Arrive
    <3>6. CASE Leave(p) \/ StoreInitial(p) \/ Release(p)
      BY <2>3, <3>1, <3>6 DEF Leave, StoreInitial, Release, Return, GoTo, GoOn
    <3> QED BY <1>3, <3>2, <3>3, <3>4, <3>5, <3>6 DEF Call
  <2>4. \A m \in inflight : Pending(m)'
    BY <1>1, <1>2, <2>2, <2>3
  <2> QED BY <2>1, <2>4 DEF Messages
<1>4. ASSUME NEW p \in PE, NEW q \in PE, NEW b \in Box, AtomicInc(p, q, b) PROVE Messages'
  <2> DEFINE new == [src |-> p, dst |-> q, box |-> b, to |-> addr[p][b],
                     epoch |-> at[p], n |-> issued[p]]
  <2>1. /\ inflight' = inflight \cup {new} /\ UNCHANGED <<script, at, pc, addr, owned>>
        /\ pc[p] = "run" /\ b \in owned[p] /\ (Fenced => Published(p, b))
    BY <1>4 DEF AtomicInc
  <2>2. \A m \in inflight : Pending(m)'
    BY <1>1, <1>2, <2>1
  <2>3. Pending(new)'
    BY <2>1 DEF Holds, Published
  <2> QED BY <2>1, <2>2, <2>3 DEF Messages
<1>5. ASSUME NEW p \in PE, DeliverFrom(p) PROVE Messages'
  <2>1. inflight' \subseteq inflight /\ UNCHANGED <<script, at, pc, addr, owned>>
    BY <1>5 DEF DeliverFrom, Deliver
  <2> QED BY <1>2, <2>1 DEF Messages
<1>6. CASE UNCHANGED vars
  BY <1>2, <1>6 DEF vars, Messages
<1> QED BY <1>3, <1>4, <1>5, <1>6 DEF Next, Done

(***************************************************************************)
(* The inductive invariant.                                                *)
(***************************************************************************)
IInv == TypeOK /\ SameProgram /\ Stages /\ InStep /\ Handles /\ Messages /\ Log

THEOREM Inductive == Spec => []IInv
<1>1. Init => IInv
  BY TypeInit, InStepInit, HandlesInit, MessagesInit, LogInit DEF IInv
<1>2. IInv /\ [Next]_vars => IInv'
  BY TypeStep, InStepStep, HandlesStep, MessagesStep, LogStep DEF IInv
<1> QED BY <1>1, <1>2, PTL DEF Spec

-----------------------------------------------------------------------------

(***************************************************************************)
(* Every state of every run is well typed, and the heaps of all PEs follow *)
(* one log.                                                                *)
(***************************************************************************)
THEOREM TypeCorrect == Spec => []TypeOK
BY Inductive, PTL DEF IInv

(***************************************************************************)
(* A barrier flushes.                                                      *)
(***************************************************************************)
THEOREM BarrierFlushesUpdates == Spec => []BarrierFlushes
<1>1. IInv => BarrierFlushes
  <2> SUFFICES ASSUME IInv, NEW m \in inflight, NEW p \in PE PROVE Left(p) < m.epoch
    BY DEF BarrierFlushes
  <2>1. m.src \in PE /\ m.epoch = at[m.src] /\ Arrived(m.src) = at[m.src] - 1
    BY DEF IInv, Messages, Arrived, TypeOK, Update
  <2>2. Left(p) <= Arrived(m.src)
    BY <2>1 DEF IInv, InStep
  <2>3. Left(p) \in Int /\ at[m.src] \in Int
    BY <2>1, Counts DEF IInv
  <2> QED BY <2>1, <2>2, <2>3
<1> QED BY <1>1, Inductive, PTL

(***************************************************************************)
(* While p holds box b, every PE has allocated it and none has freed it:   *)
(* this is what the barriers of shmem_align and shmem_free are for.        *)
(***************************************************************************)
LEMMA HeldIsInUse ==
  ASSUME IInv, NEW p \in PE, NEW q \in PE, NEW b \in Box, Holds(p, b)
  PROVE  Made(p, b) /\ InUse(script[p], Executed(q), b)
<1> USE DEF IInv
<1>1. Made(p, b)
  BY DEF Holds, Handles, HandlesOf
<1>2. /\ at[p] \in 1..Len(script[p]) /\ at[q] \in 1..Len(script[q])
      /\ script[p] = script[q] /\ Len(script[p]) \in Nat
  BY ProgramFacts DEF SameProgram, TypeOK
<1>3. PICK i \in 1..at[p] - 1 : script[p][i] = Alloc(b)
  BY <1>1 DEF Made
<1>4. Arrived(q) >= Left(p) /\ Arrived(p) >= Left(q)
  BY Counts DEF InStep
<1>5. i \in 1..Executed(q)
  <2>1. Left(p) >= i
    BY <1>2, <1>3 DEF Left
  <2>2. Arrived(q) >= i
    BY <1>2, <1>3, <1>4, <2>1, Counts
  <2>3. CASE i <= at[q] - 1
    BY <1>2, <2>3 DEF Executed
  <2>4. CASE ~ i <= at[q] - 1
    <3>1. i = at[q] /\ pc[q] # "run" /\ Cur(q) = Alloc(b)
      BY <1>2, <1>3, <2>2, <2>4 DEF Arrived, Cur
    <3> QED BY <1>2, <1>3, <3>1, CallsDiffer DEF Executed
  <2> QED BY <2>3, <2>4
<1>6. ASSUME NEW j \in 1..Executed(q), script[p][j] = Free(b) PROVE FALSE
  <2>1. j \in 1..at[q] - 1 /\ Left(q) >= j
    <3>1. Executed(q) \in Int /\ Executed(q) <= at[q]
      BY <1>2 DEF Executed
    <3>2. j # at[q]
      BY <1>2, <1>6, CallsDiffer DEF Executed, Cur
    <3> QED BY <1>2, <1>6, <3>1, <3>2 DEF Left
  <2>2. Arrived(p) >= j
    BY <1>4, <2>1, Counts
  <2>3. j \in 1..at[p]
    BY <1>2, <2>1, <2>2 DEF Arrived
  <2>4. CASE b \in owned[p]
    <3>1. j \notin 1..at[p] - 1 /\ (pc[p] = "run" \/ Cur(p) # Free(b))
      BY <1>6, <2>4 DEF Handles, HandlesOf
    <3>2. j = at[p]
      BY <1>2, <2>3, <3>1
    <3> QED BY <1>2, <1>6, <2>2, <3>1, <3>2 DEF Arrived, Cur
  <2>5. CASE pc[p] = "quiet" /\ Cur(p) = Free(b)
    <3>1. j = at[p]
      BY <1>2, <1>6, <2>1, <2>5, ProgramFacts, CallsDiffer DEF Cur
    <3> QED BY <1>2, <2>2, <2>5, <3>1 DEF Arrived
  <2> QED BY <2>4, <2>5 DEF Holds
<1> QED BY <1>1, <1>3, <1>5, <1>6 DEF InUse

(***************************************************************************)
(* A Shbox names the same object on every PE.                              *)
(***************************************************************************)
LEMMA IInvSymmetric == IInv => SymmetricBox
<1> SUFFICES ASSUME IInv, NEW p \in PE, NEW q \in PE, NEW b \in Box, Holds(p, b)
             PROVE  heap[q][addr[p][b]] = b
  BY DEF SymmetricBox
<1> PICK s, H, A, n : IsLog(s, H, A, n) /\ Linked(s, H, A, n)
  BY DEF IInv, Log
<1>1. Made(p, b) /\ InUse(s, Executed(q), b)
  BY HeldIsInUse DEF Linked
<1>2. addr[p][b] # None
  BY <1>1 DEF IInv, Handles, HandlesOf
<1>3. addr[p][b] = A[b]
  <2>1. 1..at[p] - 1 \subseteq 1..Executed(p)
    BY DEF Executed, IInv, TypeOK
  <2> QED BY <1>1, <2>1 DEF Linked, Made
<1>4. Executed(q) \in 0..n
  <2>1. Executed(q) <= n /\ n \in Nat
    BY ProgramsAssumption DEF Linked, IsLog, WellFormed
  <2>2. at[q] \in Nat /\ at[q] >= 1
    BY ProgramFacts DEF IInv, TypeOK
  <2>3. Executed(q) \in Nat
    <3>1. Executed(q) = at[q] \/ Executed(q) = at[q] - 1
      BY DEF Executed
    <3> QED BY <2>2, <3>1
  <2> QED BY <2>1, <2>3
<1> QED BY <1>1, <1>2, <1>3, <1>4 DEF IsLog, Linked

THEOREM SymmetricBoxes == Spec => []SymmetricBox
BY Inductive, IInvSymmetric, PTL

(***************************************************************************)
(* No update lands in another object.                                      *)
(***************************************************************************)
THEOREM NoStrayUpdates == Spec => []NoStrayUpdate
<1>1. IInv => NoStrayUpdate
  <2> SUFFICES ASSUME IInv, NEW m \in inflight
               PROVE  m.to # None /\ heap[m.dst][m.to] = m.box
    BY DEF NoStrayUpdate
  <2>1. m.src \in PE /\ m.dst \in PE /\ m.box \in Box
    BY DEF IInv, TypeOK, Update
  <2>2. m.to = addr[m.src][m.box] /\ Holds(m.src, m.box)
    BY DEF IInv, Messages
  <2>3. heap[m.dst][m.to] = m.box
    BY <2>1, <2>2, IInvSymmetric DEF SymmetricBox
  <2>4. m.to # None
    BY <2>1, <2>2, HeldIsInUse DEF IInv, Handles, HandlesOf
  <2> QED BY <2>3, <2>4
<1> QED BY <1>1, Inductive, PTL

(***************************************************************************)
(* When the allocation of one PE fails, it fails on every PE: the PEs      *)
(* allocate in heaps that one log explains.                                *)
(***************************************************************************)
THEOREM OutOfMemoryOnAll == Spec => []UnanimousOutOfMemory
<1>1. IInv => UnanimousOutOfMemory
  <2> SUFFICES ASSUME IInv, NEW p \in PE, NEW q \in PE, pc[p] = "aborted"
               PROVE  at[q] = at[p] /\ pc[q] \in {"barrier", "aborted"}
    BY DEF UnanimousOutOfMemory
  <2> PICK s, H, A, n : IsLog(s, H, A, n) /\ Linked(s, H, A, n)
    BY DEF IInv, Log
  <2> PICK b \in Box : Cur(p) = Alloc(b)
    BY DEF IInv, Stages
  <2>1. /\ at[p] \in 1..Len(s) /\ at[q] \in 1..Len(s) /\ Len(s) \in Nat
        /\ script[p] = s /\ script[q] = s /\ s[at[p]] = Alloc(b)
    BY ProgramFacts DEF IInv, TypeOK, Linked, Cur
  <2>2. A[b] = None
    <3>1. addr[p][b] = None
      BY DEF IInv, Handles, HandlesOf
    <3>2. Executed(p) = at[p]
      BY CallsDiffer DEF Executed
    <3>3. addr[p][b] = A[b]
      BY <2>1, <3>2 DEF Linked
    <3> QED BY <3>1, <3>3
  <2>3. Arrived(q) >= at[p]
    <3>1. Left(p) = at[p]
      BY DEF Left
    <3> QED BY <3>1 DEF IInv, InStep
  <2>4. at[q] = at[p]
    <3>1. SUFFICES ASSUME at[q] # at[p] PROVE FALSE
      OBVIOUS
    <3>2. at[p] \in 1..at[q] - 1
      BY <2>1, <2>3, <3>1 DEF Arrived
    <3>3. Made(q, b)
      BY <2>1, <3>2 DEF Made
    <3>4. addr[q][b] # None
      BY <3>3 DEF IInv, Handles, HandlesOf
    <3>5. at[p] \in 1..Executed(q)
      BY <2>1, <3>2 DEF Executed
    <3> QED BY <2>1, <2>2, <3>4, <3>5 DEF Linked
  <2>5. Cur(q) = Alloc(b)
    BY <2>1, <2>4 DEF Cur
  <2>6. pc[q] \notin {"run", "quiet"}
    BY <2>1, <2>3, <2>4 DEF Arrived
  <2>7. pc[q] \notin {"free", "end"}
    BY <2>5, CallsDiffer DEF IInv, Stages
  <2>8. pc[q] # "init"
    <3>1. SUFFICES ASSUME pc[q] = "init" PROVE FALSE
      OBVIOUS
    <3>2. addr[q][b] # None
      BY <2>5, <3>1 DEF IInv, Handles, HandlesOf
    <3>3. Executed(q) = at[q]
      BY <2>5, <3>1, CallsDiffer DEF Executed
    <3> QED BY <2>1, <2>2, <2>4, <3>2, <3>3 DEF Linked
  <2> QED BY <2>4, <2>6, <2>7, <2>8 DEF IInv, TypeOK, Stage
<1> QED BY <1>1, Inductive, PTL

-----------------------------------------------------------------------------

(***************************************************************************)
(* What NoLostUpdate needs besides: a copy that is not constructed yet has *)
(* received no update.                                                     *)
(***************************************************************************)
Counted ==
  \A q \in PE, b \in Box :
    /\ ~ Made(q, b) => applied[q][b] = 0
    /\ b \in owned[q] => mem[q][addr[q][b]] = applied[q][b]

LEMMA CountedInit == Init => Counted
  BY DEF Init, Counted

\* All PEs that have constructed b have it at the same address.
LEMMA SameAddress ==
  ASSUME IInv, NEW p \in PE, NEW q \in PE, NEW b \in Box, Made(p, b), Made(q, b)
  PROVE  addr[p][b] = addr[q][b]
<1> PICK s, H, A, n : IsLog(s, H, A, n) /\ Linked(s, H, A, n)
  BY DEF IInv, Log
<1>1. \A r \in PE : 1..at[r] - 1 \subseteq 1..Executed(r)
  BY DEF Executed, IInv, TypeOK
<1> QED BY <1>1 DEF Linked, Made

\* The slot that p is about to initialize holds its box.
LEMMA InitSlot ==
  ASSUME IInv, NEW p \in PE, NEW b \in Box, pc[p] = "init", Cur(p) = Alloc(b)
  PROVE  addr[p][b] \in Slot /\ heap[p][addr[p][b]] = b
<1> PICK s, H, A, n : IsLog(s, H, A, n) /\ Linked(s, H, A, n)
  BY DEF IInv, Log
<1>1. /\ at[p] \in 1..Len(s) /\ script[p] = s /\ s[at[p]] = Alloc(b)
      /\ addr[p][b] \in Slot \cup {None}
  BY ProgramFacts DEF IInv, TypeOK, Linked, Cur
<1>2. addr[p][b] # None
  BY DEF IInv, Handles, HandlesOf
<1>3. Executed(p) = at[p]
  BY CallsDiffer DEF Executed
<1>4. InUse(s, at[p], b)
  <2>1. \A j \in 1..Len(s) : s[j] = Free(b) => at[p] < j
    BY <1>1, ProgramFacts DEF IInv
  <2>2. at[p] \in 1..at[p] /\ \A j \in 1..at[p] : j \in 1..Len(s) /\ ~ (at[p] < j)
    BY <1>1
  <2> QED BY <1>1, <2>1, <2>2 DEF InUse
<1>5. addr[p][b] = A[b]
  BY <1>1, <1>3 DEF Linked
<1>6. at[p] \in 0..n
  BY <1>1, <1>3, ProgramsAssumption DEF Linked, IsLog, WellFormed
<1>7. heap[p][addr[p][b]] = b
  BY <1>2, <1>3, <1>4, <1>5, <1>6 DEF IsLog, Linked
<1> QED BY <1>1, <1>2, <1>7

\* An update on its way finds its box constructed by its target.
LEMMA PublishedIsMade ==
  ASSUME IInv, Fenced, NEW m \in inflight
  PROVE  Made(m.dst, m.box)
<1> USE DEF IInv
<1>1. m.src \in PE /\ m.dst \in PE /\ m.box \in Box
  BY DEF TypeOK, Update
<1>2. Published(m.src, m.box)
  BY DEF Messages
<1> PICK i \in 1..Len(script[m.src]) : script[m.src][i] = Alloc(m.box) /\ i + 1 < at[m.src]
  BY <1>2 DEF Published
<1>3. script[m.src] = script[m.dst] /\ at[m.src] \in Nat /\ at[m.dst] \in Nat
  BY <1>1 DEF SameProgram, TypeOK
<1>4. Left(m.src) <= Arrived(m.dst)
  BY <1>1 DEF InStep
<1>5. i + 1 <= at[m.dst]
  BY <1>3, <1>4 DEF Left, Arrived
<1> QED BY <1>3, <1>5 DEF Made

LEMMA CountedStep == Fenced /\ IInv /\ Counted /\ [Next]_vars => Counted'
<1> SUFFICES ASSUME Fenced, IInv, Counted, [Next]_vars PROVE Counted'
  OBVIOUS
<1>0. /\ at \in [PE -> Nat] /\ owned \in [PE -> SUBSET Box]
      /\ addr \in [PE -> [Box -> Slot \cup {None}]]
      /\ mem \in [PE -> [Slot -> Nat]] /\ applied \in [PE -> [Box -> Nat]]
  BY DEF IInv, TypeOK
<1>1. \A q \in PE : \A b \in owned[q] : heap[q][addr[q][b]] = b /\ Made(q, b)
  BY <1>0, IInvSymmetric DEF SymmetricBox, Holds, IInv, Handles, HandlesOf
<1>2. \A q \in PE : \A b \in owned[q] : addr[q][b] \in Slot
  BY <1>0, <1>1 DEF IInv, Handles, HandlesOf
<1>3. ASSUME NEW p \in PE, Call(p) PROVE Counted'
  <2>1. applied' = applied
    BY <1>3 DEF Call, EnterAlloc, EnterFree, EnterBarrierAll, EnterFinalize,
                Arrive, Leave, StoreInitial, Release, Return, GoTo, GoOn
  <2>2. \A q \in PE, b \in Box : Made(q, b) => Made(q, b)'
    <3>1. script' = script /\ \A q \in PE : at'[q] = at[q] \/ at'[q] = at[q] + 1
      BY <1>0, <1>3 DEF Call, EnterAlloc, EnterFree, EnterBarrierAll, EnterFinalize,
                        Arrive, Leave, StoreInitial, Release, Return, GoTo, GoOn
    <3>2. \A q \in PE : 1..at[q] - 1 \subseteq 1..at'[q] - 1
      BY <1>0, <3>1
    <3> QED BY <3>1, <3>2 DEF Made
  <2>3. CASE StoreInitial(p)
    <3> PICK b \in Box : /\ Cur(p) = Alloc(b) /\ pc[p] = "init"
                         /\ mem' = [mem EXCEPT ![p][addr[p][b]] = 0]
                         /\ owned' = [owned EXCEPT ![p] = @ \cup {b}]
                         /\ UNCHANGED addr
      BY <2>3 DEF StoreInitial, GoOn
    <3>1. ~ Made(p, b)
      BY ProgramFacts, CallsDiffer DEF Made, Cur, IInv
    <3>2. addr[p][b] \in Slot /\ heap[p][addr[p][b]] = b
      BY InitSlot
    <3>3. mem'[p][addr'[p][b]] = applied'[p][b]
      BY <1>0, <2>1, <3>1, <3>2 DEF Counted
    <3>4. ASSUME NEW q \in PE, NEW d \in Box, d \in owned'[q], ~ (q = p /\ d = b)
          PROVE  mem'[q][addr'[q][d]] = applied'[q][d]
      <4>1. d \in owned[q]
        BY <1>0, <3>4
      <4>2. q = p => addr[q][d] # addr[p][b]
        BY <1>1, <3>2, <3>4, <4>1
      <4>3. mem'[q][addr[q][d]] = mem[q][addr[q][d]]
        BY <1>0, <1>2, <3>2, <4>1, <4>2
      <4> QED BY <2>1, <4>1, <4>3 DEF Counted
    <3> QED BY <2>1, <2>2, <3>3, <3>4 DEF Counted
  <2>4. CASE ~ StoreInitial(p)
    <3>1. \A q \in PE : owned'[q] \subseteq owned[q]
      <4>1. CASE EnterFree(p)
        <5>1. \E b \in owned[p] : owned' = [owned EXCEPT ![p] = @ \ {b}]
          BY <4>1 DEF EnterFree
        <5> QED BY <1>0, <5>1
      <4>2. CASE ~ EnterFree(p)
        BY <1>3, <2>4, <4>2 DEF Call, EnterAlloc, EnterBarrierAll, EnterFinalize,
                                Arrive, Leave, Release, Return, GoTo, GoOn
      <4> QED BY <4>1, <4>2
    <3>3. ASSUME NEW q \in PE, NEW b \in Box, b \in owned[q]
          PROVE  mem'[q][addr[q][b]] = mem[q][addr[q][b]]
      <4>1. CASE EnterAlloc(p)
        <5>1. addr[q][b] \in Slot /\ heap[q][addr[q][b]] = b /\ b # None
          BY <1>1, <1>2, <3>3, NoneAssumption
        <5>2. q = p => addr[q][b] # Place(heap[p])
          <6>1. heap[p] \in [Slot -> Box \cup {None}]
            BY DEF IInv, TypeOK
          <6> QED BY <5>1, <6>1, PlaceEmpty
        <5>3. mem' \in {mem, Zeroed(p, Place(heap[p]))}
          BY <4>1 DEF EnterAlloc
        <5> QED BY <1>0, <5>1, <5>2, <5>3 DEF Zeroed
      <4>2. CASE ~ EnterAlloc(p)
        BY <1>3, <2>4, <4>2 DEF Call, EnterFree, EnterBarrierAll, EnterFinalize,
                                Arrive, Leave, Release, Return, GoTo, GoOn
      <4> QED BY <4>1, <4>2
    <3>2. ASSUME NEW q \in PE, NEW b \in Box, b \in owned[q] PROVE addr'[q][b] = addr[q][b]
      <4>1. CASE EnterAlloc(p)
        <5> PICK d \in Box : /\ Cur(p) = Alloc(d)
                             /\ addr' = [addr EXCEPT ![p][d] = Place(heap[p])]
          BY <4>1 DEF EnterAlloc
        <5>1. ~ Made(p, d)
          BY ProgramFacts, CallsDiffer DEF Made, Cur, IInv
        <5>2. ~ (q = p /\ b = d)
          BY <1>1, <3>2, <5>1
        <5> QED BY <1>0, <5>2
      <4>2. CASE ~ EnterAlloc(p)
        BY <1>3, <2>4, <4>2 DEF Call, EnterFree, EnterBarrierAll, EnterFinalize,
                                Arrive, Leave, Release, Return, GoTo, GoOn
      <4> QED BY <4>1, <4>2
    <3> QED BY <1>0, <2>1, <2>2, <3>1, <3>2, <3>3 DEF Counted
  <2> QED BY <2>3, <2>4
<1>4. ASSUME NEW p \in PE, DeliverFrom(p) PROVE Counted'
  <2> PICK m \in inflight : Deliver(m)
    BY <1>4 DEF DeliverFrom
  <2>1. m.src \in PE /\ m.dst \in PE /\ m.box \in Box
    BY DEF IInv, TypeOK, Update
  <2>2. m.to = addr[m.src][m.box] /\ Holds(m.src, m.box)
    BY DEF IInv, Messages
  <2>3. heap[m.dst][m.to] = m.box /\ Made(m.dst, m.box) /\ Made(m.src, m.box)
    BY <2>1, <2>2, IInvSymmetric, PublishedIsMade, HeldIsInUse DEF SymmetricBox
  <2>4. m.to = addr[m.dst][m.box] /\ m.to \in Slot
    <3>1. m.to = addr[m.dst][m.box]
      BY <2>1, <2>2, <2>3, SameAddress
    <3>2. addr[m.dst][m.box] # None
      BY <2>1, <2>3 DEF IInv, Handles, HandlesOf
    <3> QED BY <1>0, <2>1, <3>1, <3>2
  <2>5. /\ mem' = [mem EXCEPT ![m.dst][m.to] = @ + 1]
        /\ applied' = [applied EXCEPT ![m.dst][m.box] = @ + 1]
        /\ UNCHANGED <<script, at, addr, owned>>
    BY DEF Deliver
  <2>6. ASSUME NEW q \in PE, NEW b \in Box, ~ Made(q, b) PROVE applied'[q][b] = 0
    BY <1>0, <2>1, <2>3, <2>5, <2>6 DEF Counted
  <2>7. ASSUME NEW q \in PE, NEW b \in Box, b \in owned[q]
        PROVE  mem'[q][addr[q][b]] = applied'[q][b]
    <3>1. b \in Box /\ addr[q][b] \in Slot /\ heap[q][addr[q][b]] = b
      BY <1>0, <1>1, <1>2, <2>7
    <3>2. mem[q][addr[q][b]] = applied[q][b]
      BY <2>7 DEF Counted
    <3>3. CASE q = m.dst /\ b = m.box
      BY <1>0, <2>1, <2>4, <2>5, <3>1, <3>2, <3>3
    <3>4. CASE ~ (q = m.dst /\ b = m.box)
      <4>1. ~ (q = m.dst /\ addr[q][b] = m.to)
        BY <2>3, <3>1, <3>4
      <4> QED BY <1>0, <2>1, <2>4, <2>5, <3>1, <3>2, <3>4, <4>1
    <3> QED BY <3>3, <3>4
  <2> QED BY <2>5, <2>6, <2>7 DEF Counted, Made
<1>5. ASSUME NEW p \in PE, NEW q \in PE, NEW b \in Box, AtomicInc(p, q, b) PROVE Counted'
  BY <1>5 DEF AtomicInc, Counted, Made
<1>6. CASE UNCHANGED vars
  BY <1>6 DEF vars, Counted, Made
<1> QED BY <1>3, <1>4, <1>5, <1>6 DEF Next, Done

(***************************************************************************)
(* No update is lost or invented, in programs that share a box only after  *)
(* one more collective call.  heap_unfenced.cfg shows that the condition   *)
(* is needed.                                                              *)
(***************************************************************************)
THEOREM UpdatesCounted == ASSUME Fenced PROVE Spec => []NoLostUpdate
<1>1. IInv /\ Counted => NoLostUpdate
  BY DEF Counted, NoLostUpdate, IInv, TypeOK
<1>2. Init => Counted
  BY CountedInit
<1>3. IInv /\ Counted /\ [Next]_vars => Counted'
  BY CountedStep
<1> QED BY <1>1, <1>2, <1>3, Inductive, PTL DEF Spec

-----------------------------------------------------------------------------

(***************************************************************************)
(* SymmetricHeap implements ObjectStore, if a box is shared only after one *)
(* more collective call.  IInv says where an object is as long as its box  *)
(* is used; Kept adds that a PE has every object it made until it frees    *)
(* it, so that an update finds all the copies of its box.                  *)
(***************************************************************************)
Freed(p, b) == \E j \in 1..at[p] - 1 : script[p][j] = Free(b)

Kept == \A p \in PE, b \in Box : Made(p, b) /\ ~ Freed(p, b) => Constructed(p, b)

Types ==
  /\ at \in [PE -> Nat] /\ owned \in [PE -> SUBSET Box] /\ pc \in [PE -> Stage]
  /\ addr \in [PE -> [Box -> Slot \cup {None}]]
  /\ mem \in [PE -> [Slot -> Nat]]

LEMMA TypesHold == IInv => Types
BY DEF IInv, TypeOK, Types

-----------------------------------------------------------------------------

(***************************************************************************)
(* A constructed object is where its box says, and no other one is there.  *)
(***************************************************************************)
LEMMA ConstructedSlot ==
  ASSUME IInv, NEW p \in PE, NEW b \in Box, Constructed(p, b)
  PROVE  addr[p][b] \in Slot /\ heap[p][addr[p][b]] = b /\ Made(p, b)
<1>1. Made(p, b)
  BY DEF Constructed, IInv, Handles, HandlesOf
<1>2. addr[p][b] \in Slot
  BY <1>1, TypesHold DEF Types, IInv, Handles, HandlesOf
<1>3. CASE b \in owned[p]
  BY <1>1, <1>2, <1>3, IInvSymmetric DEF SymmetricBox, Holds
<1>4. CASE pc[p] \in {"quiet", "barrier", "free"} /\ Cur(p) = Free(b)
  <2> PICK s, H, A, n : IsLog(s, H, A, n) /\ Linked(s, H, A, n)
    BY DEF IInv, Log
  <2>1. /\ at[p] \in 1..Len(s) /\ script[p] = s /\ s[at[p]] = Free(b)
    BY <1>4, ProgramFacts DEF IInv, Linked, Cur
  <2>2. Executed(p) = at[p] - 1
    BY <1>4 DEF Executed
  <2>3. addr[p][b] = A[b]
    BY <1>1, <2>1, <2>2 DEF Linked, Made
  <2>4. InUse(s, at[p] - 1, b)
    <3>1. \A j \in 1..Len(s) : s[j] = Free(b) => j = at[p]
      BY <2>1, ProgramFacts, CallsDiffer DEF IInv
    <3> QED
      BY <1>1, <2>1, <3>1 DEF InUse, Made
  <2>5. at[p] - 1 \in 0..n
    BY <2>1, <2>2, ProgramsAssumption DEF Linked, IsLog, WellFormed
  <2> QED
    BY <1>1, <1>2, <2>2, <2>3, <2>4, <2>5, NoneAssumption DEF IsLog, Linked
<1> QED
  BY <1>3, <1>4 DEF Constructed

\* A box that p is about to construct has not been constructed before.
LEMMA NotYet ==
  ASSUME IInv, NEW p \in PE, NEW b \in Box, Cur(p) = Alloc(b)
  PROVE  ~ Made(p, b) /\ ~ Constructed(p, b) /\ ~ Holds(p, b)
<1>1. ~ Made(p, b)
  BY ProgramFacts, CallsDiffer DEF Made, Cur, IInv
<1> QED
  BY <1>1, CallsDiffer DEF Constructed, Holds, IInv, Handles, HandlesOf

\* A box that p releases is held by nobody.
LEMMA ReleasedByAll ==
  ASSUME IInv, NEW p \in PE, NEW b \in Box, pc[p] = "free", Cur(p) = Free(b),
         NEW q \in PE
  PROVE  ~ Holds(q, b)
<1> SUFFICES ASSUME Holds(q, b) PROVE FALSE
  OBVIOUS
<1>1. /\ at[p] \in 1..Len(script[p]) /\ at[q] \in 1..Len(script[q])
      /\ script[p] = script[q] /\ Len(script[p]) \in Nat
  BY ProgramFacts DEF IInv, SameProgram, TypeOK
<1>2. Arrived(q) >= at[p]
  BY Counts DEF IInv, InStep, Left
<1>3. at[q] >= at[p]
  BY <1>1, <1>2 DEF Arrived
<1>4. CASE b \in owned[q]
  <2>1. \A j \in 1..at[q] - 1 : script[q][j] # Free(b)
    BY <1>4 DEF IInv, Handles, HandlesOf
  <2>2. at[q] = at[p]
    BY <1>1, <1>3, <2>1 DEF Cur
  <2> QED
    BY <1>1, <1>2, <1>4, <2>2 DEF IInv, Handles, HandlesOf, Arrived, Cur
<1>5. CASE pc[q] = "quiet" /\ Cur(q) = Free(b)
  <2>1. at[q] = at[p]
    BY <1>1, <1>5, ProgramFacts, CallsDiffer DEF IInv, Cur
  <2> QED
    BY <1>1, <1>2, <1>5, <2>1 DEF Arrived
<1> QED
  BY <1>4, <1>5 DEF Holds

-----------------------------------------------------------------------------

(***************************************************************************)
(* What a collective call of p makes of its copy of a box, and of the      *)
(* handle: they come with StoreInitial, the handle goes when the updates   *)
(* of the call that drops it are complete, the copy with Release.          *)
(***************************************************************************)
LEMMA CallEffect ==
  ASSUME IInv, NEW p \in PE, Call(p), NEW q \in PE, NEW b \in Box
  PROVE  /\ Constructed(q, b)' <=>
              \/ Constructed(q, b) /\ ~ (q = p /\ Release(p) /\ Cur(p) = Free(b))
              \/ q = p /\ StoreInitial(p) /\ Cur(p) = Alloc(b)
         /\ Holds(q, b)' <=>
              \/ Holds(q, b) /\ ~ (q = p /\ Arrive(p) /\ Cur(p) = Free(b))
              \/ q = p /\ StoreInitial(p) /\ Cur(p) = Alloc(b)
<1> USE TypesHold DEF Types, Constructed, Holds
<1>1. CASE EnterAlloc(p)
  BY <1>1, CallsDiffer DEF EnterAlloc, StoreInitial, Release, Arrive, Cur
<1>2. CASE EnterFree(p)
  BY <1>2, CallsDiffer DEF EnterFree, StoreInitial, Release, Arrive, Cur
<1>3. CASE EnterBarrierAll(p)
  BY <1>3, CallsDiffer DEF EnterBarrierAll, StoreInitial, Release, Arrive, Cur
<1>4. CASE EnterFinalize(p)
  BY <1>4, CallsDiffer DEF EnterFinalize, StoreInitial, Release, Arrive, Cur
<1>5. CASE Arrive(p)
  BY <1>5, CallsDiffer DEF Arrive, StoreInitial, Release, Cur, IInv, Handles, HandlesOf
<1>6. CASE Leave(p)
  BY <1>6, CallsDiffer DEF Leave, Return, GoTo, GoOn, StoreInitial, Release, Arrive, Cur
<1>7. CASE StoreInitial(p)
  <2>1. /\ pc[p] = "init" /\ pc' = [pc EXCEPT ![p] = "run"]
        /\ at' = [at EXCEPT ![p] = @ + 1] /\ UNCHANGED script
    BY <1>7 DEF StoreInitial, GoOn
  <2>2. PICK c \in Box : Cur(p) = Alloc(c) /\ owned' = [owned EXCEPT ![p] = @ \cup {c}]
    BY <1>7 DEF StoreInitial
  <2>3. ~ Arrive(p) /\ ~ Release(p) /\ (Cur(p) = Alloc(b) <=> b = c)
    BY <2>1, <2>2, CallsDiffer DEF Arrive, Release
  <2>4. CASE q = p
    <3>1. /\ pc[q] = "init" /\ pc'[q] = "run" /\ Cur(p) # Free(b)
          /\ owned'[q] = owned[q] \cup {c}
      BY <2>1, <2>2, <2>4, CallsDiffer
    <3>2. (Constructed(q, b)' <=> b \in owned'[q]) /\ (Constructed(q, b) <=> b \in owned[q])
      BY <3>1
    <3>3. (Holds(q, b)' <=> b \in owned'[q]) /\ (Holds(q, b) <=> b \in owned[q])
      BY <3>1
    <3> HIDE DEF Constructed, Holds
    <3> QED
      BY <1>7, <2>3, <2>4, <3>1, <3>2, <3>3
  <2>5. CASE q # p
    BY <2>1, <2>2, <2>5 DEF Cur
  <2> QED
    BY <2>4, <2>5
<1>8. CASE Release(p)
  <2>1. /\ pc[p] = "free" /\ pc' = [pc EXCEPT ![p] = "run"]
        /\ \E c \in Box : Cur(p) = Free(c)
        /\ at' = [at EXCEPT ![p] = @ + 1] /\ UNCHANGED <<script, owned>>
    BY <1>8 DEF Release, GoOn
  <2>2. ~ Arrive(p) /\ ~ StoreInitial(p)
    BY <2>1 DEF Arrive, StoreInitial
  <2>3. Cur(p) = Free(b) => b \notin owned[p]
    BY <2>1 DEF IInv, Handles, HandlesOf
  <2>4. CASE q = p
    <3>1. pc[q] = "free" /\ pc'[q] = "run" /\ owned'[q] = owned[q]
      BY <2>1, <2>4
    <3>2. Constructed(q, b)' <=> b \in owned[q]
      BY <3>1
    <3>3. Constructed(q, b) <=> b \in owned[q] \/ Cur(p) = Free(b)
      BY <2>4, <3>1
    <3>4. (Holds(q, b)' <=> b \in owned[q]) /\ (Holds(q, b) <=> b \in owned[q])
      BY <3>1
    <3> HIDE DEF Constructed, Holds
    <3> QED
      BY <1>8, <2>2, <2>3, <2>4, <3>2, <3>3, <3>4
  <2>5. CASE q # p
    BY <2>1, <2>5 DEF Cur
  <2> QED
    BY <2>4, <2>5
<1> QED
  BY <1>1, <1>2, <1>3, <1>4, <1>5, <1>6, <1>7, <1>8 DEF Call

-----------------------------------------------------------------------------

LEMMA KeptInit == Init => Kept
BY DEF Init, Kept, Made

LEMMA KeptStep == IInv /\ Kept /\ [Next]_vars => Kept'
<1> SUFFICES ASSUME IInv, Kept, [Next]_vars, NEW q \in PE, NEW b \in Box,
                    Made(q, b)', ~ Freed(q, b)'
             PROVE  Constructed(q, b)'
  BY DEF Kept
<1>1. ASSUME NEW p \in PE, Call(p) PROVE Constructed(q, b)'
  <2>1. /\ at \in [PE -> Nat] /\ script' = script
        /\ \/ at' = at
           \/ at' = [at EXCEPT ![p] = @ + 1]
    BY <1>1, TypesHold DEF Types, Call, EnterAlloc, EnterFree, EnterBarrierAll, EnterFinalize,
                           Arrive, Leave, StoreInitial, Release, Return, GoTo, GoOn
  <2>2. ~ Freed(q, b)
    BY <2>1 DEF Freed
  <2>3. CASE Made(q, b)
    <3>1. Constructed(q, b)
      BY <2>2, <2>3 DEF Kept
    <3>2. ASSUME q = p, Release(p), Cur(p) = Free(b) PROVE FALSE
      <4>1. at' = [at EXCEPT ![p] = @ + 1]
        BY <3>2 DEF Release, GoOn
      <4>2. at[p] \in 1..at'[p] - 1
        BY <2>1, <4>1, ProgramFacts DEF IInv
      <4> QED
        BY <2>1, <3>2, <4>2 DEF Freed, Cur
    <3> QED
      BY <1>1, <3>1, <3>2, CallEffect
  <2>4. CASE ~ Made(q, b)
    <3>1. q = p /\ Cur(p) = Alloc(b) /\ at' = [at EXCEPT ![p] = @ + 1]
      BY <2>1, <2>4 DEF Made, Cur
    <3>2. StoreInitial(p)
      <4>1. at'[p] # at[p]
        BY <2>1, <3>1
      <4> QED
        BY <1>1, <3>1, <4>1, CallsDiffer
           DEF Call, EnterAlloc, EnterFree, EnterBarrierAll, EnterFinalize,
               Arrive, Leave, Release, Return, GoTo, GoOn
    <3> QED
      BY <1>1, <3>1, <3>2, CallEffect
  <2> QED
    BY <2>3, <2>4
<1>2. CASE UNCHANGED <<script, at, pc, heap, addr, owned>>
  BY <1>2 DEF Kept, Made, Freed, Constructed, Cur
<1> QED
  BY <1>1, <1>2, Still

-----------------------------------------------------------------------------

(***************************************************************************)
(* An object that is there before and after a step of its PE stays in its  *)
(* slot with its contents: no other one of the heap is stored over it.     *)
(***************************************************************************)
LEMMA CallKeeps ==
  ASSUME IInv, NEW p \in PE, Call(p), NEW q \in PE, NEW b \in Box, Constructed(q, b)
  PROVE  mem'[q][addr'[q][b]] = mem[q][addr[q][b]]
<1>1. addr[q][b] \in Slot /\ heap[q][addr[q][b]] = b /\ Made(q, b) /\ b # None
  BY ConstructedSlot, NoneAssumption
<1>2. Types
  BY TypesHold
<1>3. CASE EnterAlloc(p)
  <2> PICK d \in Box : /\ Cur(p) = Alloc(d)
                       /\ addr' = [addr EXCEPT ![p][d] = Place(heap[p])]
    BY <1>3 DEF EnterAlloc
  <2>1. ~ (q = p /\ b = d)
    BY <1>1, NotYet
  <2>2. addr'[q][b] = addr[q][b]
    BY <1>2, <2>1 DEF Types
  <2>3. q = p => addr[q][b] # Place(heap[p])
    <3>1. heap[p] \in [Slot -> Box \cup {None}]
      BY DEF IInv, TypeOK
    <3> QED
      BY <1>1, <3>1, PlaceEmpty
  <2>4. mem' \in {mem, Zeroed(p, Place(heap[p]))}
    BY <1>3 DEF EnterAlloc
  <2> QED
    BY <1>1, <1>2, <2>2, <2>3, <2>4 DEF Zeroed, Types
<1>4. CASE StoreInitial(p)
  <2> PICK d \in Box : /\ Cur(p) = Alloc(d) /\ pc[p] = "init"
                       /\ mem' = [mem EXCEPT ![p][addr[p][d]] = 0]
                       /\ UNCHANGED addr
    BY <1>4 DEF StoreInitial
  <2>1. addr[p][d] \in Slot /\ heap[p][addr[p][d]] = d
    BY InitSlot
  <2>2. ~ (q = p /\ b = d)
    BY <1>1, NotYet
  <2>3. ~ (q = p /\ addr[q][b] = addr[p][d])
    BY <1>1, <2>1, <2>2
  <2> QED
    BY <1>1, <1>2, <2>1, <2>3 DEF Types
<1>5. CASE ~ EnterAlloc(p) /\ ~ StoreInitial(p)
  <2>1. mem' = mem /\ addr' = addr
    BY <1>5 DEF Call, EnterFree, EnterBarrierAll, EnterFinalize,
                Arrive, Leave, Release, Return, GoTo, GoOn
  <2> QED
    BY <2>1
<1> QED
  BY <1>3, <1>4, <1>5

-----------------------------------------------------------------------------

(***************************************************************************)
(* The four steps of the store, and the steps that it does not see.        *)
(***************************************************************************)
LEMMA Stutter ==
  ASSUME \A q \in PE, b \in Box :
           /\ Constructed(q, b)' <=> Constructed(q, b)
           /\ Holds(q, b)' <=> Holds(q, b)
           /\ Constructed(q, b) => mem'[q][addr'[q][b]] = mem[q][addr[q][b]]
  PROVE  UNCHANGED <<Value, Holders>>
BY DEF Value, Holders

\* One copy changes.
LEMMA OneCopy ==
  ASSUME NEW p \in PE, NEW b \in Box, NEW v,
         \A q \in PE, c \in Box :
           Value'[q][c] = IF q = p /\ c = b THEN v ELSE Value[q][c]
  PROVE  Value' = [Value EXCEPT ![p][b] = v]
<1> DEFINE W == [Value EXCEPT ![p][b] = v]
<1>1. \A q \in PE : /\ Value[q] = [c \in Box |-> Value[q][c]]
                    /\ Value'[q] = [c \in Box |-> Value'[q][c]]
  BY DEF Value
<1>2. /\ Value = [q \in PE |-> Value[q]]
      /\ Value' = [q \in PE |-> Value'[q]]
  BY DEF Value
<1>3. W = [q \in PE |-> IF q = p THEN [Value[p] EXCEPT ![b] = v] ELSE Value[q]]
  BY <1>2
<1>4. \A q \in PE : W[q] = [c \in Box |-> IF q = p /\ c = b THEN v ELSE Value[q][c]]
  BY <1>1, <1>3
<1>5. \A q \in PE : W[q] = Value'[q]
  <2> TAKE q \in PE
  <2>1. \A c \in Box : Value'[q][c] = IF q = p /\ c = b THEN v ELSE Value[q][c]
    OBVIOUS
  <2>2. Value'[q] = [c \in Box |-> IF q = p /\ c = b THEN v ELSE Value[q][c]]
    BY <1>1, <2>1
  <2> QED
    BY <1>4, <2>2
<1> QED
  BY <1>2, <1>3, <1>5

LEMMA StoreInitialConstructs ==
  ASSUME IInv, NEW p \in PE, StoreInitial(p)
  PROVE  \E b \in Box : Store!Construct(p, b)
<1> PICK b \in Box : /\ Cur(p) = Alloc(b) /\ pc[p] = "init"
                     /\ mem' = [mem EXCEPT ![p][addr[p][b]] = 0]
                     /\ UNCHANGED addr
  BY DEF StoreInitial
<1>1. Call(p)
  BY DEF Call
<1>2. addr[p][b] \in Slot /\ ~ Constructed(p, b) /\ ~ Holds(p, b)
  BY InitSlot, NotYet
<1>3. ASSUME NEW q \in PE, NEW c \in Box
      PROVE  /\ Constructed(q, c)' <=> Constructed(q, c) \/ (q = p /\ c = b)
             /\ Holds(q, c)' <=> Holds(q, c) \/ (q = p /\ c = b)
             /\ Constructed(q, c) => mem'[q][addr'[q][c]] = mem[q][addr[q][c]]
  <2>1. Cur(p) = Alloc(c) <=> c = b
    BY CallsDiffer
  <2>2. Cur(p) # Free(c)
    BY CallsDiffer
  <2> QED
    BY <1>1, <2>1, <2>2, CallEffect, CallKeeps
<1>4. mem'[p][addr'[p][b]] = 0
  BY <1>2, TypesHold DEF Types
<1>5. Value' = [Value EXCEPT ![p][b] = 0]
  <2>1. \A q \in PE, c \in Box :
          Value'[q][c] = IF q = p /\ c = b THEN 0 ELSE Value[q][c]
    BY <1>2, <1>3, <1>4 DEF Value
  <2> QED
    BY <2>1, OneCopy
<1>6. Holders' = [Holders EXCEPT ![b] = @ \cup {p}]
  BY <1>3 DEF Holders
<1>7. Value[p][b] = Absent
  BY <1>2 DEF Value
<1> QED
  BY <1>5, <1>6, <1>7 DEF Store!Construct

LEMMA ArriveDrops ==
  ASSUME IInv, NEW p \in PE, NEW b \in Box, Arrive(p), Cur(p) = Free(b)
  PROVE  Store!Drop(p, b)
<1>1. Call(p) /\ ~ Release(p) /\ ~ StoreInitial(p) /\ pc[p] = "quiet"
  BY DEF Call, Arrive, Release, StoreInitial
<1>2. ASSUME NEW q \in PE, NEW c \in Box
      PROVE  /\ Constructed(q, c)' <=> Constructed(q, c)
             /\ Holds(q, c)' <=> Holds(q, c) /\ ~ (q = p /\ c = b)
             /\ Constructed(q, c) => mem'[q][addr'[q][c]] = mem[q][addr[q][c]]
  <2>1. Cur(p) = Free(c) <=> c = b
    BY CallsDiffer
  <2> QED
    BY <1>1, <2>1, CallEffect, CallKeeps
<1>3. Value' = Value
  BY <1>2 DEF Value
<1>4. Holders' = [Holders EXCEPT ![b] = @ \ {p}]
  BY <1>2 DEF Holders
<1>5. p \in Holders[b]
  BY <1>1 DEF Holders, Holds
<1> QED
  BY <1>3, <1>4, <1>5 DEF Store!Drop

LEMMA ReleaseRetires ==
  ASSUME IInv, NEW p \in PE, Release(p)
  PROVE  \E b \in Box : Store!Retire(p, b)
<1> PICK b \in Box : Cur(p) = Free(b) /\ pc[p] = "free"
  BY DEF Release
<1>1. Call(p) /\ ~ Arrive(p) /\ ~ StoreInitial(p)
  BY DEF Call, Arrive, Release, StoreInitial
<1>2. ASSUME NEW q \in PE, NEW c \in Box
      PROVE  /\ Constructed(q, c)' <=> Constructed(q, c) /\ ~ (q = p /\ c = b)
             /\ Holds(q, c)' <=> Holds(q, c)
             /\ Constructed(q, c) => mem'[q][addr'[q][c]] = mem[q][addr[q][c]]
  <2>1. Cur(p) = Free(c) <=> c = b
    BY CallsDiffer
  <2> QED
    BY <1>1, <2>1, CallEffect, CallKeeps
<1>3. Value' = [Value EXCEPT ![p][b] = Absent]
  <2>1. \A q \in PE, c \in Box :
          Value'[q][c] = IF q = p /\ c = b THEN Absent ELSE Value[q][c]
    BY <1>2 DEF Value
  <2> QED
    BY <2>1, OneCopy
<1>4. Holders' = Holders
  BY <1>2 DEF Holders
<1>5. Holders[b] = {}
  BY ReleasedByAll DEF Holders
<1>6. Value[p][b] # Absent
  <2>1. Constructed(p, b)
    BY DEF Constructed
  <2>2. mem[p][addr[p][b]] \in Nat
    BY <2>1, ConstructedSlot, TypesHold DEF Types
  <2> QED
    BY <2>1, <2>2, AbsentAssumption DEF Value
<1> QED
  BY <1>3, <1>4, <1>5, <1>6 DEF Store!Retire

\* An update on its way finds its box constructed by every PE.
LEMMA FindsAll ==
  ASSUME Fenced, IInv, Kept, NEW m \in inflight, NEW q \in PE
  PROVE  Constructed(q, m.box)
<1>1. m.src \in PE /\ m.box \in Box /\ Published(m.src, m.box) /\ Holds(m.src, m.box)
  BY DEF IInv, TypeOK, Update, Messages
<1>2. /\ script[m.src] = script[q] /\ at[m.src] \in Nat /\ at[q] \in Nat
      /\ Left(m.src) <= Arrived(q)
  BY <1>1 DEF IInv, SameProgram, TypeOK, InStep
<1>3. Made(q, m.box)
  <2> PICK i \in 1..Len(script[m.src]) :
        script[m.src][i] = Alloc(m.box) /\ i + 1 < at[m.src]
    BY <1>1 DEF Published
  <2>1. i + 1 <= at[q]
    BY <1>2 DEF Left, Arrived
  <2> QED
    BY <1>2, <2>1 DEF Made
<1>4. ~ Freed(q, m.box)
  <2>1. InUse(script[q], Executed(q), m.box)
    BY <1>1, <1>2, HeldIsInUse
  <2>2. 1..at[q] - 1 \subseteq 1..Executed(q)
    BY <1>2 DEF Executed
  <2> QED
    BY <2>1, <2>2 DEF Freed, InUse
<1> QED
  BY <1>1, <1>3, <1>4 DEF Kept

LEMMA DeliverUpdates ==
  ASSUME Fenced, IInv, Kept, NEW m \in inflight, Deliver(m)
  PROVE  Store!Update(m.dst, m.box)
<1> DEFINE p == m.dst
           b == m.box
<1>1. m.src \in PE /\ p \in PE /\ b \in Box
  BY DEF IInv, TypeOK, Update
<1>2. /\ mem' = [mem EXCEPT ![p][m.to] = @ + 1]
      /\ UNCHANGED <<script, at, pc, addr, owned>>
  BY DEF Deliver
<1>3. /\ m.to = addr[m.src][b] /\ Holds(m.src, b)
  BY DEF IInv, Messages
<1>4. \A q \in PE : Constructed(q, b)
  BY FindsAll
<1>5. m.to = addr[p][b] /\ m.to \in Slot /\ heap[p][m.to] = b
  BY <1>1, <1>3, <1>4, ConstructedSlot, SameAddress
<1>6. ASSUME NEW q \in PE, NEW c \in Box, Constructed(q, c)
      PROVE  mem'[q][addr[q][c]] =
               IF q = p /\ c = b THEN mem[p][addr[p][b]] + 1 ELSE mem[q][addr[q][c]]
  <2>1. addr[q][c] \in Slot /\ heap[q][addr[q][c]] = c
    BY <1>6, ConstructedSlot
  <2>2. q = p /\ addr[q][c] = m.to => c = b
    BY <1>5, <2>1
  <2> QED
    BY <1>1, <1>2, <1>5, <2>1, <2>2, TypesHold DEF Types
<1>7. \A q \in PE, c \in Box :
        (Constructed(q, c)' <=> Constructed(q, c)) /\ (Holds(q, c)' <=> Holds(q, c))
  BY <1>2 DEF Constructed, Holds, Cur
<1>8. Value' = [Value EXCEPT ![p][b] = @ + 1]
  <2>1. Value[p][b] = mem[p][addr[p][b]]
    BY <1>1, <1>4 DEF Value
  <2>2. \A q \in PE, c \in Box :
          Value'[q][c] = IF q = p /\ c = b THEN Value[p][b] + 1 ELSE Value[q][c]
    <3> TAKE q \in PE, c \in Box
    <3>1. CASE Constructed(q, c)
      <4>1. Value[q][c] = mem[q][addr[q][c]] /\ Value'[q][c] = mem'[q][addr[q][c]]
        BY <1>2, <1>7, <3>1 DEF Value
      <4> QED
        BY <1>6, <2>1, <3>1, <4>1
    <3>2. CASE ~ Constructed(q, c)
      BY <1>4, <1>7, <3>2 DEF Value
    <3> QED
      BY <3>1, <3>2
  <2>3. Value' = [Value EXCEPT ![p][b] = Value[p][b] + 1]
    <3> DEFINE v == Value[p][b] + 1
    <3>1. \A q \in PE, c \in Box :
            Value'[q][c] = IF q = p /\ c = b THEN v ELSE Value[q][c]
      BY <2>2
    <3>2. p \in PE /\ b \in Box
      BY <1>1
    <3> HIDE DEF p, b, v
    <3>3. Value' = [Value EXCEPT ![p][b] = v]
      BY <3>1, <3>2, OneCopy
    <3> QED
      BY <3>3 DEF v
  <2> QED
    BY <2>3
<1>9. Holders' = Holders
  BY <1>7 DEF Holders
<1>10. Holders[b] # {}
  BY <1>1, <1>3 DEF Holders
<1>11. \A q \in PE : Value[q][b] # Absent
  <2> TAKE q \in PE
  <2>1. mem[q][addr[q][b]] \in Nat
    BY <1>1, <1>4, ConstructedSlot, TypesHold DEF Types
  <2> QED
    BY <1>1, <1>4, <2>1, AbsentAssumption DEF Value
<1> QED
  BY <1>8, <1>9, <1>10, <1>11 DEF Store!Update

-----------------------------------------------------------------------------

LEMMA InitMaps == Init => Store!Init
BY CallsDiffer DEF Init, Store!Init, Value, Holders, Constructed, Holds

LEMMA StepMaps ==
  ASSUME Fenced, IInv, Kept, [Next]_vars
  PROVE  [Store!Next]_(Store!vars)
<1>1. ASSUME NEW p \in PE, Call(p) PROVE Store!Next \/ UNCHANGED <<Value, Holders>>
  <2>1. CASE StoreInitial(p)
    BY <2>1, StoreInitialConstructs DEF Store!Next
  <2>2. CASE Release(p)
    BY <2>2, ReleaseRetires DEF Store!Next
  <2>3. CASE Arrive(p) /\ \E b \in Box : Cur(p) = Free(b)
    BY <2>3, ArriveDrops DEF Store!Next
  <2>4. CASE /\ ~ StoreInitial(p) /\ ~ Release(p)
             /\ ~ (Arrive(p) /\ \E b \in Box : Cur(p) = Free(b))
    <3>1. \A q \in PE, b \in Box :
            /\ Constructed(q, b)' <=> Constructed(q, b)
            /\ Holds(q, b)' <=> Holds(q, b)
            /\ Constructed(q, b) => mem'[q][addr'[q][b]] = mem[q][addr[q][b]]
      BY <1>1, <2>4, CallEffect, CallKeeps
    <3> QED
      BY <3>1, Stutter
  <2> QED
    BY <2>1, <2>2, <2>3, <2>4
<1>2. ASSUME NEW p \in PE, NEW q \in PE, NEW b \in Box, AtomicInc(p, q, b)
      PROVE  UNCHANGED <<Value, Holders>>
  BY <1>2 DEF AtomicInc, Value, Holders, Constructed, Holds, Cur
<1>3. ASSUME NEW p \in PE, DeliverFrom(p) PROVE Store!Next
  <2>1. PICK m \in inflight : Deliver(m)
    BY <1>3 DEF DeliverFrom
  <2>2. m.dst \in PE /\ m.box \in Box
    BY DEF IInv, TypeOK, Update
  <2> QED
    BY <2>1, <2>2, DeliverUpdates DEF Store!Next
<1>4. ASSUME UNCHANGED vars PROVE UNCHANGED <<Value, Holders>>
  BY <1>4 DEF vars, Value, Holders, Constructed, Holds, Cur
<1>5. Store!Next \/ UNCHANGED <<Value, Holders>>
  BY <1>1, <1>2, <1>3, <1>4 DEF Next, Done
<1> QED
  BY <1>5 DEF Store!vars

(***************************************************************************)
(* The heap provides the object store: reuse of chunks, first values that  *)
(* are stored after the barrier and updates in flight are never seen by a  *)
(* program that shares a box only after one more collective call.          *)
(***************************************************************************)
THEOREM HeapIsStore == ASSUME Fenced PROVE Spec => ImplementsStore
<1>1. Init => Store!Init /\ Kept
  BY InitMaps, KeptInit
<1>2. IInv /\ Kept /\ [Next]_vars => Kept'
  BY KeptStep
<1>3. IInv /\ Kept /\ [Next]_vars => [Store!Next]_(Store!vars)
  BY StepMaps
<1> QED
  BY <1>1, <1>2, <1>3, Inductive, PTL DEF Spec, ImplementsStore, Store!Spec

-----------------------------------------------------------------------------

\* A PE that is about to drop a box has it.
LEMMA DropsItsOwn ==
  ASSUME IInv, Kept, NEW p \in PE, pc[p] = "run", NEW b \in Box, Cur(p) = Free(b)
  PROVE  b \in owned[p]
<1>1. /\ at[p] \in 1..Len(script[p]) /\ Len(script[p]) \in Nat
      /\ \A i, j \in 1..Len(script[p]) :
           script[p][i] = script[p][j] /\ script[p][i] # BarrierAll => i = j
  BY ProgramFacts DEF IInv
<1>2. Made(p, b)
  <2>1. WellFormed(script[p])
    BY ProgramsAssumption DEF IInv, SameProgram
  <2> QED BY <1>1, <2>1 DEF WellFormed, Made, Cur
<1>3. ~ Freed(p, b)
  <2> SUFFICES ASSUME NEW j \in 1..at[p] - 1, script[p][j] = Free(b) PROVE FALSE
    BY DEF Freed
  <2>1. j \in 1..Len(script[p]) /\ j # at[p]
    BY <1>1
  <2> QED BY <1>1, <2>1, CallsDiffer DEF Cur
<1>4. Constructed(p, b)
  BY <1>2, <1>3 DEF Kept
<1> QED BY <1>4 DEF Constructed

(***************************************************************************)
(* A PE at a barrier waits for one that can go on, or that is at the       *)
(* barrier before, which all PEs have reached.  It waits for no aborted PE *)
(* and for none that has finalized.                                        *)
(***************************************************************************)
LEMMA SomebodyGoes == IInv /\ Kept /\ UnanimousOutOfMemory => NeverStuck
<1> SUFFICES ASSUME IInv, Kept, UnanimousOutOfMemory, inflight = {},
                    \E p \in PE : ~ Stopped(p)
             PROVE  \E p \in PE : CanGo(p)
  BY DEF NeverStuck
<1>1. \A q \in PE : /\ at[q] \in Nat /\ pc[q] \in Stage /\ at[q] \in 1..Len(script[q])
                    /\ Len(script[q]) \in Nat
  BY ProgramFacts DEF IInv, TypeOK
<1>2. ASSUME NEW p \in PE, ~ Stopped(p), pc[p] # "barrier" PROVE CanGo(p)
  BY <1>1, <1>2, DropsItsOwn DEF CanGo, Stopped, Stage
<1>3. ASSUME NEW p \in PE, pc[p] = "barrier", NEW q \in PE, ~ Arrived(q) >= at[p]
      PROVE  CanGo(q)
  <2>1. Left(p) = at[p] - 1 /\ Left(p) <= Arrived(q)
    BY <1>3 DEF Left, IInv, InStep
  <2>2. Arrived(q) = at[p] - 1
    BY <1>1, <1>3, <2>1 DEF Arrived
  <2>3. CASE pc[q] \in {"run", "quiet", "init", "free"}
    BY <1>2, <2>3 DEF Stopped
  <2>4. CASE pc[q] = "barrier"
    <3>1. at[q] = at[p] - 1
      BY <1>1, <2>2, <2>4 DEF Arrived
    <3>2. \A r \in PE : at[p] - 1 <= Arrived(r)
      BY <2>1 DEF IInv, InStep
    <3>3. \A r \in PE : Arrived(r) >= at[q]
      BY <1>1, <3>1, <3>2, Counts DEF IInv
    <3> QED BY <2>4, <3>3 DEF CanGo
  <2>5. pc[q] # "end"
    <3> SUFFICES ASSUME pc[q] = "end" PROVE FALSE
      OBVIOUS
    <3>1. at[q] = at[p] - 1 /\ Cur(q) = Finalize
      BY <1>1, <2>2 DEF Arrived, IInv, Stages
    <3>2. at[q] = Len(script[q]) /\ script[p] = script[q]
      BY <1>1, <3>1, ProgramsAssumption DEF IInv, SameProgram, WellFormed, Cur
    <3> QED BY <1>1, <3>1, <3>2
  <2>6. pc[q] # "aborted"
    <3> SUFFICES ASSUME pc[q] = "aborted" PROVE FALSE
      OBVIOUS
    <3>1. at[q] = at[p] - 1
      BY <1>1, <2>2 DEF Arrived
    <3>2. at[p] = at[q]
      BY DEF UnanimousOutOfMemory
    <3> QED BY <1>1, <3>1, <3>2
  <2> QED BY <1>1, <2>3, <2>4, <2>5, <2>6 DEF Stage
<1>4. ASSUME NEW p \in PE, pc[p] = "barrier", \A q \in PE : Arrived(q) >= at[p]
      PROVE  CanGo(p)
  BY <1>4 DEF CanGo
<1> QED BY <1>2, <1>3, <1>4

(***************************************************************************)
(* However many PEs there are, they never all wait for each other: a       *)
(* program that obeys the ownership rules gets out of every collective     *)
(* call of the heap, or aborts on all PEs (shmalloc.rs:28-47).             *)
(***************************************************************************)
THEOREM NoDeadlock == Spec => []NeverStuck
BY KeptInit, KeptStep, Inductive, OutOfMemoryOnAll, SomebodyGoes, PTL DEF Spec

=============================================================================
