-------------------------- MODULE Collectives_proofs --------------------------
(***************************************************************************)
(* Proofs about Collectives, for every number of PEs, size and width of    *)
(* the arrays, and every program that keeps its puts between barriers: a   *)
(* put never meets a reduction, the values stay in their type, the PEs     *)
(* compute what they would compute in lock step, are never all stuck, and  *)
(* a reduction does not depend on the order in which elements are combined.*)
(***************************************************************************)
EXTENDS Collectives, Words_proofs

Collective == Op \cup {"barrier"}

\* Where the PEs are: the part of TypeOK that has nothing to do with values.
Places ==
  /\ script \in Seq(Call) /\ Separated(script)
  /\ at \in [PE -> Nat \ {0}]
  /\ pc \in [PE -> {"fill", "run", "in"}]
  /\ \A p \in PE : pc[p] = "in" => at[p] <= Len(script) /\ Cur(p) \in Collective

\* The source of a put has gone no further than to the barrier behind it.
PutsPlaced ==
  \A m \in puts :
    /\ m.src \in PE /\ m.call \in 1..Len(script)
    /\ script[m.call] = "put"
    /\ at[m.src] = m.call + 1 /\ pc[m.src] = "run"

\* Nobody has left a collective call that another has not reached.
Together ==
  \A p, q \in PE : \A k \in 1..Len(script) :
    k < at[p] /\ script[k] \in Collective => Reached(q, k)

IInv == Places /\ PutsPlaced /\ Together

-----------------------------------------------------------------------------

LEMMA Calls ==
  /\ "put" \notin Collective /\ "assign" \notin Collective /\ "barrier" \in Collective
  /\ \A o \in Op : o # "barrier" /\ o \in Collective
BY DEF Collective, Op, ArithmeticOp, BooleanOp, CompareOp

LEMMA InvInit == Init => IInv
BY ProgramsAssumption DEF Init, IInv, Places, PutsPlaced, Together

\* A PE that is not in a call goes on to the next one: no collective is left.
LEMMA RunInv ==
  ASSUME IInv, NEW p \in PE, pc[p] = "run", More(p), Cur(p) \notin Collective,
         at' = [at EXCEPT ![p] = @ + 1], UNCHANGED <<script, pc>>
  PROVE  Places' /\ Together'
<1>1. Places'
  BY DEF IInv, Places, Cur
<1>2. Together'
  <2> SUFFICES ASSUME NEW q \in PE, NEW r \in PE, NEW k \in 1..Len(script),
                      k < at'[q], script[k] \in Collective
               PROVE  Reached(r, k)'
    BY DEF Together
  <2>1. k < at[q]
    BY DEF IInv, Places, Cur
  <2>2. Reached(r, k)
    BY <2>1 DEF IInv, Together
  <2> QED
    BY <2>2 DEF Reached, IInv, Places
<1> QED
  BY <1>1, <1>2

LEMMA AssignInv == ASSUME IInv, NEW p \in PE, Assign(p) PROVE IInv'
<1>1. Places' /\ Together'
  BY RunInv, Calls DEF Assign, GoesOn
<1>2. PutsPlaced'
  <2>1. \A m \in puts : m.src # p
    <3> SUFFICES ASSUME NEW m \in puts, m.src = p PROVE FALSE
      OBVIOUS
    <3>1. script[m.call] = "put" /\ m.call \in 1..Len(script) /\ at[p] = m.call + 1
      BY DEF IInv, PutsPlaced
    <3>2. m.call + 1 <= Len(script) /\ script[m.call + 1] = "assign"
      BY <3>1 DEF Assign, More, Cur
    <3> QED
      BY <3>1, <3>2 DEF IInv, Places, Separated
  <2> QED
    BY <2>1 DEF Assign, GoesOn, IInv, Places, PutsPlaced
<1> QED
  BY <1>1, <1>2 DEF IInv

LEMMA WriteFromInv == ASSUME IInv, NEW p \in PE, WriteFrom(p) PROVE IInv'
<1>1. Places' /\ Together'
  BY RunInv, Calls DEF WriteFrom, GoesOn
<1>2. PutsPlaced'
  <2>1. \A m \in puts : m.src # p
    <3> SUFFICES ASSUME NEW m \in puts, m.src = p PROVE FALSE
      OBVIOUS
    <3>1. script[m.call] = "put" /\ m.call \in 1..Len(script) /\ at[p] = m.call + 1
      BY DEF IInv, PutsPlaced
    <3>2. m.call + 1 <= Len(script) /\ script[m.call + 1] = "put"
      BY <3>1 DEF WriteFrom, More, Cur
    <3> QED
      BY <3>1, <3>2 DEF IInv, Places, Separated
  <2>2. /\ at' = [at EXCEPT ![p] = @ + 1] /\ UNCHANGED <<script, pc>>
        /\ at[p] \in 1..Len(script) /\ script[at[p]] = "put" /\ pc[p] = "run"
    BY DEF WriteFrom, GoesOn, More, Cur, IInv, Places
  <2> SUFFICES ASSUME NEW m \in puts'
               PROVE  /\ m.src \in PE /\ m.call \in 1..Len(script)
                      /\ script[m.call] = "put"
                      /\ at'[m.src] = m.call + 1 /\ pc[m.src] = "run"
    BY <2>2 DEF PutsPlaced
  <2>3. CASE m \in puts
    BY <2>1, <2>2, <2>3 DEF IInv, Places, PutsPlaced
  <2>4. CASE m \notin puts
    <3>1. m.src = p /\ m.call = at[p]
      BY <2>4 DEF WriteFrom
    <3> QED
      BY <2>2, <3>1 DEF IInv, Places
  <2> QED
    BY <2>3, <2>4
<1> QED
  BY <1>1, <1>2 DEF IInv

\* A PE enters a collective call: nothing of it is on its way then.
LEMMA EnterInv ==
  ASSUME IInv, NEW p \in PE, pc[p] = "run", More(p), Cur(p) \in Collective,
         \A m \in puts : m.src # p,
         pc' = [pc EXCEPT ![p] = "in"], UNCHANGED <<script, at, puts>>
  PROVE  IInv'
<1>1. Places'
  BY DEF IInv, Places, More, Cur
<1>2. PutsPlaced'
  BY DEF IInv, Places, PutsPlaced
<1>3. Together'
  BY DEF IInv, Places, Together, Reached
<1> QED
  BY <1>1, <1>2, <1>3 DEF IInv

\* After a put comes the barrier: a PE that enters a reduction has none on its way.
LEMMA ReduceInv == ASSUME IInv, NEW p \in PE, EnterReduce(p) PROVE IInv'
<1>1. \A m \in puts : m.src # p
  <2> SUFFICES ASSUME NEW m \in puts, m.src = p PROVE FALSE
    OBVIOUS
  <2>1. script[m.call] = "put" /\ m.call \in 1..Len(script) /\ at[p] = m.call + 1
    BY DEF IInv, PutsPlaced
  <2>2. m.call + 1 <= Len(script) /\ script[m.call + 1] \in Op
    BY <2>1 DEF EnterReduce, More, Cur
  <2> QED
    BY <2>1, <2>2, Calls DEF IInv, Places, Separated
<1> QED
  BY <1>1, EnterInv, Calls DEF EnterReduce, Goes

LEMMA BarrierInv == ASSUME IInv, NEW p \in PE, EnterBarrier(p) PROVE IInv'
BY EnterInv, Calls DEF EnterBarrier, Goes

LEMMA FillInv == ASSUME IInv, NEW p \in PE, Fill(p) PROVE IInv'
<1>1. UNCHANGED <<script, at, puts>> /\ pc[p] = "fill" /\ pc' = [pc EXCEPT ![p] = "run"]
  BY DEF Fill, Goes
<1>2. Places'
  BY <1>1 DEF IInv, Places, Cur
<1>3. PutsPlaced'
  BY <1>1 DEF IInv, Places, PutsPlaced
<1>4. Together'
  BY <1>1 DEF IInv, Places, Together, Reached
<1> QED
  BY <1>2, <1>3, <1>4 DEF IInv

\* A PE leaves a call that everybody has reached.
LEMMA LeaveInv == ASSUME IInv, NEW p \in PE, Leave(p) PROVE IInv'
<1>1. /\ UNCHANGED <<script, puts>> /\ pc[p] = "in"
      /\ pc' = [pc EXCEPT ![p] = "run"] /\ at' = [at EXCEPT ![p] = @ + 1]
      /\ \A q \in PE : Reached(q, at[p])
  BY DEF Leave, Goes, GoesOn
<1>2. Places'
  BY <1>1 DEF IInv, Places, Cur
<1>3. PutsPlaced'
  BY <1>1 DEF IInv, Places, PutsPlaced
<1>4. Together'
  <2> SUFFICES ASSUME NEW q \in PE, NEW r \in PE, NEW k \in 1..Len(script),
                      k < at'[q], script[k] \in Collective
               PROVE  Reached(r, k)'
    BY <1>1 DEF Together
  <2>1. Reached(r, k)
    <3>1. CASE k < at[q]
      BY <3>1 DEF IInv, Together
    <3>2. CASE ~ (k < at[q])
      <4>1. q = p /\ k = at[p]
        BY <1>1, <3>2 DEF IInv, Places
      <4> QED
        BY <1>1, <4>1
    <3> QED
      BY <3>1, <3>2
  <2> QED
    BY <1>1, <2>1 DEF Reached, IInv, Places
<1> QED
  BY <1>2, <1>3, <1>4 DEF IInv

LEMMA InvNext == IInv /\ [Next]_vars => IInv'
<1> SUFFICES ASSUME IInv, [Next]_vars PROVE IInv'
  OBVIOUS
<1>1. ASSUME NEW p \in PE, Step(p) PROVE IInv'
  BY <1>1, FillInv, AssignInv, WriteFromInv, ReduceInv, BarrierInv, LeaveInv DEF Step
<1>2. ASSUME NEW m \in puts, Deliver(m) PROVE IInv'
  BY <1>2 DEF Deliver, IInv, Places, PutsPlaced, Together, Reached, Cur
<1>3. CASE UNCHANGED vars
  BY <1>3 DEF vars, IInv, Places, PutsPlaced, Together, Reached, Cur
<1> QED
  BY <1>1, <1>2, <1>3 DEF Next, Done

(***************************************************************************)
(* With a put of the k-th call on its way, every PE has reached the        *)
(* barrier before it and nobody has left the one behind it.                *)
(***************************************************************************)
LEMMA Apart == IInv => NoPutMeetsReduction
<1> SUFFICES ASSUME IInv, NEW m \in puts, NEW p \in PE, pc[p] = "in" PROVE Cur(p) = "barrier"
  BY DEF NoPutMeetsReduction
<1> DEFINE k == m.call
<1>1. /\ m.src \in PE /\ k \in 1..Len(script) /\ script[k] = "put"
      /\ at[m.src] = k + 1 /\ pc[m.src] = "run"
  BY DEF IInv, PutsPlaced
<1>2. /\ k > 1 /\ script[k - 1] = "barrier"
      /\ k < Len(script) => script[k + 1] = "barrier"
  BY <1>1 DEF IInv, Places, Separated
<1>3. at[p] \in 1..Len(script) /\ Cur(p) \in Collective /\ Len(script) \in Nat
  BY DEF IInv, Places
<1>4. Reached(p, k - 1)
  <2>1. k - 1 \in 1..Len(script) /\ k - 1 < at[m.src] /\ script[k - 1] \in Collective
    BY <1>1, <1>2, <1>3, Calls
  <2> QED
    BY <1>1, <2>1 DEF IInv, Together
<1>5. CASE at[p] = k - 1
  BY <1>2, <1>5 DEF Cur
<1>6. CASE at[p] = k
  BY <1>1, <1>3, <1>6, Calls DEF Cur
<1>7. CASE at[p] = k + 1
  BY <1>1, <1>2, <1>3, <1>7 DEF Cur
<1>8. ~ (at[p] > k + 1)
  <2> SUFFICES ASSUME at[p] > k + 1 PROVE FALSE
    OBVIOUS
  <2>1. k + 1 \in 1..Len(script) /\ script[k + 1] \in Collective
    BY <1>1, <1>2, <1>3, Calls
  <2>2. Reached(m.src, k + 1)
    BY <1>1, <2>1 DEF IInv, Together
  <2> QED
    BY <1>1, <2>2 DEF Reached
<1> QED
  BY <1>1, <1>3, <1>4, <1>5, <1>6, <1>7, <1>8 DEF Reached

(***************************************************************************)
(* While an element is on its way, no PE is inside a reduction, so that    *)
(* neither the source it gives nor the target it gets can change under it  *)
(* (macros.rs:11-126, lib.rs:536-561).                                     *)
(***************************************************************************)
THEOREM PutsAndReductionsApart == Spec => []NoPutMeetsReduction
BY InvInit, InvNext, Apart, PTL DEF Spec

-----------------------------------------------------------------------------

(***************************************************************************)
(* The elements of the array keep their width: what the program stores and *)
(* what a reduction makes of the elements of all PEs.                      *)
(***************************************************************************)
LEMMA Constants ==
  /\ N \in Nat \ {0} /\ Size \in Nat \ {0} /\ Modulus \in Nat \ {0}
  /\ 0 \in PE /\ 0 \in Element /\ IsFiniteSet(PE)
<1>1. IsFiniteSet(0..N - 1)
  BY NAssumption, FS_Interval
<1>2. Modulus \in Nat \ {0}
  BY WidthAssumption, PowersOfTwo DEF Modulus
<1> QED
  BY <1>1, <1>2, NAssumption, SizeAssumption DEF PE, Element

LEMMA ModuloElement == ASSUME NEW a \in Int PROVE a % Modulus \in Element
<1> DEFINE d == Modulus
<1>1. d \in Nat \ {0}
  BY Constants
<1> HIDE DEF d
<1>2. a % d \in 0..d - 1
  BY <1>1, Division
<1> QED
  BY <1>2 DEF d, Element

\* The PE whose puts arrive at p.
Prev(p) == (p + N - 1) % N

LEMMA Neighbours ==
  /\ \A p \in PE : Prev(p) \in PE /\ (Prev(p) + 1) % N = p
  /\ \A p \in PE : (p + 1) % N \in PE /\ Prev((p + 1) % N) = p
<1>1. ASSUME NEW p \in PE PROVE p \in 0..N - 1 /\ p \in Int
  BY <1>1, Constants DEF PE
<1>2. ASSUME NEW p \in PE PROVE Prev(p) = IF p = 0 THEN N - 1 ELSE p - 1
  <2>1. CASE p = 0
    <3>1. p + N - 1 = N * 0 + (N - 1) /\ N - 1 \in 0..N - 1
      BY <2>1, Constants
    <3> QED
      BY <2>1, <3>1, Constants, DivisionUnique DEF Prev
  <2>2. CASE p # 0
    <3>1. p + N - 1 = N * 1 + (p - 1) /\ p - 1 \in 0..N - 1
      BY <1>1, <2>2, Constants
    <3>2. p + N - 1 \in Int
      BY <1>1, Constants
    <3> QED
      BY <2>2, <3>1, <3>2, Constants, DivisionUnique DEF Prev
  <2> QED
    BY <2>1, <2>2
<1>3. ASSUME NEW p \in PE PROVE (p + 1) % N = IF p = N - 1 THEN 0 ELSE p + 1
  <2>1. CASE p = N - 1
    <3>1. p + 1 = N * 1 + 0 /\ 0 \in 0..N - 1 /\ p + 1 \in Int
      BY <2>1, <1>1, Constants
    <3> QED
      BY <2>1, <3>1, Constants, DivisionUnique
  <2>2. CASE p # N - 1
    <3>1. p + 1 = N * 0 + (p + 1) /\ p + 1 \in 0..N - 1 /\ p + 1 \in Int
      BY <1>1, <2>2, Constants
    <3> QED
      BY <2>2, <3>1, Constants, DivisionUnique
  <2> QED
    BY <2>1, <2>2
<1>4. ASSUME NEW p \in PE PROVE Prev(p) \in PE /\ (Prev(p) + 1) % N = p
  <2>1. Prev(p) \in PE
    BY <1>1, <1>2, Constants DEF PE
  <2>2. (Prev(p) + 1) % N = IF Prev(p) = N - 1 THEN 0 ELSE Prev(p) + 1
    BY <1>3, <2>1
  <2> QED
    BY <1>1, <1>2, <2>1, <2>2, Constants
<1>5. ASSUME NEW p \in PE PROVE (p + 1) % N \in PE /\ Prev((p + 1) % N) = p
  <2> DEFINE q == (p + 1) % N
  <2>1. q = IF p = N - 1 THEN 0 ELSE p + 1
    BY <1>3
  <2>2. q \in PE
    BY <1>1, <2>1, Constants DEF PE
  <2> HIDE DEF q
  <2>3. Prev(q) = IF q = 0 THEN N - 1 ELSE q - 1
    BY <1>2, <2>2
  <2>4. Prev(q) = p
    BY <1>1, <2>1, <2>3, Constants
  <2> QED
    BY <2>2, <2>4 DEF q
<1> QED
  BY <1>4, <1>5

\* A greatest and a least element are there, of one PE or more.
LEMMA Extremum ==
  ASSUME NEW o \in CompareOp, NEW D, D # {}, NEW f \in [D -> Element]
  PROVE  /\ \E p \in D : CompareInto(o, f) = f[p]
         /\ \A p \in D : IF o = "max" THEN CompareInto(o, f) >= f[p] ELSE CompareInto(o, f) <= f[p]
<1> DEFINE R == {f[p] : p \in D}
           best(a) == \A p \in D : IF o = "max" THEN a >= f[p] ELSE a <= f[p]
<1>1. R # {} /\ R \subseteq Element /\ DOMAIN f = D
  OBVIOUS
<1>2. \E a \in R : best(a)
  <2>1. CASE o = "max"
    <3> DEFINE T == {Modulus - a : a \in R}
    <3>1. T \subseteq Nat /\ T # {}
      BY <1>1, Constants DEF Element
    <3>2. PICK x \in T : \A y \in T : x <= y
      <4> HIDE DEF T
      <4> QED
        BY <3>1, LeastNumber
    <3>3. PICK a \in R : x = Modulus - a
      BY <3>2
    <3>4. ASSUME NEW p \in D PROVE a >= f[p]
      <4>1. x <= Modulus - f[p]
        BY <3>2
      <4> QED
        BY <1>1, <3>3, <4>1, Constants DEF Element
    <3> QED
      BY <2>1, <3>4
  <2>2. CASE o # "max"
    <3>1. R \subseteq Nat
      BY <1>1, Constants DEF Element
    <3>2. PICK x \in R : \A y \in R : x <= y
      <4> HIDE DEF R
      <4> QED
        BY <1>1, <3>1, LeastNumber
    <3> QED
      BY <2>2, <3>2
  <2> QED
    BY <2>1, <2>2
<1>3. CompareInto(o, f) = CHOOSE a \in R : best(a)
  BY <1>1 DEF CompareInto
<1> DEFINE c == CHOOSE a \in R : best(a)
<1>4. c \in R /\ best(c)
  <2> HIDE DEF R, best
  <2> QED
    BY <1>2
<1> HIDE DEF c
<1> QED
  BY <1>3, <1>4 DEF c

LEMMA ReducedElement ==
  ASSUME NEW o \in Op, NEW f \in [PE -> Element]
  PROVE  Reduced(o, f) \in Element
<1>1. CASE o \in ArithmeticOp
  <2>1. f \in [PE -> Int]
    BY Constants DEF Element
  <2>2. SumFunction(f) \in Int
    BY <2>1, Constants, SumInt
  <2>3. Product(f) \in Int
    BY <2>1, Constants, ProductInt
  <2>4. ArithmeticInto(o, f) \in Element
    BY <2>2, <2>3, ModuloElement DEF ArithmeticInto
  <2> QED
    BY <1>1, <2>4 DEF Reduced, ArithmeticOp, BooleanOp, CompareOp
<1>2. CASE o \in BooleanOp
  <2>1. \A S \in SUBSET (0..Width - 1) : Number(S) \in Element
    BY WidthAssumption, NumberBits DEF Element, Modulus
  <2>2. BooleanInto(o, f) \in Element
    BY <2>1 DEF BooleanInto
  <2> QED
    BY <1>2, <2>2 DEF Reduced, ArithmeticOp, BooleanOp, CompareOp
<1>3. CASE o \in CompareOp
  <2>1. CompareInto(o, f) \in Element
    BY <1>3, Constants, Extremum
  <2> QED
    BY <1>3, <2>1 DEF Reduced, BooleanOp, ArithmeticOp, CompareOp
<1> QED
  BY <1>1, <1>2, <1>3 DEF Op

Array == [Index -> Element]

TypeInv == TypeOK /\ IInv

LEMMA StoredElements ==
  \A p \in PE, i \in Index, k \in Nat : Generated(p, i) \in Element /\ Assigned(p, i, k) \in Element
<1> SUFFICES ASSUME NEW p \in PE, NEW i \in Index, NEW k \in Nat
             PROVE  Generated(p, i) \in Element /\ Assigned(p, i, k) \in Element
  OBVIOUS
<1>1. p + i + 1 \in Int /\ p + i + k \in Int
  BY Constants DEF PE, Index
<1> QED
  BY <1>1, ModuloElement DEF Generated, Assigned

LEMMA TypeInit == Init => TypeInv
<1> SUFFICES ASSUME Init PROVE TypeOK
  BY InvInit DEF TypeInv
<1>1. script \in Seq(Call) /\ Len(script) \in Nat
  BY ProgramsAssumption DEF Init
<1>2. [i \in Index |-> 0] \in Array
  BY Constants DEF Array
<1>3. at \in [PE -> 1..Len(script) + 1] /\ pc \in [PE -> {"fill", "run", "in"}]
  BY <1>1 DEF Init
<1>4. mem \in [PE -> Array] /\ source \in [PE -> [1..Len(script) -> Array]] /\ puts = {}
  BY <1>2 DEF Init
<1> QED
  BY <1>1, <1>3, <1>4 DEF TypeOK, Array

\* The array that p leaves a call with.
LEMMA LeaveArray ==
  ASSUME TypeInv, NEW p \in PE, Leave(p)
  PROVE  /\ at[p] \in 1..Len(script) /\ Cur(p) \in Collective
         /\ Cur(p) \notin Op => mem' = mem
         /\ Cur(p) \in Op =>
              mem' = [mem EXCEPT ![p] =
                        [i \in Index |-> Reduced(Cur(p), [q \in PE |-> source[q][at[p]][i]])]]
<1>1. at[p] \in 1..Len(script) /\ Cur(p) \in Collective
  BY DEF TypeInv, TypeOK, IInv, Places, Leave
<1>2. Covered(mem[p]) = Index
  BY DEF TypeInv, TypeOK, Covered
<1> QED
  BY <1>1, <1>2 DEF Leave

LEMMA TypeStep == ASSUME TypeInv, NEW p \in PE, Step(p) PROVE TypeOK'
<1> USE DEF TypeInv
<1>0. Len(script) \in Nat
  BY DEF TypeOK
<1>1. ASSUME More(p) PROVE at[p] \in 1..Len(script) /\ at[p] + 1 \in 1..Len(script) + 1
  BY <1>0, <1>1 DEF More, TypeOK
<1>2. CASE Fill(p)
  <2>1. [i \in Index |-> Generated(p, i)] \in Array
    BY StoredElements DEF Array
  <2> QED
    BY <1>2, <2>1 DEF Fill, Goes, TypeOK, Array
<1>3. CASE Assign(p)
  <2>1. at[p] \in Nat /\ at[p] + 1 \in 1..Len(script) + 1
    BY <1>0, <1>1, <1>3 DEF Assign
  <2>2. [i \in Index |-> Assigned(p, i, at[p])] \in Array
    BY <2>1, StoredElements DEF Array
  <2> QED
    BY <1>3, <2>1, <2>2 DEF Assign, GoesOn, TypeOK, Array
<1>4. CASE WriteFrom(p)
  <2>1. at[p] \in Nat /\ at[p] \in 1..Len(script) /\ at[p] + 1 \in 1..Len(script) + 1
    BY <1>0, <1>1, <1>4 DEF WriteFrom
  <2>2. \A i \in Index :
          [src |-> p, dst |-> (p + 1) % N, call |-> at[p], cell |-> i,
           val |-> Assigned(p, i, at[p])]
            \in [src : PE, dst : PE, call : 1..Len(script), cell : Index, val : Element]
    BY <2>1, StoredElements, Neighbours
  <2>3. puts' \subseteq [src : PE, dst : PE, call : 1..Len(script), cell : Index, val : Element]
    BY <1>4, <2>2 DEF WriteFrom, TypeOK
  <2> QED
    BY <1>4, <2>1, <2>3 DEF WriteFrom, GoesOn, TypeOK
<1>5. CASE EnterReduce(p)
  <2>1. at[p] \in 1..Len(script) /\ mem[p] \in Array
    BY <1>1, <1>5 DEF EnterReduce, TypeOK, Array
  <2> QED
    BY <1>5, <2>1 DEF EnterReduce, Goes, TypeOK, Array
<1>6. CASE EnterBarrier(p)
  BY <1>6 DEF EnterBarrier, Goes, TypeOK
<1>7. CASE Leave(p)
  <2>1. at[p] \in 1..Len(script) /\ at[p] + 1 \in 1..Len(script) + 1
    BY <1>0, <1>7, LeaveArray
  <2>2. mem' \in [PE -> Array]
    <3>1. CASE Cur(p) \notin Op
      BY <1>7, <3>1, LeaveArray DEF TypeOK, Array
    <3>2. CASE Cur(p) \in Op
      <4>1. \A i \in Index : [q \in PE |-> source[q][at[p]][i]] \in [PE -> Element]
        BY <2>1 DEF TypeOK
      <4>2. [i \in Index |-> Reduced(Cur(p), [q \in PE |-> source[q][at[p]][i]])] \in Array
        BY <3>2, <4>1, ReducedElement DEF Array
      <4> QED
        BY <1>7, <3>2, <4>2, LeaveArray DEF TypeOK, Array
    <3> QED
      BY <3>1, <3>2
  <2> QED
    BY <1>7, <2>1, <2>2 DEF Leave, Goes, GoesOn, TypeOK, Array
<1> QED
  BY <1>2, <1>3, <1>4, <1>5, <1>6, <1>7 DEF Step

LEMMA TypeNext == TypeInv /\ [Next]_vars => TypeInv'
<1> SUFFICES ASSUME TypeInv, [Next]_vars PROVE TypeOK'
  BY InvNext DEF TypeInv
<1>1. ASSUME NEW m \in puts, Deliver(m) PROVE TypeOK'
  <2>1. m.dst \in PE /\ m.cell \in Index /\ m.val \in Element
    BY DEF TypeInv, TypeOK
  <2> QED
    BY <1>1, <2>1 DEF Deliver, TypeInv, TypeOK
<1>2. CASE UNCHANGED vars
  BY <1>2 DEF vars, TypeInv, TypeOK
<1> QED
  BY <1>1, <1>2, TypeStep DEF Next, Done

(***************************************************************************)
(* What the PEs keep in their arrays has the width of an element: sums and *)
(* products wrap around, boolean results have no other bits, and a         *)
(* greatest and a least element exist (macros.rs:6-128).                   *)
(***************************************************************************)
THEOREM TypeCorrect == Spec => []TypeOK
<1>1. TypeInv => TypeOK
  BY DEF TypeInv
<1> QED
  BY <1>1, TypeInit, TypeNext, PTL DEF Spec

-----------------------------------------------------------------------------

(***************************************************************************)
(* The program in lock step: the arrays before the first call, and those   *)
(* that each call makes of the ones before it.                             *)
(***************************************************************************)
LEMMA AfterCallArrays ==
  ASSUME script \in Seq(Call), NEW k \in 1..Len(script), NEW A \in [PE -> Array]
  PROVE  AfterCall(k, A) \in [PE -> Array]
<1>1. script[k] \in Call /\ k \in Nat
  OBVIOUS
<1> DEFINE e(p, i) == CASE script[k] \in Op -> Reduced(script[k], [q \in PE |-> A[q][i]])
                        [] script[k] = "assign" -> Assigned(p, i, k)
                        [] script[k] = "put" -> Assigned((p + N - 1) % N, i, k)
                        [] script[k] = "barrier" -> A[p][i]
<1>2. ASSUME NEW p \in PE, NEW i \in Index PROVE e(p, i) \in Element
  <2>1. CASE script[k] \in Op
    <3>1. [q \in PE |-> A[q][i]] \in [PE -> Element]
      BY DEF Array
    <3>2. e(p, i) = Reduced(script[k], [q \in PE |-> A[q][i]])
      BY <2>1 DEF Op, ArithmeticOp, BooleanOp, CompareOp
    <3> QED
      BY <2>1, <3>1, <3>2, ReducedElement
  <2>2. CASE script[k] = "assign"
    <3>1. e(p, i) = Assigned(p, i, k)
      BY <2>2 DEF Op, ArithmeticOp, BooleanOp, CompareOp
    <3> QED
      BY <1>1, <3>1, StoredElements
  <2>3. CASE script[k] = "put"
    <3>1. e(p, i) = Assigned(Prev(p), i, k)
      BY <2>3 DEF Op, ArithmeticOp, BooleanOp, CompareOp, Prev
    <3>2. Assigned(Prev(p), i, k) \in Element
      BY <1>1, StoredElements, Neighbours
    <3> HIDE DEF e
    <3> QED
      BY <3>1, <3>2
  <2>4. CASE script[k] = "barrier"
    <3>1. e(p, i) = A[p][i]
      BY <2>4 DEF Op, ArithmeticOp, BooleanOp, CompareOp
    <3>2. A[p][i] \in Element
      BY DEF Array
    <3> HIDE DEF e
    <3> QED
      BY <3>1, <3>2
  <2> HIDE DEF e
  <2> QED
    BY <1>1, <2>1, <2>2, <2>3, <2>4 DEF Call
<1>3. AfterCall(k, A) = [p \in PE |-> [i \in Index |-> e(p, i)]]
  BY DEF AfterCall
<1> HIDE DEF e
<1> QED
  BY <1>2, <1>3 DEF Array

LEMMA LockStep ==
  script \in Seq(Call) =>
    /\ InLockStep[0] = [p \in PE |-> [i \in Index |-> Generated(p, i)]]
    /\ \A k \in 1..Len(script) : InLockStep[k] = AfterCall(k, InLockStep[k - 1])
    /\ \A k \in 0..Len(script) : InLockStep[k] \in [PE -> Array]
<1> SUFFICES ASSUME script \in Seq(Call)
             PROVE  /\ InLockStep[0] = [p \in PE |-> [i \in Index |-> Generated(p, i)]]
                    /\ \A k \in 1..Len(script) : InLockStep[k] = AfterCall(k, InLockStep[k - 1])
                    /\ \A k \in 0..Len(script) : InLockStep[k] \in [PE -> Array]
  OBVIOUS
<1> DEFINE T == [PE -> Array]
           L == Len(script)
           first == [p \in PE |-> [i \in Index |-> Generated(p, i)]]
           next(n, A) == IF n + 1 <= L THEN AfterCall(n + 1, A) ELSE A
           h == [n \in Nat |-> [A \in T |-> next(n, A)]]
           RHS(f) == [k \in 0..L |-> IF k = 0 THEN first ELSE AfterCall(k, f[k - 1])]
<1>1. first \in T
  <2>1. \A p \in PE, i \in Index : Generated(p, i) \in Element
    BY StoredElements
  <2> QED
    BY <2>1 DEF Array
<1>2. L \in Nat
  OBVIOUS
<1>3. ASSUME NEW n \in Nat, NEW A \in T PROVE next(n, A) \in T
  BY <1>2, <1>3, AfterCallArrays
<1>4. PICK g : Iterates(g, T, first, h)
  <2>1. h \in [Nat -> [T -> T]]
    BY <1>3
  <2> HIDE DEF h, T, first
  <2> QED
    BY <1>1, <2>1, Recursion
<1> DEFINE f == [k \in 0..L |-> g[k]]
<1>5. \A k \in 0..L : f[k] = g[k] /\ f[k] \in T
  BY <1>4 DEF Iterates
<1>6. f[0] = first
  BY <1>2, <1>4, <1>5 DEF Iterates
<1>7. ASSUME NEW k \in 1..L PROVE f[k] = AfterCall(k, f[k - 1])
  <2>1. k - 1 \in Nat /\ k - 1 \in 0..L /\ k \in 0..L /\ (k - 1) + 1 = k /\ k <= L
    BY <1>2
  <2>2. g[(k - 1) + 1] = h[k - 1][g[k - 1]]
    BY <1>4, <2>1 DEF Iterates
  <2>3. h[k - 1][g[k - 1]] = next(k - 1, g[k - 1])
    BY <1>5, <2>1
  <2>4. next(k - 1, g[k - 1]) = AfterCall(k, g[k - 1])
    BY <2>1
  <2> HIDE DEF f, h, next, T, L
  <2> QED
    BY <1>5, <2>1, <2>2, <2>3, <2>4
<1>8. f = RHS(f)
  <2> HIDE DEF first
  <2>1. ASSUME NEW k \in 0..L
        PROVE  f[k] = IF k = 0 THEN first ELSE AfterCall(k, f[k - 1])
    <3>1. k = 0 \/ k \in 1..L
      BY <1>2
    <3>2. \A n \in 1..L : n # 0
      BY <1>2
    <3> HIDE DEF f, L
    <3> QED
      BY <1>6, <1>7, <3>1, <3>2
  <2>2. f = [k \in 0..L |-> f[k]]
    OBVIOUS
  <2> HIDE DEF f, L
  <2> QED
    BY <2>1, <2>2
<1> HIDE DEF f
<1>9. InLockStep = CHOOSE x : x = RHS(x)
  BY DEF InLockStep
<1>10. InLockStep = RHS(InLockStep)
  <2> HIDE DEF RHS
  <2> QED
    BY <1>8, <1>9
<1>11. ASSUME NEW k \in 1..L PROVE InLockStep[k] = AfterCall(k, InLockStep[k - 1])
  <2>1. k \in 0..L /\ k # 0
    BY <1>2
  <2> HIDE DEF first, L
  <2> QED
    BY <1>10, <2>1
<1>12. InLockStep[0] = first
  <2>1. 0 \in 0..L
    BY <1>2
  <2> HIDE DEF first, L
  <2> QED
    BY <1>10, <2>1
<1>13. \A n \in Nat : n \in {k \in Nat : k <= L => InLockStep[k] \in T}
  <2> DEFINE S == {k \in Nat : k <= L => InLockStep[k] \in T}
  <2>1. 0 \in S
    BY <1>1, <1>12
  <2>2. ASSUME NEW n \in Nat, n \in S PROVE n + 1 \in S
    <3> SUFFICES ASSUME n + 1 <= L PROVE InLockStep[n + 1] \in T
      OBVIOUS
    <3>1. n + 1 \in 1..L /\ (n + 1) - 1 = n /\ InLockStep[n] \in T
      BY <1>2, <2>2
    <3>2. InLockStep[n + 1] = AfterCall(n + 1, InLockStep[n])
      BY <1>11, <3>1
    <3> QED
      BY <3>1, <3>2, AfterCallArrays
  <2> HIDE DEF S
  <2>3. \A n \in Nat : n \in S
    BY <2>1, <2>2, NaturalsInduct
  <2> QED
    BY <2>3 DEF S
<1>14. \A k \in 0..L : InLockStep[k] \in T
  BY <1>2, <1>13
<1> QED
  BY <1>11, <1>12, <1>14

LEMMA LockStepStays == UNCHANGED script => InLockStep' = InLockStep
BY DEF InLockStep, AfterCall

\* Nothing that others do to p's array is under way: p is not next to a put.
Certain(p) ==
  /\ pc[p] # "fill"
  /\ at[p] > 1 => script[at[p] - 1] # "put"
  /\ More(p) => Cur(p) # "put"
  /\ pc[p] = "in" /\ Cur(p) = "barrier" /\ at[p] < Len(script) => script[at[p] + 1] # "put"

Begins == \A p \in PE : pc[p] = "fill" => at[p] = 1

Follows == \A p \in PE : Certain(p) => mem[p] = InLockStep[at[p] - 1][p]

\* What the reductions reduce is what they reduce in lock step.
Given ==
  \A p \in PE : \A k \in 1..Len(script) :
    script[k] \in Op /\ Reached(p, k) => source[p][k] = InLockStep[k - 1][p]

\* The k-th call, a put to p, has been made, p has not left the barrier behind
\* it, and no later put has been made: an element of it is either on its way or
\* in p's array.
Open(p, k) ==
  /\ script[k] = "put" /\ at[Prev(p)] > k /\ at[p] <= k + 1
  /\ k + 2 <= Len(script) /\ script[k + 2] = "put" => at[Prev(p)] <= k + 2

OnItsWay(p, k, i) == \E m \in puts : m.src = Prev(p) /\ m.call = k /\ m.cell = i

Putting ==
  \A p \in PE : \A k \in 1..Len(script) : Open(p, k) =>
    \A i \in Index : OnItsWay(p, k, i) \/ mem[p][i] = Assigned(Prev(p), i, k)

Carried == \A m \in puts : m.dst = (m.src + 1) % N /\ m.val = Assigned(m.src, m.cell, m.call)

StepInv == TypeInv /\ Begins /\ Follows /\ Given /\ Putting /\ Carried

\* Once a put has been made, all PEs have reached the barrier before it, and
\* none has left the barrier behind it that its source has not reached.
LEMMA Around ==
  ASSUME TypeInv, NEW p \in PE, NEW q \in PE, NEW k \in 1..Len(script),
         script[k] = "put", at[q] > k
  PROVE  /\ k > 1 /\ script[k - 1] = "barrier" /\ Reached(p, k - 1)
         /\ k < Len(script) => script[k + 1] = "barrier"
         /\ at[p] > k + 1 => Reached(q, k + 1)
<1>1. k > 1 /\ script[k - 1] = "barrier" /\ (k < Len(script) => script[k + 1] = "barrier")
  BY DEF TypeInv, IInv, Places, Separated
<1>2. Len(script) \in Nat /\ at[p] \in Nat /\ at[p] <= Len(script) + 1 /\ at[q] \in Nat
  BY DEF TypeInv, TypeOK
<1>3. k - 1 \in 1..Len(script) /\ k - 1 < at[q]
  BY <1>1, <1>2
<1>4. Reached(p, k - 1)
  BY <1>1, <1>3, Calls DEF TypeInv, IInv, Together
<1>5. ASSUME at[p] > k + 1 PROVE Reached(q, k + 1)
  <2>1. k + 1 \in 1..Len(script) /\ k + 1 < at[p] /\ script[k + 1] \in Collective
    BY <1>1, <1>2, <1>5, Calls
  <2> QED
    BY <2>1 DEF TypeInv, IInv, Together
<1> QED
  BY <1>1, <1>4, <1>5

\* The target of an element on its way is next to a put.
LEMMA Uncertain ==
  ASSUME TypeInv, Carried, NEW m \in puts
  PROVE  /\ m.dst \in PE /\ m.src = Prev(m.dst) /\ m.src \in PE
         /\ m.call \in 1..Len(script) /\ m.cell \in Index
         /\ ~ Certain(m.dst)
<1> DEFINE p == m.dst
           q == m.src
           k == m.call
<1>1. /\ p \in PE /\ q \in PE /\ k \in 1..Len(script) /\ m.cell \in Index
      /\ script[k] = "put" /\ at[q] = k + 1 /\ pc[q] = "run"
  BY DEF TypeInv, TypeOK, IInv, PutsPlaced
<1>2. q = Prev(p)
  BY <1>1, Neighbours DEF Carried
<1>3. Len(script) \in Nat /\ at[p] \in Nat
  BY DEF TypeInv, TypeOK
<1> HIDE DEF p, q, k
<1>4. /\ k > 1 /\ script[k - 1] = "barrier" /\ Reached(p, k - 1)
      /\ at[p] > k + 1 => Reached(q, k + 1)
  BY <1>1, Around
<1>5. (at[p] = k - 1 /\ pc[p] = "in") \/ at[p] = k \/ at[p] = k + 1
  BY <1>1, <1>3, <1>4 DEF Reached
<1>6. ~ Certain(p)
  BY <1>1, <1>3, <1>4, <1>5 DEF Certain, Cur, More
<1> QED
  BY <1>1, <1>2, <1>6 DEF p, q, k

LEMMA StepInit == Init => StepInv
<1> SUFFICES ASSUME Init PROVE StepInv
  OBVIOUS
<1>1. TypeInv
  BY TypeInit
<1>2. \A p \in PE : pc[p] = "fill" /\ at[p] = 1
  BY DEF Init
<1>3. \A p \in PE : \A k \in 1..Len(script) : ~ Reached(p, k)
  BY <1>2 DEF Reached
<1>4. \A p \in PE : \A k \in 1..Len(script) : ~ Open(p, k)
  BY <1>2, Neighbours DEF Open
<1> QED
  BY <1>1, <1>2, <1>3, <1>4
  DEF StepInv, Begins, Follows, Given, Putting, Carried, Certain, Init

LEMMA Shows == StepInv => AsIfInLockStep
BY DEF StepInv, Follows, AsIfInLockStep, Certain

\* A PE that goes on opens no other call than the one it has made.
LEMMA Opens ==
  ASSUME TypeInv, NEW r \in PE, at' = [at EXCEPT ![r] = @ + 1], UNCHANGED script,
         NEW p \in PE, NEW k \in 1..Len(script), Open(p, k)'
  PROVE  Open(p, k) \/ (Prev(p) = r /\ k = at[r] /\ script[k] = "put")
<1>1. Prev(p) \in PE
  BY Neighbours
<1>2. /\ at'[Prev(p)] = (IF Prev(p) = r THEN at[Prev(p)] + 1 ELSE at[Prev(p)])
      /\ at'[p] = (IF p = r THEN at[p] + 1 ELSE at[p])
      /\ at[Prev(p)] \in Nat /\ at[p] \in Nat /\ k \in Nat /\ Len(script) \in Nat
  BY <1>1 DEF TypeInv, TypeOK
<1>3. /\ script[k] = "put" /\ at'[Prev(p)] > k /\ at'[p] <= k + 1
      /\ k + 2 <= Len(script) /\ script[k + 2] = "put" => at'[Prev(p)] <= k + 2
  BY DEF Open, Prev
<1> QED
  BY <1>2, <1>3 DEF Open

\* The target of an open put is at the barrier before it, at its own put, or
\* at the barrier behind it.
LEMMA Target ==
  ASSUME TypeInv, NEW p \in PE, NEW k \in 1..Len(script), Open(p, k)
  PROVE  /\ at[p] > 1 \/ pc[p] = "in"
         /\ at[p] <= Len(script) => Cur(p) \in {"put", "barrier"}
         /\ Prev(p) \in PE /\ k > 1 /\ k - 1 <= at[p]
<1>1. Prev(p) \in PE
  BY Neighbours
<1>2. /\ k > 1 /\ script[k - 1] = "barrier" /\ Reached(p, k - 1) /\ script[k] = "put"
      /\ k < Len(script) => script[k + 1] = "barrier"
  BY <1>1, Around DEF Open
<1>3. at[p] \in Nat /\ at[p] <= k + 1 /\ Len(script) \in Nat
  BY DEF Open, TypeInv, TypeOK
<1>4. at[p] = k - 1 \/ at[p] = k \/ at[p] = k + 1
  BY <1>2, <1>3 DEF Reached
<1> QED
  BY <1>1, <1>2, <1>3, <1>4 DEF Reached, Cur

LEMMA FillStep == ASSUME StepInv, NEW p \in PE, Fill(p) PROVE StepInv'
<1>1. /\ TypeInv /\ Begins /\ Follows /\ Given /\ Putting /\ Carried
      /\ script \in Seq(Call)
  BY DEF StepInv, TypeInv, TypeOK
<1>2. /\ pc[p] = "fill" /\ pc' = [pc EXCEPT ![p] = "run"]
      /\ mem' = [mem EXCEPT ![p] = [i \in Index |-> Generated(p, i)]]
      /\ UNCHANGED <<script, at, puts, source>>
      /\ mem \in [PE -> Array] /\ pc \in [PE -> {"fill", "run", "in"}]
  BY <1>1 DEF Fill, Goes, TypeInv, TypeOK, Array
<1>3. InLockStep' = InLockStep
  BY <1>2, LockStepStays
<1>4. TypeInv' /\ Carried' /\ Begins'
  <2>1. TypeInv'
    BY <1>1, TypeNext DEF Next, Step
  <2> QED
    BY <1>1, <1>2, <2>1 DEF Carried, Begins
<1>5. Follows'
  <2> SUFFICES ASSUME NEW q \in PE, Certain(q)' PROVE mem'[q] = InLockStep[at[q] - 1][q]
    BY <1>2, <1>3 DEF Follows
  <2>1. CASE q = p
    <3>1. at[p] - 1 = 0
      BY <1>1, <1>2 DEF Begins
    <3> QED
      BY <1>1, <1>2, <2>1, <3>1, LockStep
  <2>2. CASE q # p
    <3>1. Certain(q)
      BY <1>2, <2>2 DEF Certain, Cur, More
    <3> QED
      BY <1>1, <1>2, <2>2, <3>1 DEF Follows
  <2> QED
    BY <2>1, <2>2
<1>6. Given'
  <2>1. \A q \in PE : \A k \in 1..Len(script) : Reached(q, k)' => Reached(q, k)
    BY <1>2 DEF Reached
  <2> QED
    BY <1>1, <1>2, <1>3, <2>1 DEF Given
<1>7. Putting'
  <2> SUFFICES ASSUME NEW q \in PE, NEW k \in 1..Len(script), Open(q, k)', NEW i \in Index
               PROVE  OnItsWay(q, k, i) \/ mem'[q][i] = Assigned(Prev(q), i, k)
    BY <1>2 DEF Putting, OnItsWay, Prev, Assigned
  <2>1. Open(q, k)
    BY <1>2 DEF Open, Prev
  <2>2. q # p
    <3>1. at[q] > 1 \/ pc[q] = "in"
      BY <1>1, <2>1, Target
    <3> QED
      BY <1>1, <1>2, <3>1 DEF Begins
  <2> QED
    BY <1>1, <1>2, <2>1, <2>2 DEF Putting
<1> QED
  BY <1>4, <1>5, <1>6, <1>7 DEF StepInv

\* What p does in its own array, as long as it is right for p, is right for all.
LEMMA OwnStep ==
  ASSUME StepInv, NEW p \in PE, Step(p),
         UNCHANGED <<script, puts, source>>,
         at' = [at EXCEPT ![p] = @ + 1], pc' = [pc EXCEPT ![p] = "run"],
         at[p] \in 1..Len(script), Cur(p) # "put",
         \A q \in PE : q # p => mem'[q] = mem[q],
         Cur(p) \in {"barrier", "put"} => mem'[p] = mem[p],
         Cur(p) \in Op => \A q \in PE : Reached(q, at[p]),
         Certain(p)' => mem'[p] = InLockStep[at[p]][p]
  PROVE  StepInv'
<1>1. /\ TypeInv /\ Begins /\ Follows /\ Given /\ Putting /\ Carried
      /\ script \in Seq(Call) /\ InLockStep' = InLockStep
  BY LockStepStays DEF StepInv, TypeInv, TypeOK
<1>2. at \in [PE -> Nat] /\ pc \in [PE -> {"fill", "run", "in"}] /\ Len(script) \in Nat
  BY <1>1 DEF TypeInv, TypeOK
<1>3. TypeInv' /\ Carried'
  <2>1. TypeInv'
    BY <1>1, TypeNext DEF Next
  <2> QED
    BY <1>1, <2>1 DEF Carried
<1>4. Begins'
  BY <1>1, <1>2 DEF Begins
<1>5. Follows'
  <2> SUFFICES ASSUME NEW q \in PE, Certain(q)' PROVE mem'[q] = InLockStep[at'[q] - 1][q]
    BY <1>1 DEF Follows
  <2>1. CASE q = p
    BY <1>2, <2>1
  <2>2. CASE q # p
    <3>1. Certain(q)
      BY <1>2, <2>2 DEF Certain, Cur, More
    <3> QED
      BY <1>1, <1>2, <2>2, <3>1 DEF Follows
  <2> QED
    BY <2>1, <2>2
<1>6. Given'
  <2> SUFFICES ASSUME NEW q \in PE, NEW k \in 1..Len(script), script[k] \in Op, Reached(q, k)'
               PROVE  source[q][k] = InLockStep[k - 1][q]
    BY <1>1 DEF Given
  <2>1. Reached(q, k)
    BY <1>2 DEF Reached, Cur
  <2> QED
    BY <1>1, <2>1 DEF Given
<1>7. Putting'
  <2> SUFFICES ASSUME NEW q \in PE, NEW k \in 1..Len(script), Open(q, k)', NEW i \in Index
               PROVE  OnItsWay(q, k, i) \/ mem'[q][i] = Assigned(Prev(q), i, k)
    BY DEF Putting, OnItsWay, Prev, Assigned
  <2>1. Open(q, k)
    BY <1>1, Opens DEF Cur
  <2>2. mem'[q] = mem[q]
    BY <1>1, <2>1, Target
  <2> QED
    BY <1>1, <2>1, <2>2 DEF Putting
<1> QED
  BY <1>3, <1>4, <1>5, <1>6, <1>7 DEF StepInv

LEMMA AssignStep == ASSUME StepInv, NEW p \in PE, Assign(p) PROVE StepInv'
<1>1. TypeInv /\ script \in Seq(Call)
  BY DEF StepInv, TypeInv, TypeOK
<1>2. /\ pc[p] = "run" /\ UNCHANGED <<script, pc, puts, source>>
      /\ at' = [at EXCEPT ![p] = @ + 1] /\ Cur(p) = "assign"
      /\ at[p] \in 1..Len(script)
      /\ mem' = [mem EXCEPT ![p] = [i \in Index |-> Assigned(p, i, at[p])]]
      /\ mem \in [PE -> Array] /\ pc \in [PE -> {"fill", "run", "in"}]
  BY <1>1 DEF Assign, GoesOn, More, TypeInv, TypeOK, Array
<1>3. mem'[p] = InLockStep[at[p]][p]
  <2>1. /\ InLockStep[at[p]] = AfterCall(at[p], InLockStep[at[p] - 1])
        /\ script[at[p]] = "assign" /\ "assign" \notin Op
    BY <1>1, <1>2, LockStep, Calls DEF Cur, Collective
  <2>2. AfterCall(at[p], InLockStep[at[p] - 1])[p] = [i \in Index |-> Assigned(p, i, at[p])]
    BY <2>1 DEF AfterCall
  <2> QED
    BY <1>2, <2>1, <2>2
<1>4. Cur(p) \notin Op /\ Cur(p) \notin {"put", "barrier"}
  BY <1>2 DEF Op, ArithmeticOp, BooleanOp, CompareOp
<1> QED
  BY <1>2, <1>3, <1>4, OwnStep DEF Step

LEMMA WriteFromStep == ASSUME StepInv, NEW p \in PE, WriteFrom(p) PROVE StepInv'
<1>1. /\ TypeInv /\ Begins /\ Follows /\ Given /\ Putting /\ Carried
      /\ script \in Seq(Call)
  BY DEF StepInv, TypeInv, TypeOK
<1>2. /\ pc[p] = "run" /\ UNCHANGED <<script, pc, mem, source>>
      /\ at' = [at EXCEPT ![p] = @ + 1] /\ script[at[p]] = "put"
      /\ at[p] \in 1..Len(script)
      /\ puts' = puts \cup {[src |-> p, dst |-> (p + 1) % N, call |-> at[p], cell |-> i,
                             val |-> Assigned(p, i, at[p])] : i \in Index}
  BY <1>1 DEF WriteFrom, GoesOn, More, Cur, TypeInv, TypeOK
<1>3. at \in [PE -> Nat] /\ pc \in [PE -> {"fill", "run", "in"}] /\ Len(script) \in Nat
  BY <1>1 DEF TypeInv, TypeOK
<1>4. TypeInv' /\ InLockStep' = InLockStep
  BY <1>1, <1>2, TypeNext, LockStepStays DEF Next, Step
<1>5. Begins'
  BY <1>1, <1>2, <1>3 DEF Begins
<1>6. Carried'
  BY <1>1, <1>2 DEF Carried, Assigned
<1>7. Follows'
  <2> SUFFICES ASSUME NEW q \in PE, Certain(q)' PROVE mem[q] = InLockStep[at'[q] - 1][q]
    BY <1>2, <1>4 DEF Follows
  <2>1. q # p
    <3>1. at'[p] = at[p] + 1 /\ at[p] + 1 > 1 /\ (at[p] + 1) - 1 = at[p]
      BY <1>2, <1>3
    <3> QED
      BY <1>2, <3>1 DEF Certain
  <2>2. Certain(q)
    BY <1>2, <1>3, <2>1 DEF Certain, Cur, More
  <2> QED
    BY <1>1, <1>2, <1>3, <2>1, <2>2 DEF Follows
<1>8. Given'
  <2> SUFFICES ASSUME NEW q \in PE, NEW k \in 1..Len(script), script[k] \in Op, Reached(q, k)'
               PROVE  source[q][k] = InLockStep[k - 1][q]
    BY <1>2, <1>4 DEF Given
  <2>1. Reached(q, k)
    BY <1>2, <1>3, Calls DEF Reached, Collective
  <2> QED
    BY <1>1, <2>1 DEF Given
<1>9. Putting'
  <2> SUFFICES ASSUME NEW q \in PE, NEW k \in 1..Len(script), Open(q, k)', NEW i \in Index
               PROVE  \/ \E m \in puts' : m.src = Prev(q) /\ m.call = k /\ m.cell = i
                      \/ mem[q][i] = Assigned(Prev(q), i, k)
    BY <1>2 DEF Putting, OnItsWay, Prev, Assigned
  <2>1. CASE Open(q, k)
    BY <1>1, <1>2, <2>1 DEF Putting, OnItsWay
  <2>2. CASE Prev(q) = p /\ k = at[p]
    <3> DEFINE new == [src |-> p, dst |-> (p + 1) % N, call |-> at[p], cell |-> i,
                       val |-> Assigned(p, i, at[p])]
    <3>1. new \in puts'
      BY <1>2
    <3>2. new.src = p /\ new.call = at[p] /\ new.cell = i
      OBVIOUS
    <3> HIDE DEF new
    <3> QED
      BY <2>2, <3>1, <3>2
  <2> QED
    BY <1>1, <1>2, <2>1, <2>2, Opens
<1> QED
  BY <1>4, <1>5, <1>6, <1>7, <1>8, <1>9 DEF StepInv

\* Before a reduction the array is certain: the call before is not a put.
LEMMA EnterReduceStep == ASSUME StepInv, NEW p \in PE, EnterReduce(p) PROVE StepInv'
<1>1. /\ TypeInv /\ Begins /\ Follows /\ Given /\ Putting /\ Carried
      /\ script \in Seq(Call)
  BY DEF StepInv, TypeInv, TypeOK
<1>2. /\ pc[p] = "run" /\ UNCHANGED <<script, at, mem, puts>>
      /\ pc' = [pc EXCEPT ![p] = "in"]
      /\ source' = [source EXCEPT ![p][at[p]] = mem[p]]
      /\ at[p] \in 1..Len(script) /\ script[at[p]] \in Op
  BY <1>1 DEF EnterReduce, Goes, More, Cur, TypeInv, TypeOK
<1>3. /\ at \in [PE -> Nat] /\ pc \in [PE -> {"fill", "run", "in"}] /\ Len(script) \in Nat
      /\ source \in [PE -> [1..Len(script) -> Array]]
  BY <1>1 DEF TypeInv, TypeOK, Array
<1>4. TypeInv' /\ InLockStep' = InLockStep
  BY <1>1, <1>2, TypeNext, LockStepStays DEF Next, Step
<1>5. Begins' /\ Carried'
  BY <1>1, <1>2, <1>3 DEF Begins, Carried, Assigned
<1>6. Certain(p)
  <2>1. script[at[p]] # "put" /\ script[at[p]] # "barrier"
    BY <1>2, Calls DEF Collective
  <2>2. ASSUME at[p] > 1 PROVE script[at[p] - 1] # "put"
    <3>1. at[p] - 1 \in 1..Len(script) /\ at[p] - 1 < Len(script) /\ (at[p] - 1) + 1 = at[p]
      BY <1>2, <1>3, <2>2
    <3> QED
      BY <1>1, <2>1, <3>1 DEF TypeInv, IInv, Places, Separated
  <2> QED
    BY <1>2, <2>1, <2>2 DEF Certain, Cur
<1>7. Follows'
  <2> SUFFICES ASSUME NEW q \in PE, Certain(q)' PROVE mem[q] = InLockStep[at[q] - 1][q]
    BY <1>2, <1>4 DEF Follows
  <2>1. Certain(q)
    BY <1>2, <1>3, <1>6 DEF Certain, Cur, More
  <2> QED
    BY <1>1, <2>1 DEF Follows
<1>8. Given'
  <2> SUFFICES ASSUME NEW q \in PE, NEW k \in 1..Len(script), script[k] \in Op, Reached(q, k)'
               PROVE  source'[q][k] = InLockStep[k - 1][q]
    BY <1>2, <1>4 DEF Given
  <2>1. CASE q = p /\ k = at[p]
    <3>1. source'[q][k] = mem[p]
      BY <1>2, <1>3, <2>1
    <3> QED
      BY <1>1, <1>6, <2>1, <3>1 DEF Follows
  <2>2. CASE ~ (q = p /\ k = at[p])
    <3>1. source'[q][k] = source[q][k]
      BY <1>2, <1>3, <2>2
    <3>2. Reached(q, k)
      BY <1>2, <1>3, <2>2 DEF Reached
    <3> QED
      BY <1>1, <3>1, <3>2 DEF Given
  <2> QED
    BY <2>1, <2>2
<1>9. Putting'
  BY <1>1, <1>2 DEF Putting, Open, OnItsWay, Prev, Assigned
<1> QED
  BY <1>4, <1>5, <1>7, <1>8, <1>9 DEF StepInv

LEMMA EnterBarrierStep == ASSUME StepInv, NEW p \in PE, EnterBarrier(p) PROVE StepInv'
<1>1. /\ TypeInv /\ Begins /\ Follows /\ Given /\ Putting /\ Carried
      /\ script \in Seq(Call)
  BY DEF StepInv, TypeInv, TypeOK
<1>2. /\ pc[p] = "run" /\ UNCHANGED <<script, at, mem, puts, source>>
      /\ pc' = [pc EXCEPT ![p] = "in"]
      /\ at[p] \in 1..Len(script) /\ script[at[p]] = "barrier"
  BY <1>1 DEF EnterBarrier, Goes, More, Cur, TypeInv, TypeOK
<1>3. at \in [PE -> Nat] /\ pc \in [PE -> {"fill", "run", "in"}] /\ Len(script) \in Nat
  BY <1>1 DEF TypeInv, TypeOK
<1>4. TypeInv' /\ InLockStep' = InLockStep
  BY <1>1, <1>2, TypeNext, LockStepStays DEF Next, Step
<1>5. Begins' /\ Carried'
  BY <1>1, <1>2, <1>3 DEF Begins, Carried, Assigned
<1>6. Follows'
  <2>1. \A q \in PE : Certain(q)' => Certain(q)
    BY <1>2, <1>3 DEF Certain, Cur, More
  <2> QED
    BY <1>1, <1>2, <1>4, <2>1 DEF Follows
<1>7. Given'
  <2>1. \A q \in PE : \A k \in 1..Len(script) :
          script[k] \in Op /\ Reached(q, k)' => Reached(q, k)
    BY <1>2, <1>3, Calls DEF Reached
  <2> QED
    BY <1>1, <1>2, <1>4, <2>1 DEF Given
<1>8. Putting'
  BY <1>1, <1>2 DEF Putting, Open, OnItsWay, Prev, Assigned
<1> QED
  BY <1>4, <1>5, <1>6, <1>7, <1>8 DEF StepInv

\* A reduction gives what it gives in lock step, for that is what it is given;
\* a barrier behind a put returns with all elements of it in the array.
LEMMA LeaveStep == ASSUME StepInv, NEW p \in PE, Leave(p) PROVE StepInv'
<1> DEFINE k == at[p]
<1>1. /\ TypeInv /\ Follows /\ Given /\ Putting
      /\ script \in Seq(Call) /\ Len(script) \in Nat /\ at \in [PE -> Nat]
      /\ mem \in [PE -> Array]
  BY DEF StepInv, TypeInv, TypeOK, Array
<1>2. /\ pc[p] = "in" /\ UNCHANGED <<script, puts, source>>
      /\ at' = [at EXCEPT ![p] = @ + 1] /\ pc' = [pc EXCEPT ![p] = "run"]
      /\ \A q \in PE : Reached(q, k)
  BY DEF Leave, Goes, GoesOn
<1>3. /\ k \in 1..Len(script) /\ Cur(p) \in Collective
      /\ Cur(p) \notin Op => mem' = mem
      /\ Cur(p) \in Op =>
           mem' = [mem EXCEPT ![p] =
                     [i \in Index |-> Reduced(Cur(p), [q \in PE |-> source[q][k][i]])]]
  BY <1>1, LeaveArray
<1>4. InLockStep[k] = AfterCall(k, InLockStep[k - 1]) /\ InLockStep[k - 1] \in [PE -> Array]
  <2>1. k - 1 \in 0..Len(script)
    BY <1>1, <1>3
  <2> QED
    BY <1>1, <1>3, <2>1, LockStep
<1>5. ASSUME Cur(p) \in Op PROVE mem'[p] = InLockStep[k][p]
  <2>1. \A q \in PE : source[q][k] = InLockStep[k - 1][q]
    BY <1>1, <1>2, <1>3, <1>5 DEF Given, Cur
  <2>2. \A i \in Index : [q \in PE |-> source[q][k][i]] = [q \in PE |-> InLockStep[k - 1][q][i]]
    BY <2>1
  <2> DEFINE given(i) == [q \in PE |-> source[q][k][i]]
             lock(i) == [q \in PE |-> InLockStep[k - 1][q][i]]
  <2>3. mem'[p] = [i \in Index |-> Reduced(Cur(p), lock(i))]
    <3>1. mem'[p] = [i \in Index |-> Reduced(Cur(p), given(i))]
      BY <1>1, <1>3, <1>5
    <3>2. \A i \in Index : given(i) = lock(i)
      BY <2>2
    <3> HIDE DEF given, lock
    <3> QED
      BY <3>1, <3>2
  <2>4. AfterCall(k, InLockStep[k - 1])[p]
          = [i \in Index |-> Reduced(script[k], [q \in PE |-> InLockStep[k - 1][q][i]])]
    BY <1>5 DEF AfterCall, Cur, Op, ArithmeticOp, BooleanOp, CompareOp
  <2> QED
    BY <1>4, <2>3, <2>4 DEF Cur
<1>6. ASSUME Cur(p) = "barrier", Certain(p)' PROVE mem'[p] = InLockStep[k][p]
  <2>1. mem'[p] = mem[p] /\ script[k] = "barrier" /\ "barrier" \notin Op
    BY <1>1, <1>3, <1>6, Calls DEF Cur
  <2>2. k < Len(script) => script[k + 1] # "put"
    <3>1. at'[p] = k + 1
      BY <1>1, <1>2
    <3>2. k < Len(script) => k + 1 <= Len(script)
      BY <1>1, <1>3
    <3> QED
      BY <1>2, <1>6, <3>1, <3>2 DEF Certain, More, Cur
  <2>3. mem[p] = InLockStep[k - 1][p]
    <3>1. CASE k > 1 => script[k - 1] # "put"
      <4>1. Certain(p)
        BY <1>2, <1>6, <2>1, <2>2, <3>1 DEF Certain
      <4> QED
        BY <1>1, <4>1 DEF Follows
    <3>2. CASE k > 1 /\ script[k - 1] = "put"
      <4> DEFINE j == k - 1
                 q == Prev(p)
      <4>1. q \in PE /\ Reached(q, k)
        BY <1>2, Neighbours
      <4>2. /\ j \in 1..Len(script) /\ j \in 0..Len(script) /\ j + 1 = k /\ j + 2 = k + 1
            /\ j - 1 \in 0..Len(script)
        BY <1>1, <1>3, <3>2
      <4>3. Open(p, j)
        <5>1. at[q] > j /\ at[p] <= j + 1
          BY <1>1, <4>1, <4>2 DEF Reached
        <5>2. ~ (j + 2 <= Len(script) /\ script[j + 2] = "put")
          BY <1>1, <1>3, <2>2, <4>2
        <5> QED
          BY <3>2, <5>1, <5>2 DEF Open
      <4>4. \A i \in Index : ~ OnItsWay(p, j, i)
        <5> SUFFICES ASSUME NEW m \in puts, m.src = q, m.call = j PROVE FALSE
          BY DEF OnItsWay
        <5>1. at[q] = j + 1 /\ pc[q] = "run"
          BY DEF PutsPlaced, IInv, TypeInv, StepInv
        <5> QED
          BY <4>1, <4>2, <5>1 DEF Reached
      <4>5. \A i \in Index : mem[p][i] = Assigned(q, i, j)
        BY <1>1, <4>2, <4>3, <4>4 DEF Putting
      <4>6. InLockStep[j][p] = [i \in Index |-> Assigned(q, i, j)]
        <5>1. InLockStep[j] = AfterCall(j, InLockStep[j - 1]) /\ "put" \notin Op
          BY <1>1, <4>2, LockStep, Calls DEF Collective
        <5>2. AfterCall(j, InLockStep[j - 1])[p] = [i \in Index |-> Assigned(q, i, j)]
          BY <3>2, <5>1 DEF AfterCall, Prev
        <5> QED
          BY <5>1, <5>2
      <4>7. mem[p] = [i \in Index |-> mem[p][i]]
        BY <1>1 DEF Array
      <4> QED
        BY <4>5, <4>6, <4>7
    <3> QED
      BY <3>1, <3>2
  <2>4. AfterCall(k, InLockStep[k - 1])[p] = [i \in Index |-> InLockStep[k - 1][p][i]]
    BY <2>1 DEF AfterCall
  <2>5. InLockStep[k - 1][p] = [i \in Index |-> InLockStep[k - 1][p][i]]
    BY <1>4 DEF Array
  <2> QED
    BY <1>4, <2>1, <2>3, <2>4, <2>5
<1>7. /\ Cur(p) # "put" /\ (Cur(p) \in Op \/ Cur(p) = "barrier")
      /\ Cur(p) \in {"barrier", "put"} => mem' = mem
      /\ \A q \in PE : q # p => mem'[q] = mem[q]
  BY <1>1, <1>3, Calls DEF Collective
<1> QED
  BY <1>2, <1>3, <1>5, <1>6, <1>7, OwnStep, Calls DEF Step

\* An element arrives where nobody looks yet.
LEMMA DeliverStep == ASSUME StepInv, NEW m \in puts, Deliver(m) PROVE StepInv'
<1>1. /\ TypeInv /\ Begins /\ Follows /\ Given /\ Putting /\ Carried
      /\ script \in Seq(Call) /\ Len(script) \in Nat /\ at \in [PE -> Nat]
      /\ mem \in [PE -> Array]
  BY DEF StepInv, TypeInv, TypeOK, Array
<1>2. /\ UNCHANGED <<script, at, pc, source>> /\ puts' = puts \ {m}
      /\ mem' = [mem EXCEPT ![m.dst][m.cell] = m.val]
  BY DEF Deliver
<1>3. /\ m.dst \in PE /\ m.src = Prev(m.dst) /\ m.src \in PE
      /\ m.call \in 1..Len(script) /\ m.cell \in Index /\ ~ Certain(m.dst)
      /\ script[m.call] = "put" /\ at[m.src] = m.call + 1 /\ pc[m.src] = "run"
      /\ m.val = Assigned(m.src, m.cell, m.call)
  BY <1>1, Uncertain DEF TypeInv, IInv, PutsPlaced, Carried
<1>4. TypeInv' /\ InLockStep' = InLockStep
  BY <1>1, <1>2, TypeNext, LockStepStays DEF Next
<1>5. Begins' /\ Carried'
  BY <1>1, <1>2 DEF Begins, Carried, Assigned
<1>6. Follows'
  <2>1. \A q \in PE : Certain(q)' => Certain(q) /\ q # m.dst
    BY <1>2, <1>3 DEF Certain, Cur, More
  <2> QED
    BY <1>1, <1>2, <1>4, <2>1 DEF Follows
<1>7. Given'
  <2>1. \A q \in PE : \A k \in 1..Len(script) : Reached(q, k)' => Reached(q, k)
    BY <1>2 DEF Reached
  <2> QED
    BY <1>1, <1>2, <1>4, <2>1 DEF Given
<1>8. Putting'
  <2> SUFFICES ASSUME NEW q \in PE, NEW k \in 1..Len(script), Open(q, k)', NEW i \in Index
               PROVE  \/ \E n \in puts' : n.src = Prev(q) /\ n.call = k /\ n.cell = i
                      \/ mem'[q][i] = Assigned(Prev(q), i, k)
    BY <1>2 DEF Putting, OnItsWay, Prev, Assigned
  <2>1. Open(q, k)
    BY <1>2 DEF Open, Prev
  <2>2. CASE q = m.dst /\ i = m.cell
    <3>1. mem'[q][i] = m.val
      BY <1>1, <1>2, <1>3, <2>2 DEF Array
    <3>2. m.call = k
      <4> DEFINE j == m.call
                 r == m.src
      <4>1. /\ j \in Nat /\ k \in Nat /\ at[r] = j + 1 /\ at[r] > k /\ at[q] <= k + 1
            /\ k + 2 <= Len(script) /\ script[k + 2] = "put" => at[r] <= k + 2
            /\ script[k] = "put" /\ script[j] = "put" /\ j <= Len(script)
        BY <1>1, <1>3, <2>1, <2>2 DEF Open
      <4>2. j > 1 /\ Reached(q, j - 1) /\ (k < Len(script) => script[k + 1] = "barrier")
        BY <1>1, <1>3, <2>1, <2>2, <4>1, Around
      <4>3. SUFFICES ASSUME j > k PROVE FALSE
        BY <4>1
      <4>4. j # k + 1
        BY <4>1, <4>2, <4>3
      <4>5. j <= k + 2
        BY <1>1, <4>1, <4>2 DEF Reached
      <4>6. j = k + 2
        BY <4>1, <4>3, <4>4, <4>5
      <4> QED
        BY <4>1, <4>6
    <3> QED
      BY <1>3, <2>2, <3>1, <3>2
  <2>3. CASE ~ (q = m.dst /\ i = m.cell)
    <3>1. mem'[q][i] = mem[q][i]
      BY <1>1, <1>2, <1>3, <2>3 DEF Array
    <3>2. CASE mem[q][i] = Assigned(Prev(q), i, k)
      BY <3>1, <3>2
    <3>3. CASE OnItsWay(q, k, i)
      <4>1. PICK n \in puts : n.src = Prev(q) /\ n.call = k /\ n.cell = i
        BY <3>3 DEF OnItsWay
      <4>2. n.dst = q
        BY <1>1, <4>1, Neighbours DEF Carried
      <4>3. n # m
        BY <2>3, <4>1, <4>2
      <4> QED
        BY <1>2, <4>1, <4>3
    <3> QED
      BY <1>1, <2>1, <3>2, <3>3 DEF Putting
  <2> QED
    BY <2>2, <2>3
<1> QED
  BY <1>4, <1>5, <1>6, <1>7, <1>8 DEF StepInv

LEMMA StepNext == StepInv /\ [Next]_vars => StepInv'
<1> SUFFICES ASSUME StepInv, [Next]_vars PROVE StepInv'
  OBVIOUS
<1>1. ASSUME NEW p \in PE, Step(p) PROVE StepInv'
  BY <1>1, FillStep, AssignStep, WriteFromStep, EnterReduceStep, EnterBarrierStep, LeaveStep
  DEF Step
<1>2. CASE UNCHANGED vars
  <2>1. TypeInv' /\ InLockStep' = InLockStep
    BY <1>2, TypeNext, LockStepStays DEF vars, StepInv
  <2>2. UNCHANGED <<script, at, pc, mem, puts, source>>
    BY <1>2 DEF vars
  <2>3. Begins' /\ Carried'
    BY <2>2 DEF StepInv, Begins, Carried, Assigned
  <2>4. Follows'
    BY <2>1, <2>2 DEF StepInv, Follows, Certain, Cur, More
  <2>5. Given'
    BY <2>1, <2>2 DEF StepInv, Given, Reached
  <2>6. Putting'
    BY <2>2 DEF StepInv, Putting, Open, OnItsWay, Prev, Assigned
  <2> QED
    BY <2>1, <2>3, <2>4, <2>5, <2>6 DEF StepInv
<1> QED
  BY <1>1, <1>2, DeliverStep DEF Next, Done

(***************************************************************************)
(* Whatever the PEs' speed and the order of delivery, each has in its      *)
(* array, call by call, what it would have if all made each call at the    *)
(* same time: the reductions are given, and give, the same                 *)
(* (macros.rs:11-126).                                                     *)
(***************************************************************************)
THEOREM SameAsInLockStep == Spec => []AsIfInLockStep
BY StepInit, StepNext, Shows, PTL DEF Spec

-----------------------------------------------------------------------------

(***************************************************************************)
(* A PE that waits in a call waits for one that can go on, or that is in   *)
(* the call before it, which all PEs have reached.                         *)
(***************************************************************************)
LEMMA SomebodyGoes == TypeInv => NeverStuck
<1> SUFFICES ASSUME TypeInv, \E p \in PE : ~ (pc[p] = "run" /\ ~ More(p)), puts = {}
             PROVE  \E p \in PE : CanGo(p)
  BY DEF NeverStuck
<1>1. /\ at \in [PE -> Nat] /\ pc \in [PE -> {"fill", "run", "in"}] /\ Len(script) \in Nat
      /\ \A q \in PE : pc[q] = "in" =>
           at[q] \in 1..Len(script) /\ script[at[q]] \in Collective
  BY DEF TypeInv, TypeOK, IInv, Places, Cur
<1>2. ASSUME NEW p \in PE, pc[p] # "in", ~ (pc[p] = "run" /\ ~ More(p)) PROVE CanGo(p)
  BY <1>1, <1>2 DEF CanGo
<1>3. ASSUME NEW p \in PE, pc[p] = "in", NEW q \in PE, ~ Reached(q, at[p])
      PROVE  CanGo(q)
  <2>1. CASE pc[q] = "in"
    <3>1. at[q] < at[p]
      BY <1>1, <1>3, <2>1 DEF Reached
    <3>2. \A r \in PE : Reached(r, at[q])
      BY <1>1, <2>1, <3>1 DEF TypeInv, IInv, Together
    <3> QED
      BY <2>1, <3>2 DEF CanGo
  <2>2. CASE pc[q] # "in"
    <3>1. at[q] <= at[p] /\ at[p] <= Len(script)
      BY <1>1, <1>3, <2>2 DEF Reached
    <3> QED
      BY <1>1, <1>2, <2>2, <3>1 DEF More
  <2> QED
    BY <2>1, <2>2
<1> QED
  BY <1>2, <1>3 DEF CanGo

(***************************************************************************)
(* However many PEs run the program, they never all wait for each other:   *)
(* until the end, one can go on or an element is on its way                *)
(* (lib.rs:366-371, macros.rs:11-126).                                     *)
(***************************************************************************)
THEOREM NoDeadlock == Spec => []NeverStuck
BY TypeInit, TypeNext, SomebodyGoes, PTL DEF Spec

-----------------------------------------------------------------------------

(***************************************************************************)
(* How a library may compute a reduction: it combines two elements at a    *)
(* time, each of them one of a PE or what some PEs' elements amount to.    *)
(***************************************************************************)
Combine(o, a, b) ==
  LET one(j) == CASE o = "and" -> Bit(a, j) = 1 /\ Bit(b, j) = 1
                  [] o = "or"  -> Bit(a, j) = 1 \/ Bit(b, j) = 1
                  [] o = "xor" -> Bit(a, j) # Bit(b, j)
  IN  CASE o = "sum"  -> (a + b) % Modulus
        [] o = "prod" -> (a * b) % Modulus
        [] o \in BooleanOp -> Number({j \in 0..Width - 1 : one(j)})
        [] o = "max"  -> IF a >= b THEN a ELSE b
        [] o = "min"  -> IF a <= b THEN a ELSE b

Part(f, s) == [p \in s |-> f[p]]

LEMMA SplitArithmetic ==
  ASSUME NEW o \in ArithmeticOp, NEW f \in [PE -> Element], NEW s \in SUBSET PE, NEW t \in SUBSET s
  PROVE  /\ ArithmeticInto(o, Part(f, s))
              = Combine(o, ArithmeticInto(o, Part(f, t)), ArithmeticInto(o, Part(f, s \ t)))
         /\ \A p \in PE : ArithmeticInto(o, Part(f, {p})) = f[p]
<1> DEFINE d == Modulus
<1>1. /\ d \in Nat \ {0} /\ f \in [PE -> Int] /\ IsFiniteSet(PE)
      /\ \A p \in PE : f[p] \in 0..d - 1
  BY Constants DEF Element
<1> HIDE DEF d
<1>2. t \in SUBSET PE /\ s \ t \in SUBSET PE /\ \A p \in PE : {p} \in SUBSET PE
  OBVIOUS
<1>3. \A p \in PE : f[p] % d = f[p]
  BY <1>1
<1>4. CASE o = "sum"
  <2>1. PICK g : Sums(g, PE, f)
    BY <1>1, SumFolds
  <2>2. \A r \in SUBSET PE : ArithmeticInto(o, Part(f, r)) = g[r] % d /\ g[r] \in Int
    <3> SUFFICES ASSUME NEW r \in SUBSET PE
                 PROVE  ArithmeticInto(o, Part(f, r)) = g[r] % d /\ g[r] \in Int
      OBVIOUS
    <3>1. SumFunction(Part(f, r)) = g[r]
      BY <1>1, <2>1, SumParts DEF Part
    <3>2. g[r] \in Int
      BY <2>1 DEF Sums
    <3> QED
      BY <1>4, <3>1, <3>2 DEF ArithmeticInto, d
  <2> DEFINE a == g[t]
             b == g[s \ t]
  <2>3. g[s] = a + b /\ a \in Int /\ b \in Int
    <3>1. g[s] = g[t] + g[s \ t]
      BY <1>1, <2>1, SumUnion
    <3> QED
      BY <1>2, <2>2, <3>1
  <2>4. \A p \in PE : g[{p}] = f[p]
    <3> SUFFICES ASSUME NEW p \in PE PROVE g[{p}] = f[p]
      OBVIOUS
    <3>1. {p} \ {p} = {}
      OBVIOUS
    <3>2. g[{p}] = f[p] + g[{p} \ {p}]
      BY <1>2, <2>1 DEF Sums
    <3>3. g[{p}] = f[p] + 0
      BY <2>1, <3>1, <3>2 DEF Sums
    <3> QED
      BY <1>1, <3>3
  <2>5. Combine(o, a % d, b % d) = ((a % d) + (b % d)) % d
    BY <1>4 DEF Combine, BooleanOp, d
  <2>6. ((a % d) + (b % d)) % d = (a + b) % d
    <3> HIDE DEF a, b
    <3>1. a % d \in Int /\ b % d \in Int
      BY <1>1, <2>3
    <3>2. ((a % d) + (b % d)) % d = (a + (b % d)) % d
      BY <1>1, <2>3, <3>1, AddModulo
    <3>3. ((b % d) + a) % d = (b + a) % d
      BY <1>1, <2>3, AddModulo
    <3>4. a + (b % d) = (b % d) + a /\ b + a = a + b
      BY <2>3, <3>1
    <3> QED
      BY <3>2, <3>3, <3>4
  <2> QED
    BY <1>2, <1>3, <2>2, <2>3, <2>4, <2>5, <2>6
<1>5. CASE o = "prod"
  <2>1. PICK g : Products(g, PE, f)
    BY <1>1, ProductFolds
  <2>2. \A r \in SUBSET PE : ArithmeticInto(o, Part(f, r)) = g[r] % d /\ g[r] \in Int
    <3> SUFFICES ASSUME NEW r \in SUBSET PE
                 PROVE  ArithmeticInto(o, Part(f, r)) = g[r] % d /\ g[r] \in Int
      OBVIOUS
    <3>1. Part(f, r) \in [r -> Int] /\ \A x \in r : Part(f, r)[x] = f[x]
      BY <1>1 DEF Part
    <3>2. Product(Part(f, r)) = g[r]
      BY <1>1, <2>1, <3>1, ProductParts
    <3>3. g[r] \in Int
      BY <2>1 DEF Products
    <3> QED
      BY <1>5, <3>2, <3>3 DEF ArithmeticInto, d
  <2> DEFINE a == g[t]
             b == g[s \ t]
  <2>3. g[s] = a * b /\ a \in Int /\ b \in Int
    <3>1. g[s] = g[t] * g[s \ t]
      BY <1>1, <2>1, ProductUnion
    <3> QED
      BY <1>2, <2>2, <3>1
  <2>4. \A p \in PE : g[{p}] = f[p]
    <3> SUFFICES ASSUME NEW p \in PE PROVE g[{p}] = f[p]
      OBVIOUS
    <3>1. {p} \ {p} = {}
      OBVIOUS
    <3>2. g[{p}] = f[p] * g[{p} \ {p}]
      BY <1>2, <2>1 DEF Products
    <3>3. g[{p}] = f[p] * 1
      BY <2>1, <3>1, <3>2 DEF Products
    <3> QED
      BY <1>1, <3>3
  <2>5. Combine(o, a % d, b % d) = ((a % d) * (b % d)) % d
    BY <1>5 DEF Combine, BooleanOp, d
  <2>6. ((a % d) * (b % d)) % d = (a * b) % d
    <3> HIDE DEF a, b
    <3>1. a % d \in Int /\ b % d \in Int
      BY <1>1, <2>3
    <3> DEFINE x == a % d
    <3>2. (x * (b % d)) % d = (x * b) % d
      <4> HIDE DEF x
      <4> QED
        BY <1>1, <2>3, <3>1, MultiplyModulo DEF x
    <3>3. (b * (a % d)) % d = (b * a) % d
      BY <1>1, <2>3, MultiplyModulo
    <3>4. (a % d) * b = b * (a % d) /\ b * a = a * b
      BY <2>3, <3>1
    <3> QED
      BY <3>2, <3>3, <3>4
  <2> QED
    BY <1>2, <1>3, <2>2, <2>3, <2>4, <2>5, <2>6
<1> QED
  BY <1>4, <1>5 DEF ArithmeticOp

\* The bit j of a boolean reduction of the PEs s.
One(o, f, s, j) ==
  CASE o = "and" -> \A p \in s : Bit(f[p], j) = 1
    [] o = "or"  -> \E p \in s : Bit(f[p], j) = 1
    [] o = "xor" -> SumFunction([p \in s |-> Bit(f[p], j)]) % 2 = 1

LEMMA BooleanBits ==
  ASSUME NEW o \in BooleanOp, NEW f \in [PE -> Element], NEW s \in SUBSET PE
  PROVE  /\ BooleanInto(o, Part(f, s)) = Number({j \in 0..Width - 1 : One(o, f, s, j)})
         /\ \A j \in 0..Width - 1 : Bit(BooleanInto(o, Part(f, s)), j) = 1 <=> One(o, f, s, j)
<1> DEFINE m == Part(f, s)
           ones(j) == {p \in DOMAIN m : Bit(m[p], j) = 1}
           result(j) == CASE o = "and" -> ones(j) = DOMAIN m
                          [] o = "or"  -> ones(j) # {}
                          [] o = "xor" -> SumFunction([p \in DOMAIN m |-> Bit(m[p], j)]) % 2 = 1
           R == {j \in 0..Width - 1 : result(j)}
           T == {j \in 0..Width - 1 : One(o, f, s, j)}
<1>1. BooleanInto(o, m) = Number(R)
  BY DEF BooleanInto
<1>2. DOMAIN m = s /\ \A p \in s : m[p] = f[p]
  BY DEF Part
<1>3. ASSUME NEW j \in 0..Width - 1 PROVE result(j) <=> One(o, f, s, j)
  <2>1. ones(j) = {p \in s : Bit(f[p], j) = 1}
    <3> HIDE DEF m
    <3> QED
      BY <1>2
  <2>2. [p \in DOMAIN m |-> Bit(m[p], j)] = [p \in s |-> Bit(f[p], j)]
    <3> HIDE DEF m
    <3> QED
      BY <1>2
  <2>3. CASE o = "and"
    <3>1. result(j) <=> ones(j) = s
      BY <1>2, <2>3
    <3>2. One(o, f, s, j) <=> \A p \in s : Bit(f[p], j) = 1
      BY <2>3 DEF One
    <3> HIDE DEF ones, result
    <3> QED
      BY <2>1, <3>1, <3>2
  <2>4. CASE o = "or"
    <3>1. result(j) <=> ones(j) # {}
      BY <2>4
    <3>2. One(o, f, s, j) <=> \E p \in s : Bit(f[p], j) = 1
      BY <2>4 DEF One
    <3> HIDE DEF ones, result
    <3> QED
      BY <2>1, <3>1, <3>2
  <2>5. CASE o = "xor"
    <3>1. result(j) <=> SumFunction([p \in DOMAIN m |-> Bit(m[p], j)]) % 2 = 1
      BY <2>5
    <3>2. One(o, f, s, j) <=> SumFunction([p \in s |-> Bit(f[p], j)]) % 2 = 1
      BY <2>5 DEF One
    <3> HIDE DEF ones, result, m
    <3> QED
      BY <2>2, <3>1, <3>2
  <2> QED
    BY <2>3, <2>4, <2>5 DEF BooleanOp
<1>4. R = T
  <2> HIDE DEF result
  <2> QED
    BY <1>3
<1>5. Width \in Nat /\ T \in SUBSET (0..Width - 1)
  BY WidthAssumption
<1> HIDE DEF R, m
<1>6. BooleanInto(o, m) = Number(T)
  BY <1>1, <1>4
<1>7. \A j \in 0..Width - 1 : Bit(Number(T), j) = IF j \in T THEN 1 ELSE 0
  <2> HIDE DEF T
  <2> QED
    BY <1>5, NumberBits
<1>8. \A j \in 0..Width - 1 : Bit(BooleanInto(o, m), j) = 1 <=> One(o, f, s, j)
  BY <1>6, <1>7
<1> QED
  BY <1>6, <1>8 DEF m

LEMMA OneOfParts ==
  ASSUME NEW o \in BooleanOp, NEW f \in [PE -> Element], NEW j \in 0..Width - 1,
         NEW s \in SUBSET PE, NEW t \in SUBSET s
  PROVE  /\ o = "and" => (One(o, f, s, j) <=> One(o, f, t, j) /\ One(o, f, s \ t, j))
         /\ o = "or" => (One(o, f, s, j) <=> One(o, f, t, j) \/ One(o, f, s \ t, j))
         /\ o = "xor" => (One(o, f, s, j) <=> ~ (One(o, f, t, j) <=> One(o, f, s \ t, j)))
         /\ \A p \in PE : One(o, f, {p}, j) <=> Bit(f[p], j) = 1
<1>1. CASE o = "and"
  BY <1>1 DEF One
<1>2. CASE o = "or"
  BY <1>2 DEF One
<1>3. CASE o = "xor"
  <2> DEFINE b == [p \in PE |-> Bit(f[p], j)]
  <2>1. b \in [PE -> Int] /\ IsFiniteSet(PE) /\ \A p \in PE : b[p] \in {0, 1}
    <3>1. j \in Nat /\ \A p \in PE : f[p] \in Int
      BY WidthAssumption, Constants DEF Element
    <3>2. \A p \in PE : Bit(f[p], j) \in {0, 1}
      BY <3>1, BitRange
    <3> QED
      BY <3>2, Constants
  <2>2. \A r \in SUBSET PE : [p \in r |-> Bit(f[p], j)] = [p \in r |-> b[p]]
    OBVIOUS
  <2>3. \A p \in PE : b[p] = Bit(f[p], j)
    OBVIOUS
  <2> HIDE DEF b
  <2>4. PICK g : Sums(g, PE, b)
    BY <2>1, SumFolds
  <2>5. ASSUME NEW r \in SUBSET PE
        PROVE  g[r] \in Int /\ (One(o, f, r, j) <=> g[r] % 2 = 1)
    <3>1. SumFunction([p \in r |-> b[p]]) = g[r]
      BY <2>1, <2>4, SumParts
    <3>2. g[r] \in Int
      BY <2>4 DEF Sums
    <3>3. One(o, f, r, j) <=> SumFunction([p \in r |-> Bit(f[p], j)]) % 2 = 1
      BY <1>3 DEF One
    <3> QED
      BY <2>2, <3>1, <3>2, <3>3
  <2>6. g[s] = g[t] + g[s \ t]
    BY <2>1, <2>4, SumUnion
  <2>7. \A x, y \in Int : (x + y) % 2 = 1 <=> ~ (x % 2 = 1 <=> y % 2 = 1)
    OBVIOUS
  <2>8. One(o, f, s, j) <=> ~ (One(o, f, t, j) <=> One(o, f, s \ t, j))
    <3>1. t \in SUBSET PE /\ s \ t \in SUBSET PE
      OBVIOUS
    <3> QED
      BY <2>5, <2>6, <2>7, <3>1
  <2>9. ASSUME NEW p \in PE PROVE One(o, f, {p}, j) <=> Bit(f[p], j) = 1
    <3>1. {p} \in SUBSET PE /\ p \in {p} /\ {p} \ {p} = {}
      OBVIOUS
    <3>2. g[{p}] = b[p] + 0
      <4>1. g[{p}] = b[p] + g[{p} \ {p}] /\ g[{}] = 0
        BY <2>4, <3>1 DEF Sums
      <4> QED
        BY <3>1, <4>1
    <3>3. b[p] \in {0, 1} /\ b[p] + 0 = b[p] /\ (b[p] % 2 = 1 <=> b[p] = 1)
      BY <2>1
    <3> QED
      BY <2>3, <2>5, <3>1, <3>2, <3>3
  <2> QED
    BY <1>3, <2>8, <2>9
<1> QED
  BY <1>1, <1>2, <1>3 DEF BooleanOp

LEMMA SplitBoolean ==
  ASSUME NEW o \in BooleanOp, NEW f \in [PE -> Element], NEW s \in SUBSET PE, NEW t \in SUBSET s
  PROVE  /\ BooleanInto(o, Part(f, s))
              = Combine(o, BooleanInto(o, Part(f, t)), BooleanInto(o, Part(f, s \ t)))
         /\ \A p \in PE : BooleanInto(o, Part(f, {p})) = f[p]
<1>1. t \in SUBSET PE /\ s \ t \in SUBSET PE
  OBVIOUS
<1> DEFINE a == BooleanInto(o, Part(f, t))
           b == BooleanInto(o, Part(f, s \ t))
           one(j) == CASE o = "and" -> Bit(a, j) = 1 /\ Bit(b, j) = 1
                       [] o = "or"  -> Bit(a, j) = 1 \/ Bit(b, j) = 1
                       [] o = "xor" -> Bit(a, j) # Bit(b, j)
<1>2. \A j \in 0..Width - 1 : /\ (Bit(a, j) = 1 <=> One(o, f, t, j))
                              /\ (Bit(b, j) = 1 <=> One(o, f, s \ t, j))
  BY <1>1, BooleanBits
<1>3. \A j \in 0..Width - 1 : Bit(a, j) \in {0, 1} /\ Bit(b, j) \in {0, 1}
  <2>1. \A S \in SUBSET (0..Width - 1) : Number(S) \in Int
    <3>1. \A S \in SUBSET (0..Width - 1) : Number(S) \in 0..Pow2[Width] - 1
      BY WidthAssumption, NumberBits
    <3>2. Pow2[Width] \in Nat
      BY WidthAssumption, PowersOfTwo
    <3> QED
      BY <3>1, <3>2
  <2>2. a \in Int /\ b \in Int
    BY <2>1 DEF BooleanInto
  <2>3. \A j \in 0..Width - 1 : j \in Nat
    BY WidthAssumption
  <2> HIDE DEF a, b
  <2> QED
    BY <2>2, <2>3, BitRange
<1>4. Combine(o, a, b) = Number({j \in 0..Width - 1 : one(j)})
  <2> HIDE DEF a, b
  <2> QED
    BY DEF Combine, BooleanOp
<1>5. BooleanInto(o, Part(f, s)) = Number({j \in 0..Width - 1 : One(o, f, s, j)})
  BY BooleanBits
<1>6. ASSUME NEW j \in 0..Width - 1 PROVE One(o, f, s, j) <=> one(j)
  <2> HIDE DEF a, b
  <2>1. CASE o = "and"
    <3>1. One(o, f, s, j) <=> One(o, f, t, j) /\ One(o, f, s \ t, j)
      BY <2>1, OneOfParts
    <3> QED
      BY <1>2, <2>1, <3>1
  <2>2. CASE o = "or"
    <3>1. One(o, f, s, j) <=> One(o, f, t, j) \/ One(o, f, s \ t, j)
      BY <2>2, OneOfParts
    <3> QED
      BY <1>2, <2>2, <3>1
  <2>3. CASE o = "xor"
    <3>1. One(o, f, s, j) <=> ~ (One(o, f, t, j) <=> One(o, f, s \ t, j))
      BY <2>3, OneOfParts
    <3>2. Bit(a, j) # Bit(b, j) <=> ~ (Bit(a, j) = 1 <=> Bit(b, j) = 1)
      BY <1>3
    <3>3. one(j) <=> Bit(a, j) # Bit(b, j)
      BY <2>3
    <3> HIDE DEF one
    <3> QED
      BY <1>2, <3>1, <3>2, <3>3
  <2> QED
    BY <2>1, <2>2, <2>3 DEF BooleanOp
<1>7. {j \in 0..Width - 1 : One(o, f, s, j)} = {j \in 0..Width - 1 : one(j)}
  <2> HIDE DEF one
  <2> QED
    BY <1>6
<1>8. ASSUME NEW p \in PE PROVE BooleanInto(o, Part(f, {p})) = f[p]
  <2>1. BooleanInto(o, Part(f, {p})) = Number({j \in 0..Width - 1 : One(o, f, {p}, j)})
    BY BooleanBits
  <2>2. {j \in 0..Width - 1 : One(o, f, {p}, j)} = {j \in 0..Width - 1 : Bit(f[p], j) = 1}
    <3>1. s \in SUBSET PE /\ t \in SUBSET s
      OBVIOUS
    <3>2. ASSUME NEW j \in 0..Width - 1 PROVE One(o, f, {p}, j) <=> Bit(f[p], j) = 1
      BY <3>1, OneOfParts
    <3> QED
      BY <3>2
  <2>3. Number({j \in 0..Width - 1 : Bit(f[p], j) = 1}) = f[p]
    BY WidthAssumption, BitsNumber DEF Element, Modulus
  <2> QED
    BY <2>1, <2>2, <2>3
<1> HIDE DEF one
<1> QED
  BY <1>4, <1>5, <1>7, <1>8

LEMMA SplitCompare ==
  ASSUME NEW o \in CompareOp, NEW f \in [PE -> Element],
         NEW s \in SUBSET PE, NEW t \in SUBSET s, t # {}, s \ t # {}
  PROVE  CompareInto(o, Part(f, s))
           = Combine(o, CompareInto(o, Part(f, t)), CompareInto(o, Part(f, s \ t)))
<1> DEFINE c(r) == CompareInto(o, Part(f, r))
<1>1. ASSUME NEW r \in SUBSET PE, r # {}
      PROVE  /\ \E p \in r : c(r) = f[p]
             /\ \A p \in r : IF o = "max" THEN c(r) >= f[p] ELSE c(r) <= f[p]
  <2>1. Part(f, r) \in [r -> Element] /\ \A p \in r : Part(f, r)[p] = f[p]
    BY DEF Part
  <2> QED
    BY <1>1, <2>1, Extremum
<1>2. t \in SUBSET PE /\ s \ t \in SUBSET PE /\ s # {}
  OBVIOUS
<1> HIDE DEF c
<1>3. \A p \in PE : f[p] \in Int
  BY Constants DEF Element
<1>4. PICK x \in s : c(s) = f[x]
  BY <1>1, <1>2
<1>5. PICK y \in t : c(t) = f[y]
  BY <1>1, <1>2
<1>6. PICK z \in s \ t : c(s \ t) = f[z]
  BY <1>1, <1>2
<1>7. x \in PE /\ y \in PE /\ z \in PE /\ y \in s /\ z \in s /\ (x \in t \/ x \in s \ t)
  OBVIOUS
<1>8. c(s) = Combine(o, c(t), c(s \ t))
  <2>1. CASE o = "max"
    <3>1. Combine(o, c(t), c(s \ t)) = IF f[y] >= f[z] THEN f[y] ELSE f[z]
      BY <1>5, <1>6, <2>1 DEF Combine, BooleanOp
    <3>2. f[x] >= f[y] /\ f[x] >= f[z] /\ (f[y] >= f[x] \/ f[z] >= f[x])
      BY <1>1, <1>2, <1>4, <1>5, <1>6, <1>7, <2>1
    <3> QED
      BY <1>3, <1>4, <1>7, <3>1, <3>2
  <2>2. CASE o = "min"
    <3>1. Combine(o, c(t), c(s \ t)) = IF f[y] <= f[z] THEN f[y] ELSE f[z]
      BY <1>5, <1>6, <2>2 DEF Combine, BooleanOp
    <3>2. f[x] <= f[y] /\ f[x] <= f[z] /\ (f[y] <= f[x] \/ f[z] <= f[x])
      BY <1>1, <1>2, <1>4, <1>5, <1>6, <1>7, <2>2
    <3> QED
      BY <1>3, <1>4, <1>7, <3>1, <3>2
  <2> QED
    BY <2>1, <2>2 DEF CompareOp
<1> QED
  BY <1>8 DEF c

LEMMA SplitReduction ==
  ASSUME NEW o \in Op, NEW f \in [PE -> Element],
         NEW s \in SUBSET PE, NEW t \in SUBSET s, t # {}, s \ t # {}
  PROVE  Reduced(o, Part(f, s)) = Combine(o, Reduced(o, Part(f, t)), Reduced(o, Part(f, s \ t)))
<1>1. CASE o \in ArithmeticOp
  <2>1. ASSUME NEW m PROVE Reduced(o, m) = ArithmeticInto(o, m)
    BY <1>1 DEF Reduced, ArithmeticOp, BooleanOp, CompareOp
  <2> QED
    BY <1>1, <2>1, SplitArithmetic
<1>2. CASE o \in BooleanOp
  <2>1. ASSUME NEW m PROVE Reduced(o, m) = BooleanInto(o, m)
    BY <1>2 DEF Reduced, ArithmeticOp, BooleanOp, CompareOp
  <2> QED
    BY <1>2, <2>1, SplitBoolean
<1>3. CASE o \in CompareOp
  <2>1. ASSUME NEW m PROVE Reduced(o, m) = CompareInto(o, m)
    BY <1>3 DEF Reduced, ArithmeticOp, BooleanOp, CompareOp
  <2> QED
    BY <1>3, <2>1, SplitCompare
<1> QED
  BY <1>1, <1>2, <1>3 DEF Op

LEMMA OnePE ==
  ASSUME NEW o \in Op, NEW f \in [PE -> Element], NEW p \in PE
  PROVE  Reduced(o, Part(f, {p})) = f[p]
<1>1. {p} \in SUBSET PE /\ {p} # {}
  OBVIOUS
<1>2. CASE o \in ArithmeticOp
  <2>1. ArithmeticInto(o, Part(f, {p})) = f[p]
    BY <1>1, <1>2, SplitArithmetic
  <2> QED
    BY <1>2, <2>1 DEF Reduced, ArithmeticOp, BooleanOp, CompareOp
<1>3. CASE o \in BooleanOp
  <2>1. BooleanInto(o, Part(f, {p})) = f[p]
    BY <1>1, <1>3, SplitBoolean
  <2> QED
    BY <1>3, <2>1 DEF Reduced, ArithmeticOp, BooleanOp, CompareOp
<1>4. CASE o \in CompareOp
  <2>1. Part(f, {p}) \in [{p} -> Element] /\ Part(f, {p})[p] = f[p]
    BY DEF Part
  <2>2. CompareInto(o, Part(f, {p})) = f[p]
    BY <1>1, <1>4, <2>1, Extremum
  <2> QED
    BY <1>4, <2>2 DEF Reduced, ArithmeticOp, BooleanOp, CompareOp
<1> QED
  BY <1>2, <1>3, <1>4 DEF Op

(***************************************************************************)
(* However a library combines the elements of the PEs, in any order and    *)
(* grouping, wrapping around each time, it comes to what the model has:    *)
(* g is what the elements of some PEs amount to, from those of two parts   *)
(* of them.  That is why a reduction can be the same on every PE, although *)
(* they do not agree on an order (macros.rs:6-128).                        *)
(***************************************************************************)
THEOREM CombinedInAnyOrder ==
  ASSUME NEW o \in Op, NEW f \in [PE -> Element], NEW g,
         \A p \in PE : g[{p}] = f[p],
         \A s \in SUBSET PE : (\E p, q \in s : p # q) =>
           \E t \in SUBSET s : t # {} /\ s \ t # {} /\ g[s] = Combine(o, g[t], g[s \ t])
  PROVE  g[PE] = Reduced(o, f)
<1> DEFINE F == {s \in SUBSET PE : \A r \in SUBSET s : r # {} => g[r] = Reduced(o, Part(f, r))}
<1>1. ASSUME NEW s \in SUBSET PE, \A x \in s : s \ {x} \in F PROVE s \in F
  <2>1. ASSUME NEW r \in SUBSET s, r # s, r # {} PROVE g[r] = Reduced(o, Part(f, r))
    <3>1. PICK x \in s : x \notin r
      BY <2>1
    <3> QED
      BY <1>1, <2>1, <3>1
  <2>2. ASSUME s # {} PROVE g[s] = Reduced(o, Part(f, s))
    <3>1. CASE \E p, q \in s : p # q
      <4>1. PICK t \in SUBSET s : t # {} /\ s \ t # {} /\ g[s] = Combine(o, g[t], g[s \ t])
        BY <3>1
      <4>2. g[t] = Reduced(o, Part(f, t))
        BY <2>1, <4>1
      <4>3. g[s \ t] = Reduced(o, Part(f, s \ t))
        BY <2>1, <4>1
      <4>4. Reduced(o, Part(f, s)) = Combine(o, Reduced(o, Part(f, t)), Reduced(o, Part(f, s \ t)))
        BY <4>1, SplitReduction
      <4> QED
        BY <4>1, <4>2, <4>3, <4>4
    <3>2. CASE ~ \E p, q \in s : p # q
      <4>1. PICK p \in s : s = {p}
        BY <2>2, <3>2
      <4> QED
        BY <4>1, OnePE
    <3> QED
      BY <3>1, <3>2
  <2> QED
    BY <2>1, <2>2
<1>2. \A s \in SUBSET PE : s \in F
  <2> HIDE DEF F
  <2> QED
    BY <1>1, Constants, SubsetsInduct
<1>3. g[PE] = Reduced(o, Part(f, PE))
  BY <1>2, Constants
<1>4. Part(f, PE) = f
  BY DEF Part
<1> QED
  BY <1>3, <1>4

=============================================================================
