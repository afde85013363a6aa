----------------------------- MODULE Collectives -----------------------------
(***************************************************************************)
(* Reductions: Shbox::reduce_sum and the other six (src/src/reduce.rs, and *)
(* src/src/macros.rs:1-130 that implement them), run by all PEs together   *)
(* with barrier_all, assignments to the array that is reduced and puts     *)
(* into it (PEReference::write_from).                                      *)
(*                                                                         *)
(* Every reduction is in place: source and target are the same array.  A   *)
(* PE that has its result goes on and may write to that array, on its own  *)
(* or on another PE, while others are still in the reduction.              *)
(*                                                                         *)
(* External: a shmem_*_reduce on the team of all PEs takes the caller's    *)
(* source, returns when it has those of all PEs, and writes the result to  *)
(* the caller's target then.  Unlike a barrier it does not complete puts.  *)
(***************************************************************************)
EXTENDS Integers, Sequences, Words

CONSTANTS
  N,        \* the number of PEs
  Size,     \* the length of the array, 1 for a single value
  Width,    \* the bits of an element
  Programs  \* the sequences of calls the PEs may run

PE == 0..N - 1
Index == 0..Size - 1
Modulus == Pow2[Width]
Element == 0..Modulus - 1

ArithmeticOp == {"sum", "prod"}
BooleanOp == {"and", "or", "xor"}
CompareOp == {"max", "min"}
Op == ArithmeticOp \cup BooleanOp \cup CompareOp

Call == Op \cup {"assign", "put", "barrier"}

(***************************************************************************)
(* A program keeps its puts apart from everything else that touches the    *)
(* array, with a barrier on either side, and only then.                    *)
(***************************************************************************)
Separated(s) ==
  \A i \in 1..Len(s) : s[i] = "put" =>
    /\ i > 1 /\ s[i - 1] = "barrier"
    /\ i < Len(s) => s[i + 1] = "barrier"

ASSUME NAssumption == N \in Nat \ {0}
ASSUME SizeAssumption == Size \in Nat \ {0}
ASSUME WidthAssumption == Width \in Nat \ {0}
ASSUME ProgramsAssumption == \A s \in Programs : s \in Seq(Call) /\ Separated(s)

VARIABLES
  script,  \* the calls that every PE makes
  at,      \* at[p]: the index in script of the call p makes now or next
  pc,      \* "fill", "run" (between two calls) or "in" (in a collective call)
  mem,     \* mem[p]: p's copy of the array
  puts,    \* the elements on their way
  source   \* source[p][k]: what p has given to its k-th call, a reduction

vars == <<script, at, pc, mem, puts, source>>

-----------------------------------------------------------------------------

\* What the closure of array_gen, an assignment and a put of p store: values
\* that differ between PEs, elements and calls.
Generated(p, i) == (p + i + 1) % Modulus
Assigned(p, i, k) == (p + i + k) % Modulus

TypeOK ==
  /\ script \in Seq(Call)
  /\ at \in [PE -> 1..Len(script) + 1]
  /\ pc \in [PE -> {"fill", "run", "in"}]
  /\ mem \in [PE -> [Index -> Element]]
  /\ puts \subseteq [src : PE, dst : PE, call : 1..Len(script), cell : Index, val : Element]
  /\ source \in [PE -> [1..Len(script) -> [Index -> Element]]]

\* shmem_calloc has returned, and the closure has not been called yet.
Init ==
  /\ script \in Programs
  /\ at = [p \in PE |-> 1]
  /\ pc = [p \in PE |-> "fill"]
  /\ mem = [p \in PE |-> [i \in Index |-> 0]]
  /\ puts = {}
  /\ source = [p \in PE |-> [k \in 1..Len(script) |-> [i \in Index |-> 0]]]

-----------------------------------------------------------------------------

\* Mutant of ArithmeticInto: the width of an element is forgotten.
ArithmeticWide(o, f) ==
  IF o = "sum" THEN SumFunction(f) ELSE Product(f)

\* The value of f, a function from PEs to elements, under each reduction.
ArithmeticInto(o, f) ==
  (IF o = "sum" THEN SumFunction(f) ELSE Product(f)) % Modulus

BooleanInto(o, f) ==
  LET ones(j) == {p \in DOMAIN f : Bit(f[p], j) = 1}
      result(j) == CASE o = "and" -> ones(j) = DOMAIN f
                     [] o = "or"  -> ones(j) # {}
                     [] o = "xor" -> SumFunction([p \in DOMAIN f |-> Bit(f[p], j)]) % 2 = 1
  IN  Number({j \in 0..Width - 1 : result(j)})

CompareInto(o, f) ==
  CHOOSE a \in {f[p] : p \in DOMAIN f} :
    \A p \in DOMAIN f : IF o = "max" THEN a >= f[p] ELSE a <= f[p]

Reduced(o, f) ==
  CASE o \in ArithmeticOp -> ArithmeticInto(o, f)
    [] o \in BooleanOp -> BooleanInto(o, f)
    [] o \in CompareOp -> CompareInto(o, f)

\* Mutant of Covered: an array is reduced like a single value.
CoveredFirst(m) == {i \in DOMAIN m : i = 0}

\* The elements a reduction covers: one for a Shbox<T>, len() for a Shbox<[T]>.
Covered(m) == DOMAIN m

-----------------------------------------------------------------------------

Cur(p) == script[at[p]]
More(p) == at[p] <= Len(script)
Goes(p, stage) == pc' = [pc EXCEPT ![p] = stage]
GoesOn(p) == at' = [at EXCEPT ![p] = @ + 1]

\* The rest of array_gen, behind the barrier of shmem_calloc.
Fill(p) ==
  /\ pc[p] = "fill"
  /\ mem' = [mem EXCEPT ![p] = [i \in Index |-> Generated(p, i)]]
  /\ Goes(p, "run")
  /\ UNCHANGED <<script, at, puts, source>>

\* DerefMut of the Shbox: p stores to its own copy.
Assign(p) ==
  /\ pc[p] = "run" /\ More(p) /\ Cur(p) = "assign"
  /\ mem' = [mem EXCEPT ![p] = [i \in Index |-> Assigned(p, i, at[p])]]
  /\ GoesOn(p)
  /\ UNCHANGED <<script, pc, puts, source>>

\* PEReference::write_from, to the next PE.
WriteFrom(p) ==
  /\ pc[p] = "run" /\ More(p) /\ Cur(p) = "put"
  /\ puts' = puts \cup {[src |-> p, dst |-> (p + 1) % N, call |-> at[p], cell |-> i,
                         val |-> Assigned(p, i, at[p])] : i \in Index}
  /\ GoesOn(p)
  /\ UNCHANGED <<script, pc, mem, source>>

\* An element arrives, in any order.
Deliver(m) ==
  /\ m \in puts
  /\ mem' = [mem EXCEPT ![m.dst][m.cell] = m.val]
  /\ puts' = puts \ {m}
  /\ UNCHANGED <<script, at, pc, source>>

\* Shbox::reduce_*: the array is passed as source and as target.
EnterReduce(p) ==
  /\ pc[p] = "run" /\ More(p) /\ Cur(p) \in Op
  /\ source' = [source EXCEPT ![p][at[p]] = mem[p]]
  /\ Goes(p, "in")
  /\ UNCHANGED <<script, at, mem, puts>>

\* Mutant of EnterBarrier: the barrier does not complete p's puts.
EnterUndrained(p) ==
  /\ pc[p] = "run" /\ More(p) /\ Cur(p) = "barrier"
  /\ Goes(p, "in")
  /\ UNCHANGED <<script, at, mem, puts, source>>

\* barrier_all, once p's puts are complete.
EnterBarrier(p) ==
  /\ pc[p] = "run" /\ More(p) /\ Cur(p) = "barrier"
  /\ \A m \in puts : m.src # p
  /\ Goes(p, "in")
  /\ UNCHANGED <<script, at, mem, puts, source>>

\* Mutant of Reached: a PE that has left the call is not counted.
ReachedNow(q, k) == at[q] = k /\ pc[q] = "in"

\* q has come as far as its k-th call.
Reached(q, k) == at[q] > k \/ (at[q] = k /\ pc[q] = "in")

\* Mutant of Leave: one that waits for all PEs to have left.
LeaveLast(p) ==
  /\ pc[p] = "in"
  /\ \A q \in PE \ {p} : at[q] > at[p]
  /\ mem' = IF Cur(p) \in Op
            THEN [mem EXCEPT ![p] = [i \in Index |->
                    IF i \in Covered(mem[p])
                    THEN Reduced(Cur(p), [q \in PE |-> source[q][at[p]][i]]) ELSE @[i]]]
            ELSE mem
  /\ Goes(p, "run") /\ GoesOn(p)
  /\ UNCHANGED <<script, puts, source>>

\* A collective call returns when all PEs have reached it, a reduction with
\* the result in p's array.
Leave(p) ==
  /\ pc[p] = "in"
  /\ \A q \in PE : Reached(q, at[p])
  /\ mem' = IF Cur(p) \in Op
            THEN [mem EXCEPT ![p] = [i \in Index |->
                    IF i \in Covered(mem[p])
                    THEN Reduced(Cur(p), [q \in PE |-> source[q][at[p]][i]]) ELSE @[i]]]
            ELSE mem
  /\ Goes(p, "run") /\ GoesOn(p)
  /\ UNCHANGED <<script, puts, source>>

-----------------------------------------------------------------------------

Step(p) ==
  \/ Fill(p)
  \/ Assign(p)
  \/ WriteFrom(p)
  \/ EnterReduce(p)
  \/ EnterBarrier(p)
  \/ Leave(p)

\* Not a step of the program: all PEs have made all calls.
Done == (\A p \in PE : pc[p] = "run" /\ ~ More(p)) /\ puts = {} /\ UNCHANGED vars

Next ==
  \/ \E p \in PE : Step(p)
  \/ \E m \in puts : Deliver(m)
  \/ Done

Spec == Init /\ [][Next]_vars

\* A PE that can take its next step takes it, and the network delivers.
Fairness == (\A p \in PE : WF_vars(Step(p))) /\ WF_vars(\E m \in puts : Deliver(m))

FairSpec == Spec /\ Fairness

-----------------------------------------------------------------------------

(***************************************************************************)
(* The program in lock step: InLockStep[k] has the arrays of all PEs when  *)
(* each call of the program is made, as far as the k-th, by all PEs at     *)
(* once.                                                                   *)
(***************************************************************************)
AfterCall(k, arrays) ==
  [p \in PE |-> [i \in Index |->
     CASE script[k] \in Op -> Reduced(script[k], [q \in PE |-> arrays[q][i]])
       [] script[k] = "assign" -> Assigned(p, i, k)
       [] script[k] = "put" -> Assigned((p + N - 1) % N, i, k)
       [] script[k] = "barrier" -> arrays[p][i]]]

InLockStep ==
  LET after[k \in 0..Len(script)] ==
        IF k = 0 THEN [p \in PE |-> [i \in Index |-> Generated(p, i)]]
        ELSE AfterCall(k, after[k - 1])
  IN  after

(***************************************************************************)
(* Reductions in place, back to back, mixed with assignments and, behind   *)
(* barriers, with puts, give what the program gives in lock step, however  *)
(* far the PEs are apart (src/src/macros.rs:11-126): in particular, all    *)
(* PEs see the same result of each reduction.  Between two calls, unless   *)
(* a put has just been made or is next, p's array is exactly that.         *)
(***************************************************************************)
AsIfInLockStep ==
  \A p \in {q \in PE : pc[q] = "run"} :
    (at[p] > 1 => script[at[p] - 1] # "put") /\ (More(p) => Cur(p) # "put")
      => mem[p] = InLockStep[at[p] - 1][p]

(***************************************************************************)
(* A put never meets a reduction: while an element is on its way, no PE is *)
(* inside a reduction, the source or target of which it could change       *)
(* (src/src/lib.rs:536-561).                                               *)
(***************************************************************************)
NoPutMeetsReduction ==
  puts # {} => \A p \in PE : pc[p] = "in" => Cur(p) = "barrier"

\* p's next step is there to take: nothing it waits for is missing.
CanGo(p) ==
  \/ pc[p] = "fill"
  \/ pc[p] = "run" /\ More(p) /\ (Cur(p) = "barrier" => \A m \in puts : m.src # p)
  \/ pc[p] = "in" /\ \A q \in PE : Reached(q, at[p])

(***************************************************************************)
(* The PEs never all wait for each other, at a barrier or in a reduction   *)
(* one of which another PE has left behind: until all have made all calls, *)
(* an element is on its way or some PE can go on (src/src/lib.rs:366-371,  *)
(* src/src/macros.rs:11-126).                                              *)
(***************************************************************************)
NeverStuck ==
  \/ \A p \in PE : pc[p] = "run" /\ ~ More(p)
  \/ puts # {}
  \/ \E p \in PE : CanGo(p)

(***************************************************************************)
(* Every program ends: no reduction waits for a PE that has left it.       *)
(***************************************************************************)
Termination == <>(\A p \in PE : pc[p] = "run" /\ ~ More(p))

=============================================================================
