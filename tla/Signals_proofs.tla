---------------------------- MODULE Signals_proofs ----------------------------
(***************************************************************************)
(* Proofs about Signals, for every number of senders, rounds and atomics,  *)
(* every width, every slice and every set of waits: what a wait tells the  *)
(* home, that a claim is exclusive, that the word stays in its type, that  *)
(* increments are counted once, that bits are kept apart, and that flags   *)
(* do not overtake each other.  Each has an invariant of its own.          *)
(***************************************************************************)
EXTENDS Signals, Words_proofs

\* The part of TypeOK that the arguments need: all but what the word holds.
Types ==
  /\ updates \subseteq [src : Sender, n : Nat, round : 0..Rounds,
                        op : {"set", "add", "and", "or", "xor"}, arg : Int]
  /\ puts \subseteq [src : Sender, at : Element, val : 0..Rounds]
  /\ flag \in [Sender -> [Element -> 0..Rounds]]
  /\ mark \in [Sender -> 0..Rounds]
  /\ round \in [Sender -> 0..Rounds]
  /\ ops \in [Sender -> Nat]
  /\ open \in [Sender -> BOOLEAN]
  /\ held \subseteq Sender
  /\ wait.of \in Sender

\* What s has on its way, s knows of: it has been quiet otherwise.
Known == \A s \in Sender : ~ open[s] => \A m \in updates \cup puts : m.src # s

\* No flag, on its way or arrived, is ahead of its sender's round.
Behind ==
  /\ \A s \in Sender : mark[s] <= round[s] /\ \A i \in Element : flag[s][i] <= round[s]
  /\ \A f \in puts : f.val <= round[f.src]

\* An update on its way is of the current round of its sender: quiet ends a round.
Current == \A m \in updates : m.round = round[m.src]

\* What the last wait has told.
Told ==
  \A i \in DOMAIN woken :
    /\ woken[i] \in Nat /\ woken[i] <= round[wait.of]
    /\ Holds(woken[i], wait.op, wait.x)

IInv == Types /\ Known /\ Behind /\ Current /\ Told

-----------------------------------------------------------------------------

LEMMA Constants ==
  /\ K \in Nat \ {0} /\ Modulus \in Nat \ {0} /\ Rounds \in Nat
  /\ \A s \in Sender : s \in Nat /\ s + 1 # 0 /\ Pow2[s] \in Nat
BY KAssumption, WidthAssumption, RoundsAssumption, PowersOfTwo DEF Sender, Modulus

\* The flags of a round are elements of the array.
LEMMA SlicesFit ==
  ASSUME NEW s \in Sender, NEW r \in 1..Rounds
  PROVE  /\ Slice[r] \in 0..Size
         /\ \A f \in Put(s, Slice[r], r) :
              /\ f \in [src : Sender, at : Element, val : 0..Rounds]
              /\ f.src = s /\ f.val = r /\ f.at < Slice[r]
         /\ \A i \in Element : i < Slice[r] =>
              [src |-> s, at |-> i, val |-> r] \in Put(s, Slice[r], r)
<1>1. Slice[r] \in 0..Size
  BY SliceAssumption
<1>2. \A i \in 0..Slice[r] - 1 : i \in Element /\ i < Slice[r]
  BY <1>1, SizeAssumption DEF Element
<1>3. \A i \in Element : i < Slice[r] => i \in 0..Slice[r] - 1
  BY <1>1, SizeAssumption DEF Element
<1> QED
  BY <1>1, <1>2, <1>3 DEF Put

LEMMA InvInit == Init => IInv
<1> SUFFICES ASSUME Init PROVE IInv
  OBVIOUS
<1>1. wait.of \in Sender
  BY WaitsAssumption DEF Init
<1> QED
  BY <1>1, Constants DEF Init, IInv, Types, Known, Behind, Current, Told

(***************************************************************************)
(* An atomic keeps the invariant: what it adds is of the current round.    *)
(***************************************************************************)
LEMMA PostInv ==
  ASSUME IInv, NEW s \in Sender, NEW o \in {"set", "add", "and", "or", "xor"}, NEW a \in Int,
         Post(s, o, a), Elsewhere, held' \subseteq Sender
  PROVE  IInv'
<1> DEFINE u == [src |-> s, n |-> ops[s], round |-> round[s], op |-> o, arg |-> a]
<1>1. updates' = updates \cup {u} /\ open' = [open EXCEPT ![s] = TRUE]
      /\ ops' = [ops EXCEPT ![s] = @ + 1]
  BY DEF Post
<1>2. UNCHANGED <<flag, mark, puts, round, wait, woken>>
  BY DEF Elsewhere, home
<1>3. u.src = s /\ u.round = round[s] /\ round[s] \in 0..Rounds
  BY DEF IInv, Types
<1>4. Types'
  <2>1. u \in [src : Sender, n : Nat, round : 0..Rounds,
               op : {"set", "add", "and", "or", "xor"}, arg : Int]
    BY DEF IInv, Types
  <2> QED
    BY <1>1, <1>2, <2>1 DEF IInv, Types
<1>5. Known'
  BY <1>1, <1>2, <1>3 DEF IInv, Types, Known
<1>6. Behind' /\ Current'
  BY <1>1, <1>2, <1>3 DEF IInv, Behind, Current
<1>7. Told'
  BY <1>2 DEF IInv, Told, Holds
<1> QED
  BY <1>4, <1>5, <1>6, <1>7 DEF IInv

LEMMA FetchInv ==
  ASSUME IInv, NEW s \in Sender, NEW o, NEW a,
         Fetch(s, o, a), Elsewhere, held' \subseteq Sender
  PROVE  IInv'
<1>1. UNCHANGED <<updates, open, flag, mark, puts, round, wait, woken>>
      /\ ops' = [ops EXCEPT ![s] = @ + 1]
  BY DEF Fetch, Elsewhere, home
<1>2. Types'
  BY <1>1 DEF IInv, Types
<1>3. Known' /\ Behind' /\ Current'
  BY <1>1 DEF IInv, Known, Behind, Current
<1>4. Told'
  BY <1>1 DEF IInv, Told, Holds
<1> QED
  BY <1>2, <1>3, <1>4 DEF IInv

LEMMA QuietInv == ASSUME IInv, NEW s \in Sender, Quiet(s) PROVE IInv'
<1>1. UNCHANGED <<updates, flag, mark, puts, round, ops, held, wait, woken>>
      /\ open' = [open EXCEPT ![s] = FALSE]
  BY DEF Quiet, home
<1>2. Known'
  BY <1>1 DEF Quiet, IInv, Types, Known
<1> QED
  BY <1>1, <1>2 DEF IInv, Types, Behind, Current, Told, Holds

(***************************************************************************)
(* A flag is put when nothing of its sender is on its way.                 *)
(***************************************************************************)
LEMMA RaiseInv == ASSUME IInv, NEW s \in Sender, Raise(s) PROVE IInv'
<1> DEFINE F == Put(s, Slice[round[s] + 1], round[s] + 1)
<1>1. /\ UNCHANGED <<updates, flag, mark, ops, held, wait, woken>>
      /\ round' = [round EXCEPT ![s] = @ + 1]
      /\ open' = [open EXCEPT ![s] = TRUE]
      /\ puts' = puts \cup F
      /\ round[s] < Rounds
      /\ \A m \in updates \cup puts : m.src # s
  BY DEF Raise, home, IInv, Types, Known
<1>2. round[s] + 1 \in 1..Rounds /\ round' \in [Sender -> 0..Rounds] /\ round'[s] = round[s] + 1
  BY <1>1, Constants DEF IInv, Types
<1>3. \A f \in F : /\ f \in [src : Sender, at : Element, val : 0..Rounds]
                   /\ f.src = s /\ f.val = round'[s]
  BY <1>2, SlicesFit
<1> HIDE DEF F
<1>4. Types'
  BY <1>1, <1>2, <1>3 DEF IInv, Types
<1>5. Known'
  BY <1>1, <1>3 DEF IInv, Types, Known
<1>6. \A t \in Sender : round[t] \in Nat /\ round'[t] \in Nat /\ round[t] <= round'[t]
  BY <1>1, Constants DEF IInv, Types
<1>7. Behind'
  <2>1. \A t \in Sender : mark[t] <= round'[t] /\ \A i \in Element : flag[t][i] <= round'[t]
    BY <1>6, Constants DEF IInv, Types, Behind
  <2>2. \A f \in puts \cup F : f.val <= round'[f.src]
    BY <1>2, <1>3, <1>6, Constants DEF IInv, Types, Behind
  <2> QED
    BY <1>1, <2>1, <2>2 DEF Behind
<1>8. Current'
  BY <1>1 DEF IInv, Types, Current
<1>9. Told'
  <2>1. wait.of \in Sender /\ \A i \in DOMAIN woken : woken[i] \in Nat
    BY DEF IInv, Types, Told
  <2>2. \A i \in DOMAIN woken : woken[i] <= round'[wait.of]
    BY <1>6, <2>1 DEF IInv, Told
  <2> QED
    BY <1>1, <2>1, <2>2 DEF IInv, Told, Holds
<1> QED
  BY <1>4, <1>5, <1>7, <1>8, <1>9 DEF IInv

\* The round that is marked is the last of which the flags were put.
LEMMA MarkInv == ASSUME IInv, NEW s \in Sender, Mark(s) PROVE IInv'
<1>1. /\ UNCHANGED <<updates, flag, puts, round, ops, open, held, wait, woken>>
      /\ mark' = [mark EXCEPT ![s] = round[s]]
  BY DEF Mark, home, work
<1>2. Types' /\ Behind'
  BY <1>1, Constants DEF IInv, Types, Behind
<1> QED
  BY <1>1, <1>2 DEF IInv, Known, Current, Told, Holds

LEMMA DeliverUpdateInv == ASSUME IInv, NEW m \in updates, DeliverUpdate(m) PROVE IInv'
<1>1. UNCHANGED <<flag, mark, puts, round, ops, open, held, wait, woken>> /\ updates' = updates \ {m}
  BY DEF DeliverUpdate, home
<1> QED
  BY <1>1 DEF IInv, Types, Known, Behind, Current, Told, Holds

LEMMA DeliverFlagInv == ASSUME IInv, NEW f \in puts, DeliverFlag(f) PROVE IInv'
<1>1. /\ UNCHANGED <<updates, mark, round, ops, open, held, wait, woken>>
      /\ puts' = puts \ {f} /\ flag' = [flag EXCEPT ![f.src][f.at] = f.val]
  BY DEF DeliverFlag, home, work
<1>2. f.src \in Sender /\ f.at \in Element /\ f.val \in 0..Rounds
  BY DEF IInv, Types
<1>3. Types'
  BY <1>1, <1>2 DEF IInv, Types
<1>4. Behind'
  <2>1. \A t \in Sender, i \in Element :
          flag'[t][i] = IF t = f.src /\ i = f.at THEN f.val ELSE flag[t][i]
    BY <1>1, <1>2 DEF IInv, Types
  <2> QED
    BY <1>1, <1>2, <2>1 DEF IInv, Behind
<1> QED
  BY <1>1, <1>3, <1>4 DEF IInv, Known, Current, Told, Holds

LEMMA EnterWaitInv == ASSUME IInv, NEW w \in Waits, EnterWait(w) PROVE IInv'
<1>1. /\ UNCHANGED <<updates, flag, mark, puts, round, ops, open, held>>
      /\ wait' = w /\ woken' = <<>>
  BY DEF EnterWait, work
<1>2. DOMAIN woken' = {} /\ w.of \in Sender
  BY <1>1, WaitsAssumption
<1> QED
  BY <1>1, <1>2 DEF IInv, Types, Known, Behind, Current, Told

(***************************************************************************)
(* The home is told of flags that are there.                               *)
(***************************************************************************)
LEMMA WakeInv ==
  ASSUME IInv, NEW v, NEW f, Wake(v, f),
         \A i \in DOMAIN f : /\ f[i] \in Nat /\ f[i] <= round[wait.of]
                            /\ Holds(f[i], wait.op, wait.x)
  PROVE  IInv'
<1>1. UNCHANGED <<updates, flag, mark, puts, round, ops, open, held, wait>> /\ woken' = f
  BY DEF Wake, work
<1>2. Told'
  BY <1>1 DEF Told, Holds
<1> QED
  BY <1>1, <1>2 DEF IInv, Types, Known, Behind, Current

LEMMA WakeOnArray ==
  ASSUME IInv, NEW v, NEW S \in SUBSET Ready(wait), Wake(v, Restrict(flag[wait.of], S))
  PROVE  IInv'
<1> DEFINE f == Restrict(flag[wait.of], S)
<1>1. DOMAIN f = S /\ \A i \in S : f[i] = flag[wait.of][i]
  BY DEF Restrict
<1>2. \A i \in S : i \in Element /\ Holds(flag[wait.of][i], wait.op, wait.x)
  BY DEF Ready
<1>3. \A i \in S : flag[wait.of][i] \in Nat /\ flag[wait.of][i] <= round[wait.of]
  BY <1>2, Constants DEF IInv, Types, Behind
<1> HIDE DEF f
<1>4. \A i \in DOMAIN f : /\ f[i] \in Nat /\ f[i] <= round[wait.of]
                         /\ Holds(f[i], wait.op, wait.x)
  BY <1>1, <1>2, <1>3 DEF Holds
<1>5. Wake(v, f)
  BY DEF f
<1> QED
  BY <1>4, <1>5, WakeInv

LEMMA StepInv == ASSUME IInv, NEW s \in Sender, Step(s) PROVE IInv'
<1>1. CASE AtomicFetchAdd(s, 1)
  BY <1>1, FetchInv DEF AtomicFetchAdd, IInv, Types
<1>2. CASE \E plus \in {1, 2} : AtomicAdd(s, plus)
  <2>1. PICK plus \in {1, 2} : AtomicAdd(s, plus)
    BY <1>2
  <2> QED
    BY <2>1, PostInv DEF AtomicAdd, IInv, Types
<1>3. CASE AtomicCompareSwap(s)
  BY <1>3, FetchInv DEF AtomicCompareSwap, IInv, Types
<1>4. CASE AtomicSet(s)
  BY <1>4, FetchInv, PostInv DEF AtomicSet, IInv, Types
<1>5. CASE \E o \in {"and", "or", "xor"} : AtomicBit(s, o)
  <2>1. PICK o \in {"and", "or", "xor"} : AtomicBit(s, o)
    BY <1>5
  <2>2. CASE Post(s, o, Mask(s, o))
    <3>1. Mask(s, o) \in Int
      BY Constants DEF Mask, Sender
    <3> QED
      BY <2>1, <2>2, <3>1, PostInv DEF AtomicBit, IInv, Types
  <2>3. CASE Fetch(s, o, Mask(s, o))
    BY <2>1, <2>3, FetchInv DEF AtomicBit, IInv, Types
  <2> QED
    BY <2>1, <2>2, <2>3 DEF AtomicBit
<1>6. CASE Quiet(s)
  BY <1>6, QuietInv
<1>7. CASE Raise(s)
  BY <1>7, RaiseInv
<1>8. CASE Mark(s)
  BY <1>8, MarkInv
<1> QED
  BY <1>1, <1>2, <1>3, <1>4, <1>5, <1>6, <1>7, <1>8 DEF Step

LEMMA WokenInv == ASSUME IInv, Woken PROVE IInv'
<1>1. CASE WaitUntil
  <2>1. mark[wait.of] \in Nat /\ mark[wait.of] <= round[wait.of]
    BY Constants DEF IInv, Types, Behind
  <2> DEFINE f == [i \in {0} |-> mark[wait.of]]
  <2>2. DOMAIN f = {0} /\ f[0] = mark[wait.of]
    OBVIOUS
  <2>3. Wake("until", f) /\ Holds(mark[wait.of], wait.op, wait.x)
    BY <1>1 DEF WaitUntil
  <2> HIDE DEF f
  <2>4. \A i \in DOMAIN f : /\ f[i] \in Nat /\ f[i] <= round[wait.of]
                           /\ Holds(f[i], wait.op, wait.x)
    BY <2>1, <2>2, <2>3
  <2> QED
    BY <2>3, <2>4, WakeInv
<1>2. CASE WaitUntilAll
  <2>1. flag[wait.of] = Restrict(flag[wait.of], Element)
    BY DEF IInv, Types, Restrict
  <2> QED
    BY <1>2, <2>1, WakeOnArray DEF WaitUntilAll
<1>3. CASE WaitUntilSome
  BY <1>3, WakeOnArray DEF WaitUntilSome
<1>4. CASE WaitUntilAny
  BY <1>4, WakeOnArray DEF WaitUntilAny
<1> QED
  BY <1>1, <1>2, <1>3, <1>4 DEF Woken

LEMMA InvNext == IInv /\ [Next]_vars => IInv'
<1> SUFFICES ASSUME IInv, [Next]_vars PROVE IInv'
  OBVIOUS
<1>1. CASE \E s \in Sender : Step(s)
  BY <1>1, StepInv
<1>2. CASE Deliver
  BY <1>2, DeliverUpdateInv, DeliverFlagInv DEF Deliver
<1>3. CASE \E w \in Waits : EnterWait(w)
  BY <1>3, EnterWaitInv
<1>4. CASE Woken
  BY <1>4, WokenInv
<1>5. CASE UNCHANGED vars
  BY <1>5 DEF vars, work, home, IInv, Types, Known, Behind, Current, Told, Holds
<1> QED
  BY <1>1, <1>2, <1>3, <1>4, <1>5 DEF Next

(***************************************************************************)
(* A flag that a wait has reported is read with a value that meets the     *)
(* condition, and no update from before that flag is still on its way:     *)
(* for slices of every length, whichever of their elements have arrived,   *)
(* and for a single value that is ahead of them (wait.rs:32-47,            *)
(* lib.rs:232-240, 404-413, 541-561).                                      *)
(***************************************************************************)
THEOREM WaitsAreSound == Spec => []WokenMeansUpdates
<1>1. IInv => WokenMeansUpdates
  <2> SUFFICES ASSUME IInv, NEW i \in DOMAIN woken
               PROVE  /\ Holds(woken[i], wait.op, wait.x)
                      /\ \A m \in updates : m.src = wait.of => m.round >= woken[i]
    BY DEF WokenMeansUpdates
  <2>1. round[wait.of] \in Nat
    BY Constants DEF IInv, Types
  <2>2. \A m \in updates : m.src = wait.of => m.round = round[wait.of]
    BY DEF IInv, Current
  <2>3. woken[i] \in Nat /\ woken[i] <= round[wait.of] /\ Holds(woken[i], wait.op, wait.x)
    BY DEF IInv, Told
  <2> QED
    BY <2>1, <2>2, <2>3
<1> QED
  BY <1>1, InvInit, InvNext, PTL DEF Spec

-----------------------------------------------------------------------------

(***************************************************************************)
(* A claim: the sender that has the word, or whose release is on its way,  *)
(* is the one in the word.                                                 *)
(***************************************************************************)
Owners == held \cup {m.src : m \in updates}

Claimed ==
  kind = "claim" =>
    /\ \A s, t \in Owners : s = t
    /\ \A s \in Owners : word = s + 1
    /\ \A m \in updates : m.op = "set" /\ m.arg = 0 /\ m.src \notin held
    /\ \A m, k \in updates : m = k

CInv == Types /\ Claimed /\ kind \in Kind /\ (kind # "claim" => held = {})

LEMMA ClaimInit == Init => CInv
BY InvInit DEF Init, CInv, Claimed, Owners, IInv

\* The word that is taken is 0, so that nobody has it.
LEMMA CompareSwapClaim ==
  ASSUME CInv, NEW s \in Sender, AtomicCompareSwap(s)
  PROVE  Claimed' /\ kind' = "claim"
<1>1. /\ kind = "claim" /\ kind' = kind /\ updates' = updates
      /\ \A t \in Owners : t \in Sender
  BY DEF AtomicCompareSwap, CanIssue, Fetch, Elsewhere, CInv, Types, Owners
<1>2. CASE word = 0
  <2>1. word' = s + 1 /\ held' = held \cup {s}
    BY <1>2 DEF AtomicCompareSwap, Fetch, Applied
  <2>2. Owners = {}
    BY <1>1, <1>2, Constants DEF CInv, Claimed
  <2>3. held = {} /\ updates = {}
    BY <2>2 DEF Owners
  <2> QED
    BY <1>1, <2>1, <2>3 DEF Claimed, Owners
<1>3. CASE word # 0
  <2>1. word' = word /\ held' = held
    BY <1>3 DEF AtomicCompareSwap, Fetch, Applied
  <2> QED
    BY <1>1, <2>1 DEF CInv, Claimed, Owners
<1> QED
  BY <1>1, <1>2, <1>3

\* The word is given back, at once or by an update of which there is no other.
LEMMA SetClaim ==
  ASSUME CInv, NEW s \in Sender, AtomicSet(s)
  PROVE  Claimed' /\ kind' = "claim"
<1>1. /\ kind = "claim" /\ kind' = kind /\ s \in held /\ held' = held \ {s}
      /\ Post(s, "set", 0) \/ Fetch(s, "set", 0)
  BY DEF AtomicSet, CanIssue, Elsewhere
<1>2. held = {s} /\ updates = {} /\ word = s + 1
  BY <1>1 DEF CInv, Claimed, Owners
<1>3. CASE Post(s, "set", 0)
  <2>1. PICK u : u.src = s /\ u.op = "set" /\ u.arg = 0 /\ updates' = {u} /\ word' = word
    BY <1>2, <1>3 DEF Post
  <2> QED
    BY <1>1, <1>2, <2>1 DEF Claimed, Owners
<1>4. CASE Fetch(s, "set", 0)
  BY <1>1, <1>2, <1>4 DEF Fetch, Claimed, Owners
<1> QED
  BY <1>1, <1>3, <1>4

LEMMA DeliverClaim ==
  ASSUME CInv, NEW m \in updates, DeliverUpdate(m)
  PROVE  Claimed'
<1> SUFFICES ASSUME kind = "claim" PROVE Claimed'
  BY DEF DeliverUpdate, Claimed
<1>1. updates' = {} /\ held' = held /\ kind' = kind
  BY DEF DeliverUpdate, CInv, Claimed
<1>2. held = {}
  BY DEF CInv, Claimed, Owners
<1> QED
  BY <1>1, <1>2 DEF Claimed, Owners

\* Types is kept by every step: the steps of IInv do not need the rest of it here.
LEMMA ClaimNext == IInv /\ CInv /\ [Next]_vars => CInv'
<1> SUFFICES ASSUME IInv, CInv, [Next]_vars PROVE CInv'
  OBVIOUS
<1>1. Types'
  BY InvNext DEF IInv
<1>2. ASSUME NEW s \in Sender, Step(s) PROVE CInv'
  <2>1. CASE AtomicCompareSwap(s)
    BY <1>1, <2>1, CompareSwapClaim DEF CInv, Kind
  <2>2. CASE AtomicSet(s)
    BY <1>1, <2>2, SetClaim DEF CInv, Kind
  <2>3. CASE \/ AtomicFetchAdd(s, 1) \/ \E plus \in {1, 2} : AtomicAdd(s, plus)
             \/ \E o \in {"and", "or", "xor"} : AtomicBit(s, o)
    <3>1. kind # "claim" /\ kind' = kind /\ held' = held
      BY <2>3 DEF AtomicFetchAdd, AtomicAdd, AtomicBit, CanIssue, Elsewhere
    <3> QED
      BY <1>1, <3>1 DEF CInv, Claimed
  <2>4. CASE Quiet(s) \/ Raise(s) \/ Mark(s)
    BY <1>1, <2>4 DEF Quiet, Raise, Mark, work, CInv, Claimed, Owners
  <2> QED
    BY <1>2, <2>1, <2>2, <2>3, <2>4 DEF Step
<1>3. CASE \E m \in updates : DeliverUpdate(m)
  BY <1>1, <1>3, DeliverClaim DEF DeliverUpdate, CInv
<1>4. CASE UNCHANGED <<kind, work>>
  BY <1>1, <1>4 DEF work, CInv, Claimed, Owners
<1>5. CASE (\E f \in puts : DeliverFlag(f)) \/ (\E w \in Waits : EnterWait(w)) \/ Woken
  <2>1. UNCHANGED <<kind, work>>
    BY <1>5 DEF DeliverFlag, EnterWait, Woken, WaitUntil, WaitUntilAll, WaitUntilSome,
                WaitUntilAny, Wake
  <2> QED
    BY <1>4, <2>1
<1> QED
  BY <1>2, <1>3, <1>4, <1>5 DEF Next, Deliver, vars

(***************************************************************************)
(* compare_swap is a lock, for any number of senders: it is never held     *)
(* twice, whether its release is an atomic_swap or an atomic_set that      *)
(* arrives late (macros.rs:188-197, 211-216).                              *)
(***************************************************************************)
THEOREM ClaimsAreExclusive == Spec => []OneClaim
<1>1. Init => IInv /\ CInv
  BY InvInit, ClaimInit
<1>2. IInv /\ CInv /\ [Next]_vars => (IInv /\ CInv)'
  BY InvNext, ClaimNext
<1>3. CInv => OneClaim
  BY DEF CInv, Claimed, Owners, OneClaim
<1> QED
  BY <1>1, <1>2, <1>3, PTL DEF Spec

-----------------------------------------------------------------------------

(***************************************************************************)
(* The word stays a word: what is claimed and the masks fit in it.         *)
(***************************************************************************)
Bits == 0..Width - 1

MaskBits(s, o) == IF o = "and" THEN Bits \ {s} ELSE {s}

LEMMA NumberIsWord == ASSUME NEW S \in SUBSET Bits PROVE Number(S) \in Word
BY WidthAssumption, NumberBits DEF Bits, Word, Modulus

LEMMA MaskIsNumber ==
  ASSUME K <= Width, NEW s \in Sender, NEW o
  PROVE  MaskBits(s, o) \in SUBSET Bits /\ Mask(s, o) = Number(MaskBits(s, o))
<1>1. s \in Bits /\ Pow2[s] \in Nat
  BY KAssumption, WidthAssumption, Constants DEF Sender, Bits
<1>2. Number({s}) = Pow2[s]
  <2>1. Number({s}) = Pow2[s] + Number({s} \ {s})
    BY <1>1, WidthAssumption, NumberSplit DEF Bits
  <2>2. {s} \ {s} = {}
    OBVIOUS
  <2> QED
    BY <1>1, <2>1, <2>2, NumberEmpty
<1>3. Number(Bits \ {s}) = Modulus - 1 - Pow2[s]
  <2>1. Number(Bits) = Pow2[s] + Number(Bits \ {s})
    BY <1>1, WidthAssumption, NumberSplit DEF Bits
  <2>2. Number(Bits) = Modulus - 1
    BY WidthAssumption, NumberFull DEF Bits, Modulus
  <2>3. Number(Bits \ {s}) \in Int
    BY NumberIsWord DEF Word
  <2> QED
    BY <1>1, <2>1, <2>2, <2>3
<1> QED
  BY <1>1, <1>2, <1>3 DEF Mask, MaskBits

AtomicOp == {"set", "add", "and", "or", "xor"}

LEMMA AppliedIsWord ==
  ASSUME NEW o \in AtomicOp, NEW a \in Word, NEW v \in Word
  PROVE  Applied(o, a, v) \in Word
<1>1. CASE o = "set"
  BY <1>1 DEF Applied
<1>2. CASE o = "add"
  <2>1. (v + a) % Modulus \in 0..Modulus - 1
    <3>1. v + a \in Int
      BY Constants DEF Word
    <3> QED
      BY <3>1, Constants, Division
  <2> QED
    BY <1>2, <2>1 DEF Applied, Word
<1>3. CASE o \in {"and", "or", "xor"}
  <2>1. BitOp(o, v, a) \in Word
    BY NumberIsWord DEF BitOp, Bits
  <2> QED
    BY <1>3, <2>1 DEF Applied
<1> QED
  BY <1>1, <1>2, <1>3 DEF AtomicOp

TypeInv == TypeOK /\ Fits(kind)

LEMMA SmallWords ==
  /\ 0 \in Word /\ 1 \in Word /\ 2 \in Word
  /\ K < Modulus => \A s \in Sender : s + 1 \in Word
<1>1. Modulus >= 4
  <2>1. Width = (Width - 2) + 1 + 1 /\ Width - 2 \in Nat
    BY WidthAssumption
  <2> DEFINE n == Width - 2
  <2>2. Pow2[n] \in Nat \ {0} /\ Pow2[n + 1] = 2 * Pow2[n] /\ Pow2[n + 1 + 1] = 2 * Pow2[n + 1]
    <3> HIDE DEF n
    <3>1. n \in Nat /\ n + 1 \in Nat
      BY <2>1 DEF n
    <3> QED
      BY <3>1, PowersOfTwo
  <2>3. Modulus = Pow2[n + 1 + 1]
    BY <2>1 DEF Modulus
  <2> HIDE DEF n
  <2> QED
    BY <2>2, <2>3
<1> QED
  BY <1>1, Constants DEF Word, Sender

\* What an atomic changes.
WorkTyped ==
  /\ word \in Word /\ updates \subseteq Update
  /\ ops \in [Sender -> Nat] /\ open \in [Sender -> BOOLEAN]

LEMMA PostTyped ==
  ASSUME TypeInv, NEW s \in Sender, NEW o \in AtomicOp, NEW a \in Word,
         Post(s, o, a)
  PROVE  WorkTyped'
<1> DEFINE u == [src |-> s, n |-> ops[s], round |-> round[s], op |-> o, arg |-> a]
<1>1. u \in Update
  BY DEF TypeInv, TypeOK, Update, AtomicOp
<1>2. ops[s] + 1 \in Nat
  BY DEF TypeInv, TypeOK
<1> QED
  BY <1>1, <1>2 DEF Post, TypeInv, TypeOK, WorkTyped

LEMMA FetchTyped ==
  ASSUME TypeInv, NEW s \in Sender, NEW o \in AtomicOp, NEW a \in Word,
         Fetch(s, o, a)
  PROVE  WorkTyped'
<1>1. Applied(o, a, word) \in Word
  BY AppliedIsWord DEF TypeInv, TypeOK
<1>2. ops[s] + 1 \in Nat
  BY DEF TypeInv, TypeOK
<1> QED
  BY <1>1, <1>2 DEF Fetch, TypeInv, TypeOK, WorkTyped

LEMMA TypeInit == Init => TypeInv
<1> SUFFICES ASSUME Init PROVE TypeInv
  OBVIOUS
<1>1. wait \in Waits /\ 0 \in Word
  BY WaitsAssumption, SmallWords DEF Init
<1>2. woken \in UNION {[S -> 0..Rounds] : S \in SUBSET Element}
  <2>1. woken \in [{} -> 0..Rounds]
    BY DEF Init
  <2> QED
    BY <2>1
<1>3. kind \in Kind /\ Fits(kind)
  BY DEF Init
<1>4. /\ \A s \in Sender : 0 \in 0..Rounds
      /\ word = 0 /\ updates = {} /\ puts = {} /\ given = 0 /\ tickets = {} /\ held = {}
      /\ waiting = FALSE
  BY RoundsAssumption DEF Init
<1>5. /\ flag \in [Sender -> [Element -> 0..Rounds]] /\ mark \in [Sender -> 0..Rounds]
      /\ round \in [Sender -> 0..Rounds]
      /\ ops \in [Sender -> Nat] /\ open \in [Sender -> BOOLEAN]
      /\ own \in [Sender -> {0, 1}]
  BY <1>4 DEF Init
<1> QED
  BY <1>1, <1>2, <1>3, <1>4, <1>5 DEF TypeInv, TypeOK

LEMMA WokenTyped ==
  ASSUME TypeInv, NEW v, NEW S \in SUBSET Element, NEW f \in [S -> 0..Rounds], Wake(v, f)
  PROVE  TypeInv'
<1>1. f \in UNION {[T -> 0..Rounds] : T \in SUBSET Element}
  OBVIOUS
<1>2. /\ waiting' = FALSE /\ woken' = f
      /\ UNCHANGED <<kind, word, updates, flag, mark, puts, ops, round, open, given, tickets, held,
                     own, wait>>
  BY DEF Wake, work
<1> QED
  BY <1>1, <1>2 DEF TypeInv, TypeOK, Fits

LEMMA StepTyped == ASSUME TypeInv, NEW s \in Sender, Step(s) PROVE TypeInv'
<1> USE DEF TypeInv
<1>1. ASSUME WorkTyped', Elsewhere, given' \in Nat, held' \subseteq Sender,
             tickets' \subseteq [src : Sender, n : Nat, val : Word],
             own' \in [Sender -> {0, 1}]
      PROVE  TypeInv'
  BY <1>1 DEF WorkTyped, Elsewhere, home, TypeOK, Fits
<1>2. CASE AtomicFetchAdd(s, 1)
  <2>1. WorkTyped' /\ Elsewhere
    BY <1>2, FetchTyped, SmallWords DEF AtomicFetchAdd, CanIssue, AtomicOp
  <2>2. [src |-> s, n |-> ops[s], val |-> word] \in [src : Sender, n : Nat, val : Word]
    BY DEF TypeOK
  <2>3. given + 1 \in Nat
    BY DEF TypeOK
  <2> QED
    BY <1>1, <1>2, <2>1, <2>2, <2>3 DEF AtomicFetchAdd, TypeOK
<1>3. ASSUME NEW plus \in {1, 2}, AtomicAdd(s, plus) PROVE TypeInv'
  <2>1. WorkTyped' /\ Elsewhere
    BY <1>3, PostTyped, SmallWords DEF AtomicAdd, CanIssue, AtomicOp
  <2>2. given + plus \in Nat
    BY DEF TypeOK
  <2> QED
    BY <1>1, <1>3, <2>1, <2>2 DEF AtomicAdd, TypeOK
<1>4. CASE AtomicCompareSwap(s)
  <2>1. s + 1 \in Word
    BY <1>4, SmallWords DEF AtomicCompareSwap, CanIssue, Fits
  <2>2. WorkTyped' /\ Elsewhere
    <3>1. Fetch(s, "set", s + 1) \/ Fetch(s, "set", word)
      BY <1>4 DEF AtomicCompareSwap
    <3> QED
      BY <1>4, <2>1, <3>1, FetchTyped DEF AtomicCompareSwap, CanIssue, AtomicOp, TypeOK
  <2> QED
    BY <1>1, <1>4, <2>2 DEF AtomicCompareSwap, TypeOK
<1>5. CASE AtomicSet(s)
  <2>1. WorkTyped' /\ Elsewhere
    BY <1>5, FetchTyped, PostTyped, SmallWords DEF AtomicSet, CanIssue, AtomicOp
  <2> QED
    BY <1>1, <1>5, <2>1 DEF AtomicSet, TypeOK
<1>6. ASSUME NEW o \in {"and", "or", "xor"}, AtomicBit(s, o) PROVE TypeInv'
  <2>1. Mask(s, o) \in Word
    BY <1>6, MaskIsNumber, NumberIsWord DEF AtomicBit, CanIssue, Fits
  <2>2. WorkTyped' /\ Elsewhere
    BY <1>6, <2>1, FetchTyped, PostTyped DEF AtomicBit, CanIssue, AtomicOp
  <2>3. own' \in [Sender -> {0, 1}]
    BY <1>6 DEF AtomicBit, After, TypeOK
  <2> QED
    BY <1>1, <1>6, <2>2, <2>3 DEF AtomicBit, TypeOK
<1>7. CASE Quiet(s)
  BY <1>7 DEF Quiet, home, TypeOK, Fits
<1>8. CASE Raise(s)
  <2>1. round[s] + 1 \in 0..Rounds
    BY <1>8, RoundsAssumption DEF Raise, TypeOK
  <2>2. /\ round' = [round EXCEPT ![s] = @ + 1] /\ open' = [open EXCEPT ![s] = TRUE]
        /\ puts' = puts \cup Put(s, Slice[round[s] + 1], round[s] + 1)
        /\ UNCHANGED <<kind, word, updates, flag, mark, ops, given, tickets, held, own, home>>
    BY <1>8 DEF Raise, TypeOK
  <2>3. puts' \subseteq [src : Sender, at : Element, val : 0..Rounds]
    <3>1. round[s] + 1 \in 1..Rounds
      BY <2>1 DEF TypeOK
    <3> QED
      BY <2>2, <3>1, SlicesFit DEF TypeOK
  <2> QED
    BY <2>1, <2>2, <2>3 DEF home, TypeOK, Fits
<1>9. CASE Mark(s)
  BY <1>9 DEF Mark, work, home, TypeOK, Fits
<1> QED
  BY <1>2, <1>3, <1>4, <1>5, <1>6, <1>7, <1>8, <1>9 DEF Step

LEMMA TypeNext == TypeInv /\ [Next]_vars => TypeInv'
<1> SUFFICES ASSUME TypeInv, [Next]_vars PROVE TypeInv'
  OBVIOUS
<1>1. ASSUME NEW m \in updates, DeliverUpdate(m) PROVE TypeInv'
  <2>1. m.op \in AtomicOp /\ m.arg \in Word
    BY DEF TypeInv, TypeOK, Update, AtomicOp
  <2>2. Applied(m.op, m.arg, word) \in Word
    BY <2>1, AppliedIsWord DEF TypeInv, TypeOK
  <2> QED
    BY <1>1, <2>2 DEF DeliverUpdate, home, TypeInv, TypeOK, Fits
<1>2. ASSUME NEW f \in puts, DeliverFlag(f) PROVE TypeInv'
  <2>1. f.src \in Sender /\ f.at \in Element /\ f.val \in 0..Rounds
    BY DEF TypeInv, TypeOK
  <2> QED
    BY <1>2, <2>1 DEF DeliverFlag, work, home, TypeInv, TypeOK, Fits
<1>3. ASSUME NEW w \in Waits, EnterWait(w) PROVE TypeInv'
  <2>1. <<>> \in UNION {[S -> 0..Rounds] : S \in SUBSET Element}
    <3>1. <<>> \in [{} -> 0..Rounds]
      OBVIOUS
    <3> QED
      BY <3>1
  <2> QED
    BY <1>3, <2>1 DEF EnterWait, work, TypeInv, TypeOK, Fits
<1>4. CASE Woken
  <2>1. /\ flag[wait.of] \in [Element -> 0..Rounds]
        /\ [i \in {0} |-> mark[wait.of]] \in [{0} -> 0..Rounds]
        /\ {0} \in SUBSET Element
    BY WaitsAssumption, SizeAssumption DEF TypeInv, TypeOK, Element
  <2>2. \A S \in SUBSET Ready(wait) :
          S \in SUBSET Element /\ Restrict(flag[wait.of], S) \in [S -> 0..Rounds]
    BY <2>1 DEF Ready, Restrict
  <2>3. CASE WaitUntil
    BY <2>1, <2>3, WokenTyped DEF WaitUntil
  <2>4. CASE WaitUntilAll
    BY <2>1, <2>4, WokenTyped DEF WaitUntilAll
  <2>5. CASE WaitUntilSome
    <3>1. PICK S \in SUBSET Ready(wait) : Wake("some", Restrict(flag[wait.of], S))
      BY <2>5 DEF WaitUntilSome
    <3> QED
      BY <2>2, <3>1, WokenTyped
  <2>6. CASE WaitUntilAny
    <3>1. PICK i \in Ready(wait) : Wake("any", Restrict(flag[wait.of], {i}))
      BY <2>6 DEF WaitUntilAny
    <3> QED
      BY <2>2, <3>1, WokenTyped
  <2> QED
    BY <1>4, <2>3, <2>4, <2>5, <2>6 DEF Woken
<1>5. CASE UNCHANGED vars
  BY <1>5 DEF vars, work, home, TypeInv, TypeOK, Fits
<1> QED
  BY <1>1, <1>2, <1>3, <1>4, <1>5, StepTyped DEF Next, Deliver

(***************************************************************************)
(* The word of the home stays a word of its width, whatever the atomics    *)
(* make of it (atomics.rs:142-225), for every number of senders that its   *)
(* use admits.                                                             *)
(***************************************************************************)
THEOREM TypeCorrect == Spec => []TypeOK
<1>1. TypeInv => TypeOK
  BY DEF TypeInv
<1> QED
  BY <1>1, TypeInit, TypeNext, PTL DEF Spec

-----------------------------------------------------------------------------

(***************************************************************************)
(* The counter: what has been given and is not on its way has landed, and  *)
(* every number handed out is below what has landed.                       *)
(***************************************************************************)
Due == SumFunction([m \in updates |-> m.arg])

Landed == given - Due

Numbered == IsFiniteSet(updates) /\ \A m \in updates : m.n < ops[m.src]

Accounted ==
  kind = "count" =>
    /\ \A m \in updates : m.op = "add"
    /\ Landed \in Nat /\ word = Landed % Modulus
    /\ given <= Modulus =>
         /\ \A t \in tickets : t.val < Landed
         /\ \A t, u \in tickets : t.val = u.val => t = u

CountInv == TypeInv /\ Numbered /\ Accounted /\ (kind # "count" => tickets = {})

\* Every amount on its way is a word.
LEMMA DueNat == ASSUME TypeInv, IsFiniteSet(updates) PROVE Due \in Nat
<1>1. [m \in updates |-> m.arg] \in [updates -> Nat]
  BY Constants DEF TypeInv, TypeOK, Update, Word
<1> QED
  BY <1>1, SumNat DEF Due

LEMMA AddToWord ==
  ASSUME NEW a \in Int, NEW b \in Int
  PROVE  ((a % Modulus) + b) % Modulus = (a + b) % Modulus
<1> DEFINE d == Modulus
<1>1. d \in Nat \ {0}
  BY Constants
<1> HIDE DEF d
<1>2. ((a % d) + b) % d = (a + b) % d
  BY <1>1, AddModulo
<1> QED
  BY <1>2 DEF d

LEMMA DueWithout ==
  ASSUME NEW U, IsFiniteSet(U), NEW f \in [U -> Int], NEW m \in U
  PROVE  SumFunction([k \in U |-> f[k]]) = f[m] + SumFunction([k \in U \ {m} |-> f[k]])
<1> DEFINE e == [k \in U \ {m} |-> f[k]]
<1>1. f = [k \in U |-> f[k]] /\ e \in [U \ {m} -> Int] /\ \A k \in U \ {m} : e[k] = f[k]
  OBVIOUS
<1> HIDE DEF e
<1>2. SumFunction(f) = f[m] + SumFunction(e)
  BY <1>1, SumSplit
<1> QED
  BY <1>1, <1>2 DEF e

\* An update that is issued is another one than those on their way.
LEMMA PostNumbered ==
  ASSUME CountInv, NEW s \in Sender, NEW o, NEW a, Post(s, o, a), a \in Word
  PROVE  /\ Numbered' /\ Due' = a + Due
         /\ \A m \in updates' : m \in updates \/ m.op = o
<1> DEFINE u == [src |-> s, n |-> ops[s], round |-> round[s], op |-> o, arg |-> a]
<1>1. updates' = updates \cup {u} /\ ops' = [ops EXCEPT ![s] = @ + 1]
  BY DEF Post
<1>2. u \notin updates
  <2>1. u.n = ops[s] /\ u.src = s /\ ops[s] \in Nat
    BY DEF CountInv, TypeInv, TypeOK
  <2> HIDE DEF u
  <2> QED
    BY <2>1 DEF CountInv, Numbered
<1>3. Numbered'
  <2>1. IsFiniteSet(updates')
    BY <1>1, FS_AddElement DEF CountInv, Numbered
  <2>2. ASSUME NEW m \in updates' PROVE m.n < ops'[m.src]
    <3>1. CASE m = u
      BY <1>1, <3>1 DEF CountInv, TypeInv, TypeOK
    <3>2. CASE m \in updates
      <4>1. m.n < ops[m.src] /\ m.src \in Sender /\ m.n \in Nat
        BY <3>2 DEF CountInv, Numbered, TypeInv, TypeOK, Update
      <4> QED
        BY <1>1, <4>1 DEF CountInv, TypeInv, TypeOK
    <3> QED
      BY <1>1, <3>1, <3>2
  <2> QED
    BY <2>1, <2>2 DEF Numbered
<1>4. Due' = a + Due
  <2>1. \A m \in updates' : m.arg \in Int
    BY <1>1, Constants DEF CountInv, TypeInv, TypeOK, Update, Word
  <2>2. IsFiniteSet(updates') /\ u \in updates' /\ updates' \ {u} = updates /\ u.arg = a
    BY <1>1, <1>2, <1>3 DEF Numbered
  <2> HIDE DEF u
  <2>3. SumFunction([k \in updates' |-> k.arg])
          = u.arg + SumFunction([k \in updates' \ {u} |-> k.arg])
    BY <2>1, <2>2, DueWithout
  <2> QED
    BY <2>2, <2>3 DEF Due
<1>5. \A m \in updates' : m \in updates \/ m.op = o
  BY <1>1
<1> QED
  BY <1>3, <1>4, <1>5

LEMMA FetchNumbered ==
  ASSUME CountInv, NEW s \in Sender, NEW o, NEW a, Fetch(s, o, a)
  PROVE  Numbered' /\ Due' = Due
<1>1. updates' = updates /\ ops' = [ops EXCEPT ![s] = @ + 1]
  BY DEF Fetch
<1>2. ASSUME NEW m \in updates PROVE m.n < ops'[m.src]
  <2>1. m.n < ops[m.src] /\ m.src \in Sender /\ m.n \in Nat
    BY DEF CountInv, Numbered, TypeInv, TypeOK, Update
  <2> QED
    BY <1>1, <2>1 DEF CountInv, TypeInv, TypeOK
<1> QED
  BY <1>1, <1>2 DEF CountInv, Numbered, Due

LEMMA CountInit == Init => CountInv
<1> SUFFICES ASSUME Init PROVE CountInv
  OBVIOUS
<1>1. Numbered /\ Due = 0
  <2>1. updates = {} /\ [m \in updates |-> m.arg] \in [{} -> Int]
    BY DEF Init
  <2> QED
    BY <2>1, FS_EmptySet, SumEmpty DEF Numbered, Due
<1>2. Landed = 0 /\ 0 % Modulus = 0
  BY <1>1, Constants DEF Landed, Init
<1> QED
  BY <1>1, <1>2, TypeInit DEF Init, CountInv, Accounted

LEMMA AddCounts ==
  ASSUME CountInv, NEW s \in Sender, NEW plus \in {1, 2}, AtomicAdd(s, plus)
  PROVE  Numbered' /\ Accounted' /\ kind' = "count"
<1>1. /\ Post(s, "add", plus) /\ given' = given + plus /\ tickets' = tickets
      /\ kind = "count" /\ kind' = "count" /\ word' = word
  BY DEF AtomicAdd, CanIssue, Elsewhere, Post
<1>2. Numbered' /\ Due' = plus + Due /\ \A m \in updates' : m \in updates \/ m.op = "add"
  BY <1>1, SmallWords, PostNumbered
<1>3. Due \in Nat /\ given \in Nat
  BY DueNat DEF CountInv, Numbered, TypeInv, TypeOK
<1>4. Landed' = Landed
  BY <1>1, <1>2, <1>3 DEF Landed
<1>5. given' <= Modulus => given <= Modulus
  BY <1>1, <1>3, Constants
<1> QED
  BY <1>1, <1>2, <1>4, <1>5 DEF CountInv, Accounted

\* Before the counter wraps around, the number handed out is what has landed.
LEMMA FetchAddCounts ==
  ASSUME CountInv, NEW s \in Sender, AtomicFetchAdd(s, 1)
  PROVE  Numbered' /\ Accounted' /\ kind' = "count"
<1> DEFINE u == [src |-> s, n |-> ops[s], val |-> word]
<1>1. /\ Fetch(s, "add", 1) /\ given' = given + 1 /\ tickets' = tickets \cup {u}
      /\ kind = "count" /\ kind' = "count" /\ updates' = updates
      /\ word' = (word + 1) % Modulus
  BY DEF AtomicFetchAdd, CanIssue, Elsewhere, Fetch, Applied
<1>2. Numbered' /\ Due' = Due
  BY <1>1, FetchNumbered
<1>3. Due \in Nat /\ given \in Nat /\ Landed \in Nat /\ word = Landed % Modulus
  BY <1>1, DueNat DEF CountInv, Numbered, Accounted, TypeInv, TypeOK
<1>4. Landed' = Landed + 1
  BY <1>1, <1>2, <1>3 DEF Landed
<1>5. word' = Landed' % Modulus
  BY <1>1, <1>3, <1>4, AddToWord
<1>6. ASSUME given' <= Modulus
      PROVE  /\ \A t \in tickets' : t.val < Landed'
             /\ \A t, v \in tickets' : t.val = v.val => t = v
  <2>1. given < Modulus /\ given <= Modulus
    BY <1>1, <1>3, <1>6, Constants
  <2>2. word = Landed
    <3>1. Landed < Modulus
      BY <1>3, <2>1, Constants DEF Landed
    <3> QED
      BY <1>3, <3>1, Constants
  <2>3. u.val = Landed
    BY <2>2
  <2>4. \A t \in tickets : t.val < Landed /\ t.val \in Nat
    BY <1>1, <2>1, Constants DEF CountInv, Accounted, TypeInv, TypeOK, Word
  <2>5. \A t, v \in tickets : t.val = v.val => t = v
    BY <1>1, <2>1 DEF CountInv, Accounted
  <2> HIDE DEF u
  <2> QED
    BY <1>1, <1>3, <1>4, <2>3, <2>4, <2>5
<1>7. Landed' \in Nat
  BY <1>3, <1>4
<1> QED
  BY <1>1, <1>2, <1>5, <1>6, <1>7 DEF CountInv, Accounted

LEMMA DeliverCounts ==
  ASSUME CountInv, NEW m \in updates, DeliverUpdate(m)
  PROVE  Numbered' /\ Accounted'
<1>1. /\ word' = Applied(m.op, m.arg, word) /\ updates' = updates \ {m}
      /\ UNCHANGED <<kind, ops, given, tickets>>
  BY DEF DeliverUpdate
<1>2. Numbered'
  BY <1>1, FS_RemoveElement DEF CountInv, Numbered
<1>3. Due = m.arg + Due' /\ Due' \in Nat /\ m.arg \in Nat
  <2>1. \A k \in updates : k.arg \in Nat
    BY Constants DEF CountInv, TypeInv, TypeOK, Update, Word
  <2>2. Due' = SumFunction([k \in updates \ {m} |-> k.arg])
    BY <1>1 DEF Due
  <2>3. Due' \in Nat
    <3>1. [k \in updates \ {m} |-> k.arg] \in [updates \ {m} -> Nat]
      BY <2>1
    <3> QED
      BY <1>1, <1>2, <2>2, <3>1, SumNat DEF Numbered
  <2>4. IsFiniteSet(updates)
    BY DEF CountInv, Numbered
  <2> DEFINE f == [k \in updates |-> k.arg]
  <2>5. f \in [updates -> Int]
    BY <2>1
  <2>6. SumFunction([k \in updates |-> f[k]])
          = f[m] + SumFunction([k \in updates \ {m} |-> f[k]])
    <3> HIDE DEF f
    <3> QED
      BY <2>4, <2>5, DueWithout
  <2> QED
    BY <2>1, <2>2, <2>3, <2>6 DEF Due
<1>4. ASSUME kind = "count" PROVE Accounted'
  <2>1. /\ m.op = "add" /\ Landed \in Nat /\ word = Landed % Modulus
        /\ word' = (word + m.arg) % Modulus
    BY <1>1, <1>4 DEF CountInv, Accounted, Applied
  <2>2. given \in Nat
    BY DEF CountInv, TypeInv, TypeOK
  <2>3. Landed' = Landed + m.arg
    BY <1>1, <1>3, <2>2 DEF Landed
  <2>4. word' = Landed' % Modulus /\ Landed' \in Nat
    <3> DEFINE a == m.arg
    <3>1. a \in Nat /\ word' = ((Landed % Modulus) + a) % Modulus /\ Landed' = Landed + a
      BY <1>3, <2>1, <2>3
    <3> HIDE DEF a
    <3>2. ((Landed % Modulus) + a) % Modulus = (Landed + a) % Modulus
      BY <2>1, <3>1, AddToWord
    <3> QED
      BY <2>1, <3>1, <3>2
  <2>5. \A t \in tickets : t.val \in Nat
    BY Constants DEF CountInv, TypeInv, TypeOK, Word
  <2> QED
    BY <1>1, <1>3, <1>4, <2>1, <2>3, <2>4, <2>5 DEF CountInv, Accounted
<1> QED
  BY <1>1, <1>2, <1>4 DEF Accounted

LEMMA CountNext == CountInv /\ [Next]_vars => CountInv'
<1> SUFFICES ASSUME CountInv, [Next]_vars PROVE CountInv'
  OBVIOUS
<1>1. TypeInv'
  BY TypeNext DEF CountInv
<1>2. ASSUME NEW s \in Sender, Step(s) PROVE CountInv'
  <2>1. CASE AtomicFetchAdd(s, 1)
    BY <1>1, <2>1, FetchAddCounts DEF CountInv
  <2>2. CASE \E plus \in {1, 2} : AtomicAdd(s, plus)
    BY <1>1, <2>2, AddCounts DEF CountInv
  <2>3. ASSUME kind # "count", UNCHANGED <<kind, tickets>>, Numbered' PROVE CountInv'
    BY <1>1, <2>3 DEF CountInv, Accounted
  <2>4. CASE AtomicCompareSwap(s)
    BY <2>3, <2>4, FetchNumbered DEF AtomicCompareSwap, CanIssue, Elsewhere
  <2>5. CASE AtomicSet(s)
    BY <2>3, <2>5, FetchNumbered, PostNumbered, SmallWords DEF AtomicSet, CanIssue, Elsewhere
  <2>6. ASSUME NEW o \in {"and", "or", "xor"}, AtomicBit(s, o) PROVE CountInv'
    <3>1. Mask(s, o) \in Word
      BY <2>6, MaskIsNumber, NumberIsWord DEF AtomicBit, CanIssue, CountInv, TypeInv, Fits
    <3> QED
      BY <2>3, <2>6, <3>1, FetchNumbered, PostNumbered DEF AtomicBit, CanIssue, Elsewhere
  <2>7. CASE Quiet(s) \/ Raise(s) \/ Mark(s)
    BY <1>1, <2>7
       DEF Quiet, Raise, Mark, work, CountInv, Numbered, Accounted, Landed, Due
  <2> QED
    BY <1>2, <2>1, <2>2, <2>4, <2>5, <2>6, <2>7 DEF Step
<1>3. ASSUME NEW m \in updates, DeliverUpdate(m) PROVE CountInv'
  BY <1>1, <1>3, DeliverCounts DEF DeliverUpdate, CountInv
<1>4. CASE UNCHANGED <<kind, work>>
  BY <1>1, <1>4 DEF work, CountInv, Numbered, Accounted, Landed, Due
<1>5. CASE (\E f \in puts : DeliverFlag(f)) \/ (\E w \in Waits : EnterWait(w)) \/ Woken
  <2>1. UNCHANGED <<kind, work>>
    BY <1>5 DEF DeliverFlag, EnterWait, Woken, WaitUntil, WaitUntilAll, WaitUntilSome,
                WaitUntilAny, Wake
  <2> QED
    BY <1>4, <2>1
<1> QED
  BY <1>2, <1>3, <1>4, <1>5 DEF Next, Deliver, vars

(***************************************************************************)
(* Whatever is still on its way, no increment is lost or counted twice     *)
(* (macros.rs:218-235), for every number of senders and width.             *)
(***************************************************************************)
THEOREM NothingLost == Spec => []Counted
<1>1. CountInv => Counted
  <2> SUFFICES ASSUME CountInv, kind = "count" PROVE (word + Due) % Modulus = given % Modulus
    BY DEF Counted, Due
  <2>1. Due \in Nat /\ Landed \in Nat /\ given \in Nat /\ word = Landed % Modulus
    BY DueNat DEF CountInv, Numbered, Accounted, TypeInv, TypeOK
  <2>2. Landed + Due = given
    BY <2>1 DEF Landed
  <2>3. ((Landed % Modulus) + Due) % Modulus = (Landed + Due) % Modulus
    BY <2>1, AddToWord
  <2> QED
    BY <2>1, <2>2, <2>3
<1> QED
  BY <1>1, CountInit, CountNext, PTL DEF Spec

(***************************************************************************)
(* Every fetching increment gets a number of its own, however many senders *)
(* there are and whatever is added in between (macros.rs:218-231), until   *)
(* the counter wraps around.                                               *)
(***************************************************************************)
THEOREM TicketsAreUnique == Spec => []TicketsUnique
<1>1. CountInv => TicketsUnique
  BY DEF CountInv, Accounted, TicketsUnique
<1> QED
  BY <1>1, CountInit, CountNext, PTL DEF Spec

-----------------------------------------------------------------------------

(***************************************************************************)
(* The bits: an operation with the mask of s changes the bit of s alone.   *)
(***************************************************************************)
BitwiseOp == {"and", "or", "xor"}

LEMMA MaskEffect ==
  ASSUME K <= Width, NEW s \in Sender, NEW t \in Sender, NEW o \in BitwiseOp, NEW v \in Word
  PROVE  Bit(Applied(o, Mask(s, o), v), t) = IF t = s THEN After(Bit(v, s), o) ELSE Bit(v, t)
<1> DEFINE a == Mask(s, o)
           one(j) == CASE o = "and" -> Bit(v, j) = 1 /\ Bit(a, j) = 1
                       [] o = "or"  -> Bit(v, j) = 1 \/ Bit(a, j) = 1
                       [] o = "xor" -> Bit(v, j) # Bit(a, j)
           R == {j \in Bits : one(j)}
<1>1. s \in Bits /\ t \in Bits /\ t \in Nat /\ v \in Int
  BY KAssumption, WidthAssumption, Constants DEF Sender, Bits, Word
<1>2. Bit(a, t) = IF t \in MaskBits(s, o) THEN 1 ELSE 0
  BY <1>1, MaskIsNumber, NumberBits, WidthAssumption DEF Bits
<1>3. Bit(Number(R), t) = IF one(t) THEN 1 ELSE 0
  <2>1. R \in SUBSET (0..Width - 1) /\ t \in 0..Width - 1
    BY <1>1 DEF Bits
  <2>2. Bit(Number(R), t) = IF t \in R THEN 1 ELSE 0
    <3> HIDE DEF R
    <3> QED
      BY <2>1, NumberBits, WidthAssumption
  <2> QED
    BY <1>1, <2>2
<1>4. Applied(o, a, v) = Number(R)
  BY DEF Applied, BitOp, BitwiseOp, Bits
<1>5. Bit(v, t) \in {0, 1}
  BY <1>1, BitRange
<1> HIDE DEF a, R
<1>6. CASE o = "and"
  <2>1. t \in MaskBits(s, o) <=> t # s
    BY <1>1, <1>6 DEF MaskBits
  <2>2. one(t) <=> Bit(v, t) = 1 /\ t # s
    BY <1>2, <1>6, <2>1
  <2>3. After(Bit(v, s), o) = 0
    BY <1>6 DEF After
  <2> HIDE DEF one
  <2> QED
    BY <1>3, <1>4, <1>5, <2>2, <2>3 DEF a
<1>7. CASE o = "or"
  <2>1. t \in MaskBits(s, o) <=> t = s
    BY <1>7 DEF MaskBits
  <2>2. one(t) <=> Bit(v, t) = 1 \/ t = s
    BY <1>2, <1>7, <2>1
  <2>3. After(Bit(v, s), o) = 1
    BY <1>7 DEF After
  <2> HIDE DEF one
  <2> QED
    BY <1>3, <1>4, <1>5, <2>2, <2>3 DEF a
<1>8. CASE o = "xor"
  <2>1. t \in MaskBits(s, o) <=> t = s
    BY <1>8 DEF MaskBits
  <2>2. one(t) <=> Bit(v, t) # IF t = s THEN 1 ELSE 0
    BY <1>2, <1>8, <2>1
  <2>3. After(Bit(v, s), o) = 1 - Bit(v, s)
    BY <1>8 DEF After
  <2> HIDE DEF one
  <2> QED
    BY <1>3, <1>4, <1>5, <2>2, <2>3 DEF a
<1> QED
  BY <1>6, <1>7, <1>8 DEF BitwiseOp

OwnBits ==
  kind = "bits" =>
    /\ \A m \in updates : m.op \in BitwiseOp /\ m.arg = Mask(m.src, m.op)
    /\ \A m, k \in updates : m.src = k.src => m = k
    /\ \A m \in updates : own[m.src] = After(Bit(word, m.src), m.op)
    /\ \A s \in Sender : (\A m \in updates : m.src # s) => Bit(word, s) = own[s]

BitInv == IInv /\ TypeInv /\ OwnBits

LEMMA BitInit == Init => BitInv
<1> SUFFICES ASSUME Init PROVE OwnBits
  BY InvInit, TypeInit DEF BitInv
<1>1. \A s \in Sender : Bit(0, s) = 0
  <2> SUFFICES ASSUME NEW s \in Sender PROVE Bit(0, s) = 0
    OBVIOUS
  <2>1. Pow2[s] \in Nat \ {0}
    BY PowersOfTwo, Constants
  <2>2. 0 \div Pow2[s] = 0
    BY <2>1
  <2> QED
    BY <2>2 DEF Bit
<1> QED
  BY <1>1 DEF Init, OwnBits

\* Nothing of s is on its way when it issues, so that its bit is the one it left.
LEMMA AtomicBitInv ==
  ASSUME BitInv, NEW s \in Sender, NEW o \in BitwiseOp, AtomicBit(s, o)
  PROVE  OwnBits'
<1>1. /\ kind = "bits" /\ kind' = "bits" /\ K <= Width
      /\ own' = [own EXCEPT ![s] = After(@, o)]
      /\ Post(s, o, Mask(s, o)) \/ Fetch(s, o, Mask(s, o))
      /\ \A m \in updates : m.src # s
  BY DEF AtomicBit, CanIssue, Elsewhere, BitInv, TypeInv, Fits, IInv, Known
<1>2. Bit(word, s) = own[s] /\ word \in Word /\ own \in [Sender -> {0, 1}]
  BY <1>1 DEF BitInv, OwnBits, TypeInv, TypeOK
<1>3. \A m \in updates : m.src \in Sender
  BY DEF BitInv, TypeInv, TypeOK, Update
<1>4. CASE Post(s, o, Mask(s, o))
  <2> DEFINE u == [src |-> s, n |-> ops[s], round |-> round[s], op |-> o, arg |-> Mask(s, o)]
  <2>1. /\ updates' = updates \cup {u} /\ word' = word
        /\ u.src = s /\ u.op = o /\ u.arg = Mask(s, o)
    BY <1>4 DEF Post
  <2> HIDE DEF u
  <2>2. own'[s] = After(Bit(word, s), o) /\ \A t \in Sender : t # s => own'[t] = own[t]
    BY <1>1, <1>2
  <2>3. \A t \in Sender : (\A m \in updates' : m.src # t) => t # s /\ \A m \in updates : m.src # t
    BY <2>1
  <2>4. \A t \in Sender : (\A m \in updates' : m.src # t) => Bit(word, t) = own'[t]
    BY <1>1, <2>2, <2>3 DEF BitInv, OwnBits
  <2>5. \A m \in updates' : own'[m.src] = After(Bit(word, m.src), m.op)
    BY <1>1, <1>3, <2>1, <2>2 DEF BitInv, OwnBits
  <2>6. \A m \in updates' : m.op \in BitwiseOp /\ m.arg = Mask(m.src, m.op)
    BY <1>1, <2>1 DEF BitInv, OwnBits
  <2>7. \A m, k \in updates' : m.src = k.src => m = k
    BY <1>1, <2>1 DEF BitInv, OwnBits
  <2> QED
    BY <2>1, <2>4, <2>5, <2>6, <2>7 DEF OwnBits, Mask
<1>5. CASE Fetch(s, o, Mask(s, o))
  <2>1. word' = Applied(o, Mask(s, o), word) /\ updates' = updates
    BY <1>5 DEF Fetch
  <2>2. \A t \in Sender : Bit(word', t) = IF t = s THEN After(Bit(word, s), o) ELSE Bit(word, t)
    BY <1>1, <1>2, <2>1, MaskEffect
  <2>3. own'[s] = After(Bit(word, s), o) /\ \A t \in Sender : t # s => own'[t] = own[t]
    BY <1>1, <1>2
  <2> QED
    BY <1>1, <1>3, <2>1, <2>2, <2>3 DEF BitInv, OwnBits, Mask
<1> QED
  BY <1>1, <1>4, <1>5

LEMMA DeliverBitInv ==
  ASSUME BitInv, NEW u \in updates, DeliverUpdate(u)
  PROVE  OwnBits'
<1>1. /\ word' = Applied(u.op, u.arg, word) /\ updates' = updates \ {u}
      /\ UNCHANGED <<kind, own>>
  BY DEF DeliverUpdate
<1> SUFFICES ASSUME kind = "bits" PROVE OwnBits'
  BY <1>1 DEF OwnBits
<1> DEFINE s == u.src
<1>2. /\ s \in Sender /\ u.op \in BitwiseOp /\ u.arg = Mask(s, u.op)
      /\ own[s] = After(Bit(word, s), u.op)
      /\ K <= Width /\ word \in Word
  BY DEF BitInv, OwnBits, TypeInv, TypeOK, Fits, Update
<1>3. \A t \in Sender : Bit(word', t) = IF t = s THEN After(Bit(word, s), u.op) ELSE Bit(word, t)
  BY <1>1, <1>2, MaskEffect
<1>4. \A m \in updates' : m \in updates /\ m.src \in Sender /\ m.src # s
  BY <1>1 DEF BitInv, OwnBits, TypeInv, TypeOK, Update
<1>5. \A m \in updates' : own[m.src] = After(Bit(word', m.src), m.op)
  BY <1>3, <1>4 DEF BitInv, OwnBits
<1>6. \A t \in Sender : (\A m \in updates' : m.src # t) => Bit(word', t) = own[t]
  <2> SUFFICES ASSUME NEW t \in Sender, \A m \in updates' : m.src # t
               PROVE  Bit(word', t) = own[t]
    OBVIOUS
  <2>1. CASE t = s
    BY <1>2, <1>3, <2>1
  <2>2. CASE t # s
    <3>1. \A m \in updates : m.src # t
      BY <1>1, <2>2
    <3> QED
      BY <1>3, <2>2, <3>1 DEF BitInv, OwnBits
  <2> QED
    BY <2>1, <2>2
<1> QED
  BY <1>1, <1>4, <1>5, <1>6 DEF BitInv, OwnBits, Mask

LEMMA BitNext == BitInv /\ [Next]_vars => BitInv'
<1> SUFFICES ASSUME BitInv, [Next]_vars PROVE OwnBits'
  BY InvNext, TypeNext DEF BitInv
<1>1. ASSUME NEW s \in Sender, Step(s) PROVE OwnBits'
  <2>1. CASE \E o \in {"and", "or", "xor"} : AtomicBit(s, o)
    BY <2>1, AtomicBitInv DEF BitwiseOp
  <2>2. CASE \/ AtomicFetchAdd(s, 1) \/ \E plus \in {1, 2} : AtomicAdd(s, plus)
             \/ AtomicCompareSwap(s) \/ AtomicSet(s)
    <3>1. kind # "bits" /\ kind' = kind
      BY <2>2 DEF AtomicFetchAdd, AtomicAdd, AtomicCompareSwap, AtomicSet, CanIssue, Elsewhere
    <3> QED
      BY <3>1 DEF OwnBits
  <2>3. CASE Quiet(s) \/ Raise(s) \/ Mark(s)
    BY <2>3 DEF Quiet, Raise, Mark, work, BitInv, OwnBits, Mask
  <2> QED
    BY <1>1, <2>1, <2>2, <2>3 DEF Step
<1>2. ASSUME NEW m \in updates, DeliverUpdate(m) PROVE OwnBits'
  BY <1>2, DeliverBitInv
<1>3. CASE UNCHANGED <<kind, work>>
  BY <1>3 DEF work, BitInv, OwnBits, Mask
<1>4. CASE (\E f \in puts : DeliverFlag(f)) \/ (\E w \in Waits : EnterWait(w)) \/ Woken
  <2>1. UNCHANGED <<kind, work>>
    BY <1>4 DEF DeliverFlag, EnterWait, Woken, WaitUntil, WaitUntilAll, WaitUntilSome,
                WaitUntilAny, Wake
  <2> QED
    BY <1>3, <2>1
<1> QED
  BY <1>1, <1>2, <1>3, <1>4 DEF Next, Deliver, vars

(***************************************************************************)
(* Senders that keep a bit each in one word never disturb each other,      *)
(* whatever is on its way (macros.rs:244-285), for every width and as many *)
(* senders as there are bits.                                              *)
(***************************************************************************)
THEOREM BitsAreKept == Spec => []OwnBitKept
<1>1. BitInv => OwnBitKept
  BY DEF BitInv, OwnBits, OwnBitKept
<1> QED
  BY <1>1, BitInit, BitNext, PTL DEF Spec

-----------------------------------------------------------------------------

(***************************************************************************)
(* What a sender has on its way is of its last round, and an element that  *)
(* nothing is on its way to has been replaced as far as the slices say.    *)
(***************************************************************************)
Latest ==
  /\ \A f \in puts : f.val = round[f.src] /\ f.val > 0 /\ f.at < Slice[f.val]
  /\ \A s \in Sender, i \in Element :
       LastReplaced(i, flag[s][i], round[s]) \/ \E f \in puts : f.src = s /\ f.at = i

LEMMA RaiseLatest == ASSUME IInv, Latest, NEW s \in Sender, Raise(s) PROVE Latest'
<1> DEFINE r == round[s] + 1
           F == Put(s, Slice[r], r)
<1>1. /\ UNCHANGED flag /\ round' = [round EXCEPT ![s] = @ + 1]
      /\ puts' = puts \cup F /\ round \in [Sender -> 0..Rounds] /\ round[s] < Rounds
      /\ \A g \in puts : g.src # s /\ g.src \in Sender
  BY DEF Raise, IInv, Types, Known
<1>2. r \in 1..Rounds /\ round'[s] = r /\ round[s] \in Nat
      /\ \A t \in Sender : t # s => round'[t] = round[t]
  BY <1>1, Constants
<1>3. /\ Slice[r] \in 0..Size
      /\ \A f \in F : f.src = s /\ f.val = r /\ f.at < Slice[r]
      /\ \A i \in Element : i < Slice[r] => \E f \in F : f.src = s /\ f.at = i
  <2>1. r \in 1..Rounds
    BY <1>2
  <2> HIDE DEF r
  <2>2. /\ Slice[r] \in 0..Size
        /\ \A f \in F : f.src = s /\ f.val = r /\ f.at < Slice[r]
    BY <2>1, SlicesFit
  <2>3. ASSUME NEW i \in Element, i < Slice[r] PROVE \E f \in F : f.src = s /\ f.at = i
    <3>1. [src |-> s, at |-> i, val |-> r] \in F
      BY <2>1, <2>3, SlicesFit
    <3> QED
      BY <3>1
  <2> QED
    BY <2>2, <2>3
<1> HIDE DEF F
<1>4. \A f \in puts' : f.val = round'[f.src] /\ f.val > 0 /\ f.at < Slice[f.val]
  BY <1>1, <1>2, <1>3 DEF Latest
<1>5. ASSUME NEW i \in Element
      PROVE  LastReplaced(i, flag[s][i], r) \/ \E f \in puts' : f.src = s /\ f.at = i
  <2>1. CASE i < Slice[r]
    BY <1>1, <1>3, <2>1
  <2>2. CASE ~ i < Slice[r]
    <3>1. LastReplaced(i, flag[s][i], round[s])
      BY <1>1 DEF Latest
    <3>2. Slice[r] <= i
      BY <1>3, <2>2, SizeAssumption DEF Element
    <3> QED
      BY <1>2, <3>1, <3>2 DEF LastReplaced
  <2> QED
    BY <2>1, <2>2
<1>6. \A t \in Sender, i \in Element :
        LastReplaced(i, flag[t][i], round'[t]) \/ \E f \in puts' : f.src = t /\ f.at = i
  BY <1>1, <1>2, <1>5 DEF Latest
<1> QED
  BY <1>1, <1>4, <1>6 DEF Latest, LastReplaced

LEMMA DeliverLatest == ASSUME IInv, Latest, NEW f \in puts, DeliverFlag(f) PROVE Latest'
<1>1. /\ UNCHANGED round /\ puts' = puts \ {f} /\ flag' = [flag EXCEPT ![f.src][f.at] = f.val]
      /\ flag \in [Sender -> [Element -> 0..Rounds]] /\ f.src \in Sender /\ f.at \in Element
      /\ f.val = round[f.src] /\ f.val \in Nat /\ f.val > 0 /\ f.at < Slice[f.val]
  BY Constants DEF DeliverFlag, IInv, Types, Latest
<1>2. \A t \in Sender, i \in Element :
        flag'[t][i] = IF t = f.src /\ i = f.at THEN f.val ELSE flag[t][i]
  BY <1>1
<1>3. LastReplaced(f.at, f.val, round[f.src])
  BY <1>1 DEF LastReplaced
<1>4. ASSUME NEW t \in Sender, NEW i \in Element
      PROVE  LastReplaced(i, flag'[t][i], round[t]) \/ \E g \in puts' : g.src = t /\ g.at = i
  <2>1. CASE t = f.src /\ i = f.at
    BY <1>2, <1>3, <2>1
  <2>2. CASE ~ (t = f.src /\ i = f.at)
    <3>1. flag'[t][i] = flag[t][i]
      BY <1>2, <2>2
    <3> QED
      BY <1>1, <2>2, <3>1 DEF Latest
  <2> QED
    BY <2>1, <2>2
<1> QED
  BY <1>1, <1>4 DEF Latest, LastReplaced

LEMMA LatestNext == IInv /\ Latest /\ [Next]_vars => Latest'
<1> SUFFICES ASSUME IInv, Latest, [Next]_vars PROVE Latest'
  OBVIOUS
<1>1. CASE UNCHANGED <<flag, puts, round>>
  BY <1>1 DEF Latest, LastReplaced
<1>2. ASSUME NEW s \in Sender, Step(s) PROVE Latest'
  <2>1. CASE Raise(s)
    BY <2>1, RaiseLatest
  <2>2. CASE ~ Raise(s)
    <3>1. UNCHANGED <<flag, puts, round>>
      BY <1>2, <2>2 DEF Step, AtomicFetchAdd, AtomicAdd, AtomicCompareSwap, AtomicSet, AtomicBit,
                        Elsewhere, Quiet, Mark
    <3> QED
      BY <1>1, <3>1
  <2> QED
    BY <2>1, <2>2
<1>3. ASSUME NEW f \in puts, DeliverFlag(f) PROVE Latest'
  BY <1>3, DeliverLatest
<1>4. CASE \/ \E m \in updates : DeliverUpdate(m)
           \/ \E w \in Waits : EnterWait(w)
           \/ Woken
  <2>1. UNCHANGED <<flag, puts, round>>
    BY <1>4 DEF DeliverUpdate, EnterWait, Woken, WaitUntil, WaitUntilAll, WaitUntilSome,
                WaitUntilAny, Wake
  <2> QED
    BY <1>1, <2>1
<1> QED
  BY <1>1, <1>2, <1>3, <1>4 DEF Next, Deliver, vars

(***************************************************************************)
(* A flag that has been put reaches the home, and stays there until the    *)
(* next slice that is long enough for it, because quiet completes the put  *)
(* of the last round before the next is issued (lib.rs:404-413, 536-561):  *)
(* however many rounds there are and whatever the lengths of the slices,   *)
(* the puts of a sender do not overtake each other.                        *)
(***************************************************************************)
THEOREM FlagsAreKept == Spec => []LatestFlag
<1>1. Init => Latest
  <2> SUFFICES ASSUME Init PROVE Latest
    OBVIOUS
  <2>1. \A s \in Sender : round[s] = 0 /\ \A i \in Element : flag[s][i] = 0
    BY DEF Init
  <2>2. \A i \in Element : LastReplaced(i, 0, 0)
    BY DEF LastReplaced
  <2> QED
    BY <2>1, <2>2 DEF Init, Latest
<1>2. Latest => LatestFlag
  BY DEF Latest, LatestFlag
<1> QED
  BY <1>1, <1>2, InvInit, InvNext, LatestNext, PTL DEF Spec

=============================================================================
