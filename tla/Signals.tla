------------------------------- MODULE Signals -------------------------------
(***************************************************************************)
(* Remote atomics and waits: PEs update an Atomic<T> on one PE, the home   *)
(* (src/src/atomics.rs, src/src/macros.rs:177-285), then put flags there   *)
(* that the home waits for (src/src/wait.rs, macros.rs:130-175).           *)
(*                                                                         *)
(* A sender works in rounds: updates, ctx.quiet(()), and a write_from of   *)
(* the number of the round.  write_from has no offset: it replaces the     *)
(* first elements of an array, so that each sender has an array of its     *)
(* own, and as many elements are replaced as the slice has.  A Shbox<T>    *)
(* of a single value, which wait_until takes, is out of its reach: that    *)
(* is stored to through the pointer that try_ptr returns.  The updates     *)
(* are of one kind: a sender counts, claims a word for itself, or keeps a  *)
(* bit in it.                                                              *)
(*                                                                         *)
(* External: an atomic that fetches has been applied when it returns, one  *)
(* that does not is applied later, and neither is ever torn.  The elements *)
(* of a put arrive one by one, in any order, each as a whole, and a store  *)
(* to the home's memory is there at once.  A wait returns some time after  *)
(* its condition has become true.                                          *)
(***************************************************************************)
EXTENDS Integers, FiniteSets, Words

CONSTANTS
  K,        \* the number of senders
  Width,    \* the bits of T
  Rounds,   \* the rounds of a sender
  Size,     \* the elements of an array of flags
  Slice,    \* Slice[r]: the elements that the write_from of round r replaces
  Waits,    \* the waits of the home: variant, comparison, value, and whose flags
  MaxOps    \* bound: MaxOps[s], the atomics that s issues

Sender == 0..K - 1
Modulus == Pow2[Width]
Word == 0..Modulus - 1
Element == 0..Size - 1
Kind == {"count", "claim", "bits"}
CompareOp == {"Equal", "NotEqual", "Greater", "GreaterEqual", "Lesser", "LesserEqual"}
Variant == {"until", "all", "some", "any"}

ASSUME KAssumption == K \in Nat \ {0}
ASSUME WidthAssumption == Width \in Nat /\ Width >= 2
ASSUME RoundsAssumption == Rounds \in Nat
ASSUME MaxOpsAssumption == MaxOps \in [Sender -> Nat]
ASSUME SizeAssumption == Size \in Nat \ {0}

\* No slice is longer than the array (write_from panics), and the last has all elements.
ASSUME SliceAssumption ==
  Slice \in [1..Rounds -> 0..Size] /\ (Rounds > 0 => Slice[Rounds] = Size)

VARIABLES
  kind,     \* what the word is used for
  word,     \* the Atomic<T> of the home
  updates,  \* the atomics on their way
  flag,     \* flag[s][i]: element i of the home's copy of the array of s
  mark,     \* mark[s]: the home's copy of the single value of s
  puts,     \* the elements of slices on their way
  ops,      \* ops[s]: the atomics s has issued
  round,    \* round[s]: the rounds of which s has put the flags
  open,     \* open[s]: s has issued something since its last quiet
  given,    \* the sum of all increments issued
  tickets,  \* what the fetching increments have returned
  held,     \* the senders that have claimed the word
  own,      \* own[s]: how s has left its bit
  waiting,  \* the home is in a wait
  wait,     \* that wait, or the last one
  woken     \* what the last wait has told of: a function from indices to values

work == <<word, updates, ops, open, given, tickets, held, own>>
home == <<waiting, wait, woken>>
vars == <<kind, flag, mark, puts, round, work, home>>

-----------------------------------------------------------------------------

BitOp(o, v, w) ==
  LET one(j) == CASE o = "and" -> Bit(v, j) = 1 /\ Bit(w, j) = 1
                  [] o = "or"  -> Bit(v, j) = 1 \/ Bit(w, j) = 1
                  [] o = "xor" -> Bit(v, j) # Bit(w, j)
  IN  Number({j \in 0..Width - 1 : one(j)})

\* Mutant of Applied: the addition does not wrap around.
AppliedWide(o, a, v) ==
  CASE o = "set" -> a
    [] o = "add" -> v + a
    [] o \in {"and", "or", "xor"} -> BitOp(o, v, a)

\* What an atomic makes of the value v.
Applied(o, a, v) ==
  CASE o = "set" -> a
    [] o = "add" -> (v + a) % Modulus
    [] o \in {"and", "or", "xor"} -> BitOp(o, v, a)

\* The comparison of wait_until: the value v on the left, x on the right.
Holds(v, op, x) ==
  CASE op = "Equal" -> v = x
    [] op = "NotEqual" -> v # x
    [] op = "Greater" -> v > x
    [] op = "GreaterEqual" -> v >= x
    [] op = "Lesser" -> v < x
    [] op = "LesserEqual" -> v <= x

\* The home waits for what the flags come to satisfy in the end.
ASSUME WaitsAssumption ==
  /\ Waits # {}
  /\ \A w \in Waits : w \in [variant : Variant, op : CompareOp, x : 0..Rounds, of : Sender]
  /\ \A w \in Waits : Holds(Rounds, w.op, w.x)

Update == [src : Sender, n : Nat, round : 0..Rounds, op : {"set", "add", "and", "or", "xor"}, arg : Word]

TypeOK ==
  /\ kind \in Kind /\ word \in Word /\ updates \subseteq Update
  /\ flag \in [Sender -> [Element -> 0..Rounds]] /\ mark \in [Sender -> 0..Rounds]
  /\ puts \subseteq [src : Sender, at : Element, val : 0..Rounds]
  /\ ops \in [Sender -> Nat] /\ round \in [Sender -> 0..Rounds]
  /\ open \in [Sender -> BOOLEAN]
  /\ given \in Nat /\ tickets \subseteq [src : Sender, n : Nat, val : Word]
  /\ held \subseteq Sender /\ own \in [Sender -> {0, 1}]
  /\ waiting \in BOOLEAN /\ wait \in Waits /\ woken \in UNION {[S -> 0..Rounds] : S \in SUBSET Element}

\* A word has a number for each sender that claims it, or a bit for each one.
Fits(k) == (k = "claim" => K < Modulus) /\ (k = "bits" => K <= Width)

Init ==
  /\ kind \in {k \in Kind : Fits(k)} /\ word = 0 /\ updates = {}
  /\ flag = [s \in Sender |-> [i \in Element |-> 0]] /\ mark = [s \in Sender |-> 0] /\ puts = {}
  /\ ops = [s \in Sender |-> 0] /\ round = [s \in Sender |-> 0]
  /\ open = [s \in Sender |-> FALSE]
  /\ given = 0 /\ tickets = {} /\ held = {} /\ own = [s \in Sender |-> 0]
  /\ waiting = FALSE /\ wait = (CHOOSE w \in Waits : TRUE) /\ woken = <<>>

-----------------------------------------------------------------------------

CanIssue(s, k) == kind = k /\ round[s] < Rounds /\ ops[s] < MaxOps[s]

\* An atomic that does not fetch: it is on its way when the call returns.
Post(s, o, a) ==
  /\ updates' = updates \cup {[src |-> s, n |-> ops[s], round |-> round[s], op |-> o, arg |-> a]}
  /\ ops' = [ops EXCEPT ![s] = @ + 1]
  /\ open' = [open EXCEPT ![s] = TRUE]
  /\ UNCHANGED word

\* Mutant of Fetch: the value is fetched, and the new one set later.
FetchThenSet(s, o, a) ==
  /\ updates' = updates \cup {[src |-> s, n |-> ops[s], round |-> round[s], op |-> "set",
                               arg |-> Applied(o, a, word)]}
  /\ ops' = [ops EXCEPT ![s] = @ + 1]
  /\ UNCHANGED <<word, open>>

\* An atomic that fetches: the caller has the old value, word, at once.
Fetch(s, o, a) ==
  /\ word' = Applied(o, a, word)
  /\ ops' = [ops EXCEPT ![s] = @ + 1]
  /\ UNCHANGED <<updates, open>>

Elsewhere == UNCHANGED <<kind, flag, mark, puts, round, home>>

\* atomic_inc, and atomic_add with another amount.
AtomicAdd(s, plus) ==
  /\ CanIssue(s, "count")
  /\ Post(s, "add", plus)
  /\ given' = given + plus
  /\ UNCHANGED <<tickets, held, own>> /\ Elsewhere

\* atomic_fetch_inc and atomic_fetch_add.
AtomicFetchAdd(s, plus) ==
  /\ CanIssue(s, "count")
  /\ Fetch(s, "add", plus)
  /\ given' = given + plus
  /\ tickets' = tickets \cup {[src |-> s, n |-> ops[s], val |-> word]}
  /\ UNCHANGED <<held, own>> /\ Elsewhere

\* Mutant of AtomicCompareSwap: the value that is compared is fetched before.
CompareThenSet(s) ==
  /\ CanIssue(s, "claim") /\ s \notin held
  /\ IF word = 0 THEN FetchThenSet(s, "set", s + 1) /\ held' = held \cup {s}
                 ELSE Fetch(s, "set", word) /\ UNCHANGED held
  /\ UNCHANGED <<given, tickets, own>> /\ Elsewhere

\* atomic_compare_swap(0, s + 1): s has the word if it was 0.
AtomicCompareSwap(s) ==
  /\ CanIssue(s, "claim") /\ s \notin held
  /\ IF word = 0 THEN Fetch(s, "set", s + 1) /\ held' = held \cup {s}
                 ELSE Fetch(s, "set", word) /\ UNCHANGED held
  /\ UNCHANGED <<given, tickets, own>> /\ Elsewhere

\* atomic_set(0) or atomic_swap(0) gives the word back.
AtomicSet(s) ==
  /\ CanIssue(s, "claim") /\ s \in held
  /\ Post(s, "set", 0) \/ Fetch(s, "set", 0)
  /\ held' = held \ {s}
  /\ UNCHANGED <<given, tickets, own>> /\ Elsewhere

\* How s changes its bit: sets it with or, clears it with and, flips it with xor.
Mask(s, o) == IF o = "and" THEN Modulus - 1 - Pow2[s] ELSE Pow2[s]
After(b, o) == CASE o = "or" -> 1 [] o = "and" -> 0 [] o = "xor" -> 1 - b

\* atomic_or, atomic_and, atomic_xor and those that fetch; two that are on
\* their way at once could change places, so that a quiet is between them.
AtomicBit(s, o) ==
  /\ CanIssue(s, "bits") /\ ~ open[s]
  /\ Post(s, o, Mask(s, o)) \/ Fetch(s, o, Mask(s, o))
  /\ own' = [own EXCEPT ![s] = After(@, o)]
  /\ UNCHANGED <<given, tickets, held>> /\ Elsewhere

\* Mutant of Quiet: it does not complete what s has issued.
QuietUndrained(s) ==
  /\ open[s]
  /\ open' = [open EXCEPT ![s] = FALSE]
  /\ UNCHANGED <<kind, word, updates, flag, mark, puts, ops, round, given, tickets, held, own, home>>

\* ctx.quiet(()): it returns when all that s has issued is complete.
Quiet(s) ==
  /\ open[s] /\ \A m \in updates \cup puts : m.src # s
  /\ open' = [open EXCEPT ![s] = FALSE]
  /\ UNCHANGED <<kind, word, updates, flag, mark, puts, ops, round, given, tickets, held, own, home>>

\* A put of the value v to the first n elements of the array of s.
Put(s, n, v) == {[src |-> s, at |-> i, val |-> v] : i \in 0..n - 1}

\* Mutant of Raise: one element too few is put.
RaiseShort(s) ==
  /\ round[s] < Rounds /\ ~ open[s]
  /\ round' = [round EXCEPT ![s] = @ + 1]
  /\ puts' = puts \cup Put(s, Slice[round'[s]] - 1, round'[s])
  /\ open' = [open EXCEPT ![s] = TRUE]
  /\ UNCHANGED <<kind, word, updates, flag, mark, ops, given, tickets, held, own, home>>

\* write_from of a slice with the next number to the array of s, after a quiet.
Raise(s) ==
  /\ round[s] < Rounds /\ ~ open[s]
  /\ round' = [round EXCEPT ![s] = @ + 1]
  /\ puts' = puts \cup Put(s, Slice[round'[s]], round'[s])
  /\ open' = [open EXCEPT ![s] = TRUE]
  /\ UNCHANGED <<kind, word, updates, flag, mark, ops, given, tickets, held, own, home>>

\* A store of the same number to the single value of s, through the pointer
\* of try_ptr: ahead of the slice, or behind it.
Mark(s) ==
  /\ mark[s] # round[s]
  /\ mark' = [mark EXCEPT ![s] = round[s]]
  /\ UNCHANGED <<kind, flag, puts, round, work, home>>

\* An atomic, or an element of a slice, arrives at the home.
DeliverUpdate(m) ==
  /\ m \in updates
  /\ word' = Applied(m.op, m.arg, word)
  /\ updates' = updates \ {m}
  /\ UNCHANGED <<kind, flag, mark, puts, round, ops, open, given, tickets, held, own, home>>

DeliverFlag(f) ==
  /\ f \in puts
  /\ flag' = [flag EXCEPT ![f.src][f.at] = f.val]
  /\ puts' = puts \ {f}
  /\ UNCHANGED <<kind, mark, round, work, home>>

-----------------------------------------------------------------------------

\* The elements of an array that meet the condition of the wait w.
Ready(w) == {i \in Element : Holds(flag[w.of][i], w.op, w.x)}

\* The home calls one of the waits, on the array of a sender or (until) its single value.
EnterWait(w) ==
  /\ ~ waiting /\ waiting' = TRUE
  /\ wait' = w /\ woken' = <<>>
  /\ UNCHANGED <<kind, flag, mark, puts, round, work>>

\* A wait returns, and the home reads what it has been told of.
Wake(variant, values) ==
  /\ waiting /\ waiting' = FALSE
  /\ wait.variant = variant
  /\ woken' = values
  /\ UNCHANGED <<kind, flag, mark, puts, round, work, wait>>

WaitUntil ==
  /\ Holds(mark[wait.of], wait.op, wait.x)
  /\ Wake("until", [i \in {0} |-> mark[wait.of]])

WaitUntilAll == Ready(wait) = Element /\ Wake("all", flag[wait.of])

\* Mutant of WaitUntilSome: the indices are not truncated to those that were written.
WaitUntilSomePadded ==
  \E S \in SUBSET Ready(wait) \ {{}} :
    Wake("some", Restrict(flag[wait.of], IF Cardinality(S) < Size THEN S \cup {0} ELSE S))

\* The vector of indices, truncated to the number of those that were ready.
WaitUntilSome ==
  \E S \in SUBSET Ready(wait) \ {{}} : Wake("some", Restrict(flag[wait.of], S))

WaitUntilAny == \E i \in Ready(wait) : Wake("any", Restrict(flag[wait.of], {i}))

-----------------------------------------------------------------------------

Step(s) ==
  \/ AtomicFetchAdd(s, 1) \/ \E plus \in {1, 2} : AtomicAdd(s, plus)
  \/ AtomicCompareSwap(s) \/ AtomicSet(s)
  \/ \E o \in {"and", "or", "xor"} : AtomicBit(s, o)
  \/ Quiet(s)
  \/ Raise(s) \/ Mark(s)

Woken == WaitUntil \/ WaitUntilAll \/ WaitUntilSome \/ WaitUntilAny

Deliver == (\E m \in updates : DeliverUpdate(m)) \/ (\E f \in puts : DeliverFlag(f))

Next ==
  \/ \E s \in Sender : Step(s)
  \/ Deliver
  \/ \E w \in Waits : EnterWait(w)
  \/ Woken

Spec == Init /\ [][Next]_vars

\* The senders go on, the network delivers and a wait looks at its box again.
Fairness == (\A s \in Sender : WF_vars(Step(s))) /\ WF_vars(Deliver) /\ WF_vars(Woken)

FairSpec == Spec /\ Fairness

-----------------------------------------------------------------------------

(***************************************************************************)
(* When a wait has told the home that a sender is ready, the flags it      *)
(* reads there meet the condition, and all that the sender has issued up   *)
(* to the round in a flag is in the word, although the flags of a slice    *)
(* arrive one by one and the single value ahead of them (wait.rs:32-47,    *)
(* lib.rs:404-413).                                                        *)
(***************************************************************************)
WokenMeansUpdates ==
  \A i \in DOMAIN woken :
    /\ Holds(woken[i], wait.op, wait.x)
    /\ \A m \in updates : m.src = wait.of => m.round >= woken[i]

(***************************************************************************)
(* No two fetching increments return the same number, whoever made them    *)
(* (macros.rs:218-231), as long as the counter has not wrapped around.     *)
(***************************************************************************)
TicketsUnique ==
  given <= Modulus => \A t, u \in tickets : t.val = u.val => t = u

(***************************************************************************)
(* No increment is lost or counted twice: the word and what is on its way  *)
(* to it amount to what was given, modulo the width (macros.rs:218-235).   *)
(***************************************************************************)
Counted ==
  kind = "count" =>
    (word + SumFunction([m \in updates |-> m.arg])) % Modulus = given % Modulus

(***************************************************************************)
(* One sender at a time has claimed the word with compare_swap, also when  *)
(* it is given back by an atomic_set that arrives late (macros.rs:211-216, *)
(* 188-192).                                                               *)
(***************************************************************************)
OneClaim == \A s, t \in held : s = t

(***************************************************************************)
(* The bit of a sender is as it has left it, whatever the others do to     *)
(* theirs (macros.rs:244-285).                                             *)
(***************************************************************************)
OwnBitKept ==
  kind = "bits" =>
    \A s \in Sender : (\A m \in updates : m.src # s) => Bit(word, s) = own[s]

\* Element i was last replaced in round r of the first n, or never if r is 0.
LastReplaced(i, r, n) ==
  /\ r \in 0..n /\ (r > 0 => i < Slice[r])
  /\ \A q \in r + 1..n : Slice[q] <= i

(***************************************************************************)
(* No flag is lost, and none is overwritten by an older one that arrives   *)
(* late: when the puts of a sender are complete, each element of its array *)
(* holds the number of the last round whose slice was long enough for it   *)
(* (lib.rs:404-413, 536-561).                                              *)
(***************************************************************************)
LatestFlag ==
  \A s \in Sender :
    (\A f \in puts : f.src # s) => \A i \in Element : LastReplaced(i, flag[s][i], round[s])

(***************************************************************************)
(* A wait for something that comes to hold, and keeps holding, of the      *)
(* flags returns (macros.rs:139-171).                                      *)
(***************************************************************************)
WaitReturns == waiting ~> ~ waiting

=============================================================================
