------------------------- MODULE CtxLifecycle_proofs -------------------------
(***************************************************************************)
(* A process whose threads start after the first init has returned has one *)
(* ShmemCtx in its life, whatever its threads do.                          *)
(***************************************************************************)
EXTENDS CtxLifecycle, TLAPS

(***************************************************************************)
(* The check and the flag of init are not atomic.  They work because only  *)
(* First runs before the flag is set: it alone gets past the check, with   *)
(* the library cold, and the context it makes is the last.                 *)
(***************************************************************************)
Uncompleted ==
  ~ completed =>
    /\ live = {} /\ started \subseteq {First}
    /\ pc[First] # "once" => library = "cold"

Past ==
  \A t \in Thread :
    /\ pc[t] \in {"check", "init", "once"} => t \in started
    /\ pc[t] \in {"init", "once"} => ~ completed
    /\ pc[t] = "once" => library = "live"

Uses ==
  /\ live \subseteq {First}
  /\ live # {} => library = "live"
  /\ \A t \in Thread : pc[t] = "routine" => uses[t] \in live

IInv == TypeOK /\ Uncompleted /\ Past /\ Uses

LEMMA IInvInit == ~ Concurrent /\ Init => IInv
  BY FirstAssumption DEF Init, IInv, TypeOK, Stage, Uncompleted, Past, Uses

LEMMA IInvStep == IInv /\ [Next]_vars => IInv'
<1> SUFFICES ASSUME IInv, [Next]_vars PROVE IInv'
  OBVIOUS
<1> USE FirstAssumption DEF IInv, TypeOK, Stage, Uncompleted, Past, Uses
<1>1. ASSUME NEW t \in Thread, CallInit(t) PROVE IInv'
  BY <1>1 DEF CallInit
<1>2. ASSUME NEW t \in Thread, Check(t) PROVE IInv'
  BY <1>2 DEF Check
<1>3. ASSUME NEW t \in Thread, ShmemInit(t) PROVE IInv'
  BY <1>3 DEF ShmemInit
<1>4. ASSUME NEW t \in Thread, Once(t) PROVE IInv'
  BY <1>4 DEF Once
<1>5. ASSUME NEW t \in Thread, Spawn(t) PROVE IInv'
  BY <1>5 DEF Spawn
<1>6. ASSUME NEW t \in Thread, NEW c \in Thread, Enter(t, c) PROVE IInv'
  BY <1>6 DEF Enter
<1>7. ASSUME NEW t \in Thread, Exit(t) PROVE IInv'
  BY <1>7 DEF Exit
<1>8. ASSUME NEW c \in Thread, Drop(c) PROVE IInv'
  BY <1>8 DEF Drop
<1>9. CASE UNCHANGED vars
  BY <1>9 DEF vars
<1> QED BY <1>1, <1>2, <1>3, <1>4, <1>5, <1>6, <1>7, <1>8, <1>9 DEF Next

LEMMA Invariance == ASSUME ~ Concurrent PROVE Spec => []IInv
  BY IInvInit, IInvStep, PTL DEF Spec

(***************************************************************************)
(* There is never a second context.                                        *)
(***************************************************************************)
THEOREM OneContext == ASSUME ~ Concurrent PROVE Spec => []OnlyContext
<1>1. IInv => OnlyContext
  BY DEF IInv, Uses, OnlyContext
<1> QED BY <1>1, Invariance, PTL

(***************************************************************************)
(* Whoever holds a context finds the library live, and a routine runs in   *)
(* one that exists until it returns.                                       *)
(***************************************************************************)
THEOREM LiveThroughout == ASSUME ~ Concurrent PROVE Spec => []ContextMeansLive
<1>1. IInv => ContextMeansLive
  BY DEF IInv, Uses, ContextMeansLive
<1> QED BY <1>1, Invariance, PTL

(***************************************************************************)
(* shmem_init is called on a cold library only.                            *)
(***************************************************************************)
THEOREM InitializedOnce == ASSUME ~ Concurrent PROVE Spec => InitOnce
<1>1. ASSUME IInv, [Next]_vars
      PROVE  \A t \in Thread : pc[t] = "init" /\ pc'[t] = "once" => library = "cold"
  <2> SUFFICES ASSUME NEW t \in Thread, pc[t] = "init" PROVE library = "cold"
    OBVIOUS
  <2> QED BY <1>1, FirstAssumption DEF IInv, Past, Uncompleted
<1> QED BY <1>1, Invariance, PTL DEF Spec, InitOnce

=============================================================================
