---------------------------- MODULE CtxLifecycle ----------------------------
(***************************************************************************)
(* The life of the ShmemCtx of one process: ShmemCtx::init and the         *)
(* CTX_INITIALIZED flag, the use of the library through a context, and the *)
(* context's drop (lib.rs:49, 135-154, 187-189, 459-466), called by        *)
(* several threads.  A ShmemCtx is an empty struct: any thread may call    *)
(* init, and every context is shared by reference between threads.         *)
(*                                                                         *)
(* Rust's ownership rules: a context is used through a reference and       *)
(* dropped once, when no reference is left.                                *)
(*                                                                         *)
(* External: shmem_init and shmem_finalize take the library from "cold"    *)
(* to "live" and to "final"; no other routine may be called but in "live". *)
(***************************************************************************)
EXTENDS Naturals

CONSTANTS
  Thread,      \* the threads of the process
  First,       \* the one that starts the others (main, or the ctor of src/test.rs)
  Concurrent,  \* TRUE: the others may run before First's init has returned
  None         \* no context

ASSUME FirstAssumption == First \in Thread /\ None \notin Thread
ASSUME ConcurrentAssumption == Concurrent \in BOOLEAN

VARIABLES
  completed,  \* CTX_INITIALIZED.is_completed()
  library,    \* the state of the OpenSHMEM library
  pc,         \* where a thread is in init, or in a routine of the library
  uses,       \* uses[t]: the context through which t calls a routine, or None
  live,       \* the contexts that exist, named after the threads that made them
  started     \* the threads that have been spawned

vars == <<completed, library, pc, uses, live, started>>

-----------------------------------------------------------------------------

Stage == {"idle", "check", "init", "once", "routine"}

TypeOK ==
  /\ completed \in BOOLEAN
  /\ library \in {"cold", "live", "final"}
  /\ pc \in [Thread -> Stage]
  /\ uses \in [Thread -> Thread \cup {None}]
  /\ live \subseteq Thread
  /\ started \subseteq Thread

Init ==
  /\ completed = FALSE
  /\ library = "cold"
  /\ pc = [t \in Thread |-> "idle"]
  /\ uses = [t \in Thread |-> None]
  /\ live = {}
  /\ started = IF Concurrent THEN Thread ELSE {First}

-----------------------------------------------------------------------------

\* ShmemCtx::init is called.
CallInit(t) ==
  /\ t \in started /\ pc[t] = "idle"
  /\ pc' = [pc EXCEPT ![t] = "check"]
  /\ UNCHANGED <<completed, library, uses, live, started>>

\* Mutant of Check: init is not guarded.
CheckNothing(t) ==
  /\ pc[t] = "check"
  /\ pc' = [pc EXCEPT ![t] = "init"]
  /\ UNCHANGED <<completed, library, uses, live, started>>

\* CTX_INITIALIZED.is_completed(): Err(AlreadyInitialized), or on to shmem_init.
Check(t) ==
  /\ pc[t] = "check"
  /\ pc' = [pc EXCEPT ![t] = IF completed THEN "idle" ELSE "init"]
  /\ UNCHANGED <<completed, library, uses, live, started>>

ShmemInit(t) ==
  /\ pc[t] = "init"
  /\ library' = "live"
  /\ pc' = [pc EXCEPT ![t] = "once"]
  /\ UNCHANGED <<completed, uses, live, started>>

\* Mutant of Once: the flag is not set.
OnceNothing(t) ==
  /\ pc[t] = "once"
  /\ live' = live \cup {t}
  /\ pc' = [pc EXCEPT ![t] = "idle"]
  /\ UNCHANGED <<completed, library, uses, started>>

\* call_once(|| {}), and the context is returned.
Once(t) ==
  /\ pc[t] = "once"
  /\ completed' = TRUE
  /\ live' = live \cup {t}
  /\ pc' = [pc EXCEPT ![t] = "idle"]
  /\ UNCHANGED <<library, uses, started>>

\* First spawns t, once it has its context.
Spawn(t) ==
  /\ pc[First] = "idle" /\ First \in live
  /\ t \notin started
  /\ started' = started \cup {t}
  /\ UNCHANGED <<completed, library, pc, uses, live>>

\* t calls a routine of the library by a method of context c.
Enter(t, c) ==
  /\ t \in started /\ pc[t] = "idle" /\ c \in live
  /\ pc' = [pc EXCEPT ![t] = "routine"]
  /\ uses' = [uses EXCEPT ![t] = c]
  /\ UNCHANGED <<completed, library, live, started>>

Exit(t) ==
  /\ pc[t] = "routine"
  /\ pc' = [pc EXCEPT ![t] = "idle"]
  /\ uses' = [uses EXCEPT ![t] = None]
  /\ UNCHANGED <<completed, library, live, started>>

\* Drop of context c (finalize is the same): shmem_finalize.
Drop(c) ==
  /\ c \in live /\ \A t \in Thread : uses[t] # c
  /\ live' = live \ {c}
  /\ library' = "final"
  /\ UNCHANGED <<completed, pc, uses, started>>

Next ==
  \/ \E t \in Thread :
       CallInit(t) \/ Check(t) \/ ShmemInit(t) \/ Once(t) \/ Spawn(t) \/ Exit(t)
  \/ \E t, c \in Thread : Enter(t, c)
  \/ \E c \in Thread : Drop(c)

Spec == Init /\ [][Next]_vars

-----------------------------------------------------------------------------

(***************************************************************************)
(* "Repeated instantiations will return an Error" (lib.rs:119), and so a   *)
(* context that is dropped is "THE only CTX in the program" (lib.rs:461).  *)
(***************************************************************************)
OnlyContext == \A c, d \in live : c = d

(***************************************************************************)
(* "Since we have a CTX, shmem_init has been called" (lib.rs:168), and     *)
(* shmem_finalize has not: whoever holds a context may call the library,   *)
(* and a routine that runs finds the library live until it returns.        *)
(***************************************************************************)
ContextMeansLive ==
  /\ live # {} => library = "live"
  /\ \A t \in Thread : pc[t] = "routine" => uses[t] \in live

(***************************************************************************)
(* shmem_init runs on a cold library only: not beside another one, and not *)
(* after the context has been dropped and the library finalized            *)
(* (lib.rs:145-149).                                                       *)
(***************************************************************************)
InitOnce ==
  [][\A t \in Thread : pc[t] = "init" /\ pc'[t] = "once" => library = "cold"]_vars

=============================================================================
