-------------------------------- MODULE Mutex --------------------------------
(***************************************************************************)
(* What a Shmlock promises: "So long as this struct lives, the `Shmlock`   *)
(* is locked" (src/src/shmutex.rs:13-14).  There are PEs that wait, and at *)
(* most one that holds the lock.                                           *)
(***************************************************************************)
CONSTANTS
  PE,
  None   \* nobody holds the lock

VARIABLES
  waiting,  \* the PEs inside lock()
  holder    \* the PE with the guard, or None

Init == waiting = {} /\ holder = None

Request(p) ==
  /\ p \notin waiting /\ holder # p
  /\ waiting' = waiting \cup {p}
  /\ UNCHANGED holder

Grant(p) ==
  /\ p \in waiting /\ holder = None
  /\ holder' = p
  /\ waiting' = waiting \ {p}

Release(p) ==
  /\ holder = p
  /\ holder' = None
  /\ UNCHANGED waiting

Next == \E p \in PE : Request(p) \/ Grant(p) \/ Release(p)

Spec == Init /\ [][Next]_<<waiting, holder>>
=============================================================================
