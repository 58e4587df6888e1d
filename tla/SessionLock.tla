---------------------------- MODULE SessionLock ----------------------------
(***************************************************************************)
(* What single-terminal ownership promises (PRD sections 13 to 17, AC8):   *)
(* a session is a lock, and at most one termnote process works in it at a  *)
(* time.  The detailed protocol over the sessions row is Ownership.tla.    *)
(***************************************************************************)
CONSTANT Procs          \* the termnote processes

VARIABLE holders        \* the processes that work in the session

Init == holders = {}

\* A process enters only an empty session ...
Enter(p) == holders = {} /\ holders' = {p}

\* ... and leaves it by releasing it, by exiting or by dying.
Leave(p) == p \in holders /\ holders' = holders \ {p}

Next == \E p \in Procs : Enter(p) \/ Leave(p)

Spec == Init /\ [][Next]_holders
=============================================================================
