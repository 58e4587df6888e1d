---------------------------- MODULE MCEventLog ----------------------------
(* EventLog on two sessions, one of them with three writers. *)
EXTENDS EventLog, TLC

CONSTANTS r1, r2, c1, c2, s1, s2

MCSessionOf == [p \in {r1, r2, c1, c2} |-> IF p = c2 THEN s2 ELSE s1]
Symmetry == Permutations({r1, r2})
=============================================================================
