---------------------------- MODULE MCOwnership ----------------------------
(* Ownership on small sets of processes and session ids. *)
EXTENDS Ownership, TLC

\* Processes are interchangeable: sound for the run that checks invariants and
\* action properties only.
Symmetry == Permutations(Procs)
=============================================================================
