------------------------------ MODULE Timeline ------------------------------
(***************************************************************************)
(* What the event log promises (PRD sections 19, 75 and 76): each session  *)
(* has one append-only timeline, shared by every process that writes to    *)
(* it.  The storage operations that implement it are in EventLog.tla.      *)
(***************************************************************************)
EXTENDS Naturals, Sequences

CONSTANTS Sessions   \* session ids

VARIABLES live,     \* the sessions that have not been deleted
          log       \* log[s]: the timeline of s, oldest event first

Init ==
    /\ live = Sessions
    /\ log = [s \in Sessions |-> <<>>]

\* A new event goes to the end, under an id larger than every id in use.
AppendEvent(s, e) ==
    /\ s \in live /\ live' = live
    /\ \A t \in Sessions : \A n \in DOMAIN log[t] : log[t][n].id < e.id
    /\ log' = [log EXCEPT ![s] = Append(@, e)]

\* Nothing else happens to a timeline but its deletion as a whole.
Erase(s) ==
    /\ s \in live /\ live' = live \ {s}
    /\ log' = [log EXCEPT ![s] = <<>>]

\* The event that a step appends to s, if it appends one.
Newest(s) == log'[s][Len(log'[s])]

Next ==
    \E s \in Sessions :
        \/ log'[s] # <<>> /\ AppendEvent(s, Newest(s))
        \/ Erase(s)

Spec == Init /\ [][Next]_<<live, log>>
=============================================================================
