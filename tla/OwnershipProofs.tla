-------------------------- MODULE OwnershipProofs --------------------------
(***************************************************************************)
(* Theorems about Ownership for every set of processes, every set of       *)
(* commands and every choice of the timing constants.                      *)
(***************************************************************************)
EXTENDS Ownership, TLAPS

USE NobodyAssumption, NoIdAssumption, TimingAssumption
    DEF NobodyAssumption, NoIdAssumption, TimingAssumption

----------------------------------------------------------------------------
(* The three UPDATEs of the row keep it a row. *)

\* Each UPDATE leaves a row.
LEMMA RowUpdates ==
    ASSUME row \in RowType
    PROVE  /\ \A p \in Procs, a \in 0 .. AgeCap : OwnedRow(p, a) \in RowType
           /\ \A s \in Statuses : UnownedRow(s) \in RowType
           /\ \A s \in Statuses : RowWithStatus(s) \in RowType
           /\ \A a \in 0 .. AgeCap : [row EXCEPT !.age = a] \in RowType
           /\ Absent \in RowType
           /\ \A id \in RowIds : [Absent EXCEPT !.id = id] \in RowType
<1>1. 0 \in 0 .. AgeCap
  BY DEF AgeCap
<1>2. \A p \in Procs, a \in 0 .. AgeCap : OwnedRow(p, a) \in RowType
  BY DEF RowType, OwnedRow, Statuses
<1>3. \A s \in Statuses : UnownedRow(s) \in RowType
  BY <1>1 DEF RowType, UnownedRow
<1>4. ASSUME NEW s \in Statuses PROVE RowWithStatus(s) \in RowType
  <2>1. CASE s = "ARCHIVED"
    BY <2>1 DEF RowType, RowWithStatus, Statuses
  <2>2. CASE s = "ACTIVE"
    BY <2>2 DEF RowType, RowWithStatus, Statuses
  <2>3. CASE s # "ARCHIVED" /\ s # "ACTIVE"
    BY <2>3 DEF RowType, RowWithStatus, Statuses
  <2> QED
    BY <2>1, <2>2, <2>3
<1>5. \A a \in 0 .. AgeCap : [row EXCEPT !.age = a] \in RowType
  BY DEF RowType
<1>6. Absent \in RowType
  BY <1>1 DEF RowType, Absent, Statuses
<1>7. \A id \in RowIds : [Absent EXCEPT !.id = id] \in RowType
  BY <1>1 DEF RowType, Absent, Statuses
<1> QED
  BY <1>2, <1>3, <1>4, <1>5, <1>6, <1>7

\* Only the id of a row says whether it is there.
LEMMA UpdatesKeepId ==
    ASSUME row \in RowType
    PROVE  /\ \A p \in Procs, a \in 0 .. AgeCap :
                 /\ OwnedRow(p, a).id = row.id
                 /\ OwnedRow(p, a).owner = p
                 /\ OwnedRow(p, a).age = a
           /\ \A s \in Statuses :
                 /\ UnownedRow(s).id = row.id
                 /\ UnownedRow(s).owner = Nobody
                 /\ RowWithStatus(s).id = row.id
                 /\ RowWithStatus(s).owner = row.owner
                 /\ RowWithStatus(s).age = row.age
           /\ \A a \in 0 .. AgeCap :
                 /\ [row EXCEPT !.age = a].id = row.id
                 /\ [row EXCEPT !.age = a].owner = row.owner
                 /\ [row EXCEPT !.age = a].age = a
  BY DEF RowType, OwnedRow, UnownedRow, RowWithStatus

\* Forgetting a process keeps the memory of every process well typed.
LEMMA ForgetTypes ==
    ASSUME Types, NEW q, Forget(q)
    PROVE  /\ sid' \in [Procs -> RowIds \cup {NoId}]
           /\ holder' \in [Procs -> Procs \cup {Nobody}]
           /\ shellUp' \in [Procs -> BOOLEAN]
           /\ shellExited' \in [Procs -> BOOLEAN]
           /\ revoked' \in [Procs -> BOOLEAN]
           /\ reason' \in [Procs -> Reasons]
           /\ timer' \in [Procs -> 0 .. MaxDelay]
           /\ pending' \in [Procs -> Asleep .. MaxDelay]
<1>1. sid' \in [Procs -> RowIds \cup {NoId}]
  BY DEF Types, Forget
<1>2. holder' \in [Procs -> Procs \cup {Nobody}]
  BY DEF Types, Forget
<1>3. /\ shellUp' \in [Procs -> BOOLEAN]
      /\ shellExited' \in [Procs -> BOOLEAN]
      /\ revoked' \in [Procs -> BOOLEAN]
  BY DEF Types, Forget
<1>4. reason' \in [Procs -> Reasons]
  BY DEF Types, Forget, Reasons
<1>5. timer' \in [Procs -> 0 .. MaxDelay]
  <2>1. 0 \in 0 .. MaxDelay
    OBVIOUS
  <2> QED
    BY <2>1 DEF Types, Forget
<1>6. pending' \in [Procs -> Asleep .. MaxDelay]
  <2>1. Asleep \in Asleep .. MaxDelay
    BY DEF Asleep
  <2> QED
    BY <2>1 DEF Types, Forget
<1> QED
  BY <1>1, <1>2, <1>3, <1>4, <1>5, <1>6

----------------------------------------------------------------------------
(* Type correctness *)

\* The initial row and processes.
LEMMA TypeInit == Init => TypeOK
<1> SUFFICES ASSUME Init PROVE TypeOK
  OBVIOUS
<1>1. AgeCap \in Nat
  BY DEF AgeCap
<1>2. row \in RowType /\ (~RowPresent => row = Absent)
  <2>1. CASE row = Absent
    BY <1>1, <2>1 DEF RowType, Absent, Statuses
  <2>2. CASE row # Absent
    <3>1. PICK id \in RowIds, s \in Statuses \ {"ACTIVE"} : row = LeftRow(id, s)
      BY <2>2 DEF Init
    <3>2. row = [id |-> id, status |-> s, archived |-> (s = "ARCHIVED"),
                 owner |-> Nobody, age |-> 0]
      BY <3>1 DEF LeftRow, Absent
    <3> QED
      BY <1>1, <3>2 DEF RowType, RowPresent
  <2> QED
    BY <2>1, <2>2
<1>3. usedIds \subseteq RowIds
  BY <1>2 DEF Init, RowType
<1>4. /\ pc \in [Procs -> Phases]
      /\ sid \in [Procs -> RowIds \cup {NoId}]
      /\ holder \in [Procs -> Procs \cup {Nobody}]
      /\ detaching \in [Procs -> RowIds \cup {NoId}]
  BY DEF Init, Phases
<1>5. /\ shellUp \in [Procs -> BOOLEAN]
      /\ shellExited \in [Procs -> BOOLEAN]
      /\ revoked \in [Procs -> BOOLEAN]
      /\ reason \in [Procs -> Reasons]
  BY DEF Init, Reasons
<1>7. timer \in [Procs -> 0 .. MaxDelay]
  <2>1. 0 \in 0 .. MaxDelay
    OBVIOUS
  <2> QED
    BY <2>1 DEF Init
<1>6. admin \in [op : {"none", "archive", "restore"}, id : RowIds \cup {NoId}]
  BY DEF Init
<1>8. pending \in [Procs -> Asleep .. MaxDelay] /\ lateBy \in 0 .. MaxDelay
  <2>1. Asleep \in Asleep .. MaxDelay /\ 0 \in 0 .. MaxDelay
    BY DEF Asleep
  <2> QED
    BY <2>1 DEF Init
<1>9. BeatsOK
  BY DEF Init, BeatsOK
<1> QED
  BY <1>2, <1>3, <1>4, <1>5, <1>6, <1>7, <1>8, <1>9 DEF TypeOK, Types

\* The forced claim leaves a row, and a clock reading no older than before.
LEMMA ForceOwnerTypes ==
    ASSUME Types, NEW p \in Procs, ForceOwner(p)
    PROVE  /\ row' \in RowType /\ (row'.id = NoId => row' = Absent)
           /\ timer' \in [Procs -> 0 .. MaxDelay]
           /\ lateBy' \in 0 .. MaxDelay
<1>1. PICK lag \in 0 .. timer[p] :
         /\ timer' = [timer EXCEPT ![p] = lag]
         /\ IF RowOf(sid[p]) THEN row' = OwnedRow(p, lag) /\ lateBy' = 0
                             ELSE UNCHANGED <<row, lateBy>>
  BY DEF ForceOwner
<1>2. timer[p] \in 0 .. MaxDelay /\ lag \in 0 .. MaxDelay /\ lag \in 0 .. AgeCap
  BY DEF Types, AgeCap
<1>3. OwnedRow(p, lag) \in RowType /\ OwnedRow(p, lag).id = row.id
  BY <1>2, RowUpdates, UpdatesKeepId DEF Types
<1> QED
  BY <1>1, <1>2, <1>3 DEF Types, RowOf, RowPresent

\* So does a release.
LEMMA DisownTypes ==
    ASSUME Types, NEW id, Disown(id)
    PROVE  /\ row' \in RowType /\ (row'.id = NoId => row' = Absent)
           /\ lateBy' \in 0 .. MaxDelay
<1>1. "DETACHED" \in Statuses
  BY DEF Statuses
<1>2. UnownedRow("DETACHED") \in RowType /\ UnownedRow("DETACHED").id = row.id
  BY <1>1, RowUpdates, UpdatesKeepId DEF Types
<1> QED
  BY <1>2 DEF Disown, Types, RowOf, RowPresent

\* A beat writes a time into the row, or leaves it alone.
LEMMA BeatKeepsRow ==
    ASSUME row \in RowType, NEW p \in Procs, pending[p] \in 0 .. AgeCap,
           BeatWrites(p)
    PROVE  row' \in RowType /\ row'.id = row.id /\ row'.owner = row.owner
<1>1. PICK a \in 0 .. AgeCap : row' = row \/ row' = [row EXCEPT !.age = a]
  BY DEF BeatWrites
<1>2. CASE row' = row
  BY <1>2
<1>3. CASE row' = [row EXCEPT !.age = a]
  <2>1. [row EXCEPT !.age = a] \in RowType
    BY RowUpdates
  <2>2. [row EXCEPT !.age = a].id = row.id /\ [row EXCEPT !.age = a].owner = row.owner
    BY UpdatesKeepId
  <2> QED
    BY <1>3, <2>1, <2>2
<1> QED
  BY <1>1, <1>2, <1>3

\* Every action keeps the types.
LEMMA TypesNext == TypeOK /\ [Next]_vars => Types'
<1> SUFFICES ASSUME TypeOK, [Next]_vars PROVE Types'
  OBVIOUS
<1>ty. Types /\ BeatsOK
  BY DEF TypeOK
<1> USE <1>ty
<1> USE RowUpdates, UpdatesKeepId
<1>0. AgeCap \in Nat /\ row \in RowType /\ 0 \in 0 .. AgeCap
      /\ {"DETACHED", "ARCHIVED"} \subseteq Statuses
      /\ 0 .. MaxDelay \subseteq 0 .. AgeCap
  BY DEF AgeCap, Types, Statuses
<1>1. ASSUME NEW p \in Procs, CreateSession(p) PROVE Types'
  <2>1. PICK id \in RowIds \ usedIds :
           row' = [Absent EXCEPT !.id = id] /\ usedIds' = usedIds \cup {id}
           /\ sid' = [sid EXCEPT ![p] = id]
    BY <1>1 DEF CreateSession
  <2>2. row' \in RowType /\ row'.id # NoId
    BY <2>1, <1>0 DEF Absent
  <2> QED
    BY <1>1, <2>1, <2>2 DEF CreateSession, Types, Goto, Phases, OwningPhases,
       HeartbeatPhases, Finished, RowPresent, flags, RowType
<1>2. ASSUME NEW p \in Procs, ForceClaimNew(p) PROVE Types'
  BY <1>2, ForceOwnerTypes
     DEF ForceClaimNew, Types, Goto, Phases, OwningPhases, RowPresent, flags
<1>3. ASSUME NEW p \in Procs, ReadSession(p) PROVE Types'
  <2>1. row.id \in RowIds \cup {NoId}
    BY <1>0 DEF RowType
  <2>2. timer' \in [Procs -> 0 .. MaxDelay] /\ sid' \in [Procs -> RowIds \cup {NoId}]
    BY <1>3, <2>1 DEF ReadSession, Types
  <2> QED
    BY <1>3, <2>2 DEF ReadSession, Types, Goto, Phases, RowPresent, flags
<1>4. ASSUME NEW p \in Procs, TryClaim(p) PROVE Types'
  <2>1. row' \in RowType /\ (row'.id = NoId => row' = Absent)
    BY <1>4, <1>0 DEF TryClaim, RowOf, RowPresent, Types
  <2>2. timer' \in [Procs -> 0 .. MaxDelay]
    BY <1>4 DEF TryClaim, Types
  <2>3. pc' \in [Procs -> Phases]
    BY <1>4 DEF TryClaim, Types, Goto, Phases, OwningPhases
  <2>4. lateBy' \in 0 .. MaxDelay
    BY <1>4 DEF TryClaim, Types
  <2> QED
    BY <1>4, <2>1, <2>2, <2>3, <2>4 DEF TryClaim, Types, RowPresent, flags
<1>5. ASSUME NEW p \in Procs, RereadOwner(p) PROVE Types'
  <2>1. pc' \in [Procs -> Phases]
    <3>1. {"prompt", "panicked"} \subseteq Phases
      BY DEF Phases, Finished
    <3>2. pc' = [pc EXCEPT ![p] = "prompt"] \/ pc' = [pc EXCEPT ![p] = "panicked"]
      BY <1>5 DEF RereadOwner, Goto, Exit
    <3> QED
      BY <3>1, <3>2 DEF Types
  <2>2. CASE RowOf(sid[p]) /\ row.owner # Nobody
    <3>1. row.owner \in Procs \cup {Nobody}
      BY <1>0 DEF RowType
    <3> QED
      BY <1>5, <2>1, <2>2, <3>1 DEF RereadOwner, Types, RowPresent, flags
  <2>3. CASE ~(RowOf(sid[p]) /\ row.owner # Nobody)
    BY <1>5, <2>1, <2>3, ForgetTypes DEF RereadOwner, Types, Exit, RowPresent
  <2> QED
    BY <2>2, <2>3
<1>6. ASSUME NEW p \in Procs, DeclineTakeover(p) PROVE Types'
  BY <1>6, ForgetTypes
     DEF DeclineTakeover, Types, Goto, Exit, Phases, Finished, RowPresent
<1>7. ASSUME NEW p \in Procs, AcceptTakeover(p) PROVE Types'
  BY <1>7 DEF AcceptTakeover, Types, Goto, Phases, RowPresent, memory, flags
<1>8. ASSUME NEW p \in Procs, ForceClaim(p) PROVE Types'
  BY <1>8, ForceOwnerTypes
     DEF ForceClaim, Types, Goto, Phases, OwningPhases, RowPresent, flags
<1>9. ASSUME NEW p \in Procs, KillPrevious(p) PROVE Types'
  <2>1. pc' \in [Procs -> Phases]
    BY <1>9 DEF KillPrevious, Types, Phases, OwningPhases, Finished
  <2> QED
    BY <1>9, <2>1, ForgetTypes DEF KillPrevious, Types, RowPresent
<1>10. ASSUME NEW p \in Procs, SparePrevious(p) PROVE Types'
  BY <1>10 DEF SparePrevious, Types, Goto, Phases, OwningPhases, RowPresent, flags
<1>11. ASSUME NEW p \in Procs, StartRecorder(p) PROVE Types'
  <2>1. pending' \in [Procs -> Asleep .. MaxDelay]
    BY <1>11 DEF StartRecorder, Types, Asleep
  <2> QED
    BY <1>11, <2>1
       DEF StartRecorder, Types, Goto, Phases, OwningPhases, HeartbeatPhases,
           RowPresent, flags
<1>12. ASSUME NEW p \in Procs, StartPanics(p) PROVE Types'
  BY <1>12, ForgetTypes
     DEF StartPanics, Types, Goto, Exit, Phases, Finished, RowPresent
<1>13. ASSUME NEW p \in Procs, StartFails(p) PROVE Types'
  BY <1>13, ForgetTypes
     DEF StartFails, Types, Goto, Exit, Phases, Finished, RowPresent
<1>32. ASSUME NEW p \in Procs, BeatReads(p) PROVE Types'
  <2>1. pending' \in [Procs -> Asleep .. MaxDelay]
    BY <1>32 DEF BeatReads, Types, Asleep
  <2> QED
    BY <1>32, <2>1 DEF BeatReads, Types, RowPresent, flags
<1>33. ASSUME NEW p \in Procs, BeatFails(p) PROVE Types'
  <2>1. pending' \in [Procs -> Asleep .. MaxDelay]
    BY <1>33 DEF BeatFails, Types, Asleep
  <2> QED
    BY <1>33, <2>1 DEF BeatFails, Types, RowPresent, flags
<1>14. ASSUME NEW p \in Procs, BeatWrites(p) PROVE Types'
  <2>1. pending[p] \in 0 .. MaxDelay /\ pending[p] \in 0 .. AgeCap
    BY <1>14 DEF BeatWrites, Types, AgeCap, Asleep
  <2>2. row' \in RowType /\ (row'.id = NoId => row' = Absent)
    <3>1. row' \in RowType /\ row'.id = row.id
      BY <1>14, <2>1, <1>0, BeatKeepsRow
    <3>2. row.id = NoId => row' = row
      BY <1>14 DEF BeatWrites, RowOf, RowPresent
    <3> QED
      BY <3>1, <3>2 DEF Types, RowPresent
  <2>3. lateBy' \in 0 .. MaxDelay
    <3>1. row.owner # Nobody => row.owner \in Procs
      BY DEF Types, RowType
    <3>2. \A q \in Procs : Setback(q, pending[p]) \in 0 .. MaxDelay
      BY <2>1 DEF Setback, Types
    <3> QED
      BY <1>14, <3>1, <3>2 DEF BeatWrites, Types
  <2>4. timer' \in [Procs -> 0 .. MaxDelay] /\ pending' \in [Procs -> Asleep .. MaxDelay]
    BY <1>14, <2>1 DEF BeatWrites, Types, Asleep
  <2> QED
    BY <1>14, <2>2, <2>3, <2>4 DEF BeatWrites, Types, RowPresent, flags
<1>15. ASSUME NEW p \in Procs, WatchdogRevokes(p) PROVE Types'
  BY <1>15 DEF WatchdogRevokes, Types, RowPresent
<1>16. ASSUME NEW p \in Procs, ShellExits(p) PROVE Types'
  BY <1>16 DEF ShellExits, Types, RowPresent
<1>17. ASSUME NEW p \in Procs, OutputEof(p) PROVE Types'
  BY <1>17 DEF OutputEof, Types, RowPresent
<1>18. ASSUME NEW p \in Procs, NEW r \in Reasons, InputLoopReturns(p, r) PROVE Types'
  BY <1>18 DEF InputLoopReturns, Types, Goto, Phases, OwningPhases,
               HeartbeatPhases, RowPresent
<1>19. ASSUME NEW p \in Procs, StopWatchdog(p) PROVE Types'
  BY <1>19 DEF StopWatchdog, Types, Goto, Phases, OwningPhases,
               HeartbeatPhases, RowPresent, memory, flags
<1>20. ASSUME NEW p \in Procs, JoinPoller(p) PROVE Types'
  BY <1>20 DEF JoinPoller, Types, Goto, Phases, OwningPhases,
               HeartbeatPhases, RowPresent, memory, flags
<1>21. ASSUME NEW p \in Procs, JoinOutput(p) PROVE Types'
  BY <1>21 DEF JoinOutput, Types, Goto, Phases, OwningPhases,
               HeartbeatPhases, RowPresent, memory, flags
<1>22. ASSUME NEW p \in Procs, StopHeartbeat(p) PROVE Types'
  <2>1. pc' \in [Procs -> Phases]
    BY <1>22 DEF StopHeartbeat, Types, Goto, Exit, Phases, OwningPhases, Finished
  <2> QED
    BY <1>22, <2>1, ForgetTypes
       DEF StopHeartbeat, Types, Exit, RowPresent, memory, flags
<1>23. ASSUME NEW p \in Procs, Release(p) PROVE Types'
  BY <1>23, ForgetTypes, DisownTypes
     DEF Release, Types, Goto, Exit, Phases, Finished, RowPresent
<1>24. ASSUME NEW p \in Procs, Crash(p) PROVE Types'
  BY <1>24, ForgetTypes
     DEF Crash, Types, Goto, Exit, Phases, Finished, RowPresent
<1>25. ASSUME NEW p \in Procs, DetachReads(p) PROVE Types'
  BY <1>25 DEF DetachReads, Types, RowPresent, memory, flags
<1>26. ASSUME NEW p \in Procs, DetachReleases(p) PROVE Types'
  BY <1>26, DisownTypes DEF DetachReleases, Types, RowPresent, memory, flags
<1>27. CASE AdminReads
  <2>1. row.id \in RowIds \cup {NoId}
    BY <1>0 DEF RowType
  <2>2. admin' \in [op : {"none", "archive", "restore"}, id : RowIds \cup {NoId}]
    BY <1>27, <2>1 DEF AdminReads
  <2> QED
    BY <1>27, <2>2 DEF AdminReads, Types, RowPresent, memory, flags
<1>28. CASE AdminWrites
  <2>1. row' \in RowType /\ (row'.id = NoId => row' = Absent)
    BY <1>28, <1>0 DEF AdminWrites, RowOf, RowPresent, Types
  <2> QED
    BY <1>28, <2>1 DEF AdminWrites, Types, RowPresent, memory, flags
<1>29. CASE DeleteSession
  BY <1>29, <1>0 DEF DeleteSession, Types, RowPresent, memory, flags
<1>30. CASE Tick
  <2>1. row' \in RowType /\ (row'.id = NoId => row' = Absent)
    <3>1. row.age \in 0 .. AgeCap /\ (row.id = NoId => row.owner = Nobody)
      BY <1>0 DEF RowType, Types, RowPresent, Absent
    <3>2. CASE row.owner # Nobody /\ row.age < AgeCap
      <4>1. row.age + 1 \in 0 .. AgeCap
        BY <3>1, <3>2, <1>0
      <4>2. row' = [row EXCEPT !.age = row.age + 1]
        BY <1>30, <3>2 DEF Tick
      <4> QED
        BY <4>1, <4>2, <3>1, <3>2, <1>0
    <3>3. CASE ~(row.owner # Nobody /\ row.age < AgeCap)
      BY <1>30, <3>3, <1>0 DEF Tick, Types, RowPresent
    <3> QED
      BY <3>2, <3>3
  <2>2. timer' \in [Procs -> 0 .. MaxDelay]
    BY <1>30 DEF Tick, Types
  <2>3. ASSUME NEW q \in Procs, pending[q] >= 0
        PROVE  pending[q] + 1 \in Asleep .. MaxDelay
    <3>1. HeartbeatOn(q) /\ pending[q] <= timer[q]
      BY <2>3 DEF BeatsOK, Asleep
    <3>2. timer[q] < MaxDelay
      BY <1>30, <3>1 DEF Tick, Timed, Owning, OwningPhases, HeartbeatOn
    <3> QED
      BY <2>3, <3>1, <3>2 DEF Types, Asleep
  <2>4. pending' \in [Procs -> Asleep .. MaxDelay]
    BY <1>30, <2>3 DEF Tick, Types
  <2> QED
    BY <1>30, <2>1, <2>2, <2>4 DEF Tick, Types, RowPresent, memory, flags
<1>31. CASE UNCHANGED vars
  BY <1>31 DEF vars, flags, Types, RowPresent
<1> QED
  BY <1>1, <1>2, <1>3, <1>4, <1>5, <1>6, <1>7, <1>8, <1>9, <1>10, <1>11,
     <1>12, <1>13, <1>14, <1>15, <1>16, <1>17, <1>18, <1>19, <1>20, <1>21,
     <1>22, <1>23, <1>24, <1>25, <1>26, <1>27, <1>28, <1>29, <1>30, <1>31,
     <1>32, <1>33
     DEF Next, Claims, Records, Stops, Detaches, InputLoopStops, StdinEof, Reasons

\* Who is in a beat, and since when: a step that reads no clock for one.
LEMMA BeatsQuiet ==
    ASSUME BeatsOK,
           \A q \in Procs : pending'[q] # Asleep =>
               /\ pending'[q] = pending[q]
               /\ timer'[q] = timer[q]
               /\ HeartbeatOn(q) => pc'[q] \in HeartbeatPhases
    PROVE  BeatsOK'
  BY DEF BeatsOK, HeartbeatOn

\* The end of a process ends its beat, and touches no other.
LEMMA ExitEndsBeat ==
    ASSUME Types, NEW p \in Procs, NEW how, Exit(p, how)
    PROVE  \A q \in Procs : pending'[q] # Asleep =>
               /\ pending'[q] = pending[q]
               /\ timer'[q] = timer[q]
               /\ HeartbeatOn(q) => pc'[q] \in HeartbeatPhases
  BY DEF Exit, Goto, Forget, Types, HeartbeatOn

\* A process that is in no beat may change its phase.
LEMMA GotoKeepsBeats ==
    ASSUME Types, NEW p \in Procs, NEW phase, Goto(p, phase), pending' = pending,
           pending[p] = Asleep \/ phase \in HeartbeatPhases,
           \A q \in Procs : pending[q] # Asleep => timer'[q] = timer[q]
    PROVE  \A q \in Procs : pending'[q] # Asleep =>
               /\ pending'[q] = pending[q]
               /\ timer'[q] = timer[q]
               /\ HeartbeatOn(q) => pc'[q] \in HeartbeatPhases
  BY DEF Goto, Types, HeartbeatOn

\* Every action keeps what is known of the beats.
LEMMA BeatsNext == TypeOK /\ [Next]_vars => BeatsOK'
<1> SUFFICES ASSUME TypeOK, [Next]_vars PROVE BeatsOK'
  OBVIOUS
<1>ty. Types /\ BeatsOK
  BY DEF TypeOK
<1> USE <1>ty
<1> DEFINE Quiet == \A q \in Procs : pending'[q] # Asleep =>
                       /\ pending'[q] = pending[q]
                       /\ timer'[q] = timer[q]
                       /\ HeartbeatOn(q) => pc'[q] \in HeartbeatPhases
<1>a. \A q \in Procs : pc[q] \notin HeartbeatPhases => pending[q] = Asleep
  BY DEF BeatsOK, HeartbeatOn
<1>1. ASSUME NEW p \in Procs, Claims(p), ~KillPrevious(p), ~RereadOwner(p),
             ~DeclineTakeover(p)
      PROVE  Quiet
  <2>1. pc[p] \notin HeartbeatPhases /\ pending' = pending
        /\ \E phase : Goto(p, phase)
        /\ \A q \in Procs \ {p} : timer'[q] = timer[q]
    BY <1>1 DEF Claims, CreateSession, ForceClaimNew, ForceOwner, ReadSession,
       TryClaim, AcceptTakeover, ForceClaim, SparePrevious, HeartbeatPhases,
       memory, Types
  <2>2. pending[p] = Asleep
    BY <1>a, <2>1
  <2> QED
    BY <2>1, <2>2, GotoKeepsBeats
<1>2. ASSUME NEW p \in Procs, RereadOwner(p) PROVE Quiet
  <2>1. pc[p] \notin HeartbeatPhases
    BY <1>2 DEF RereadOwner, HeartbeatPhases
  <2>2. CASE RowOf(sid[p]) /\ row.owner # Nobody
    BY <1>2, <1>a, <2>1, <2>2, GotoKeepsBeats DEF RereadOwner
  <2>3. CASE ~(RowOf(sid[p]) /\ row.owner # Nobody)
    BY <1>2, <2>3, ExitEndsBeat DEF RereadOwner
  <2> QED
    BY <2>2, <2>3
<1>3. ASSUME NEW p \in Procs, KillPrevious(p) PROVE Quiet
  <2>1. pc[p] \notin HeartbeatPhases /\ Forget(holder[p])
        /\ pc' = [pc EXCEPT ![p] = "claimed", ![holder[p]] = "crashed"]
    BY <1>3 DEF KillPrevious, HeartbeatPhases
  <2>2. pending[p] = Asleep
    BY <1>a, <2>1
  <2> QED
    BY <2>1, <2>2 DEF Forget, Types, HeartbeatOn
<1>4. ASSUME NEW p \in Procs,
             \/ DeclineTakeover(p) \/ StartPanics(p) \/ StartFails(p)
             \/ Release(p) \/ Crash(p)
      PROVE  Quiet
  BY <1>4, ExitEndsBeat
     DEF DeclineTakeover, StartPanics, StartFails, Release, Crash
<1>5. ASSUME NEW p \in Procs, StartRecorder(p) PROVE BeatsOK'
  <2>1. /\ pending' = [pending EXCEPT ![p] = 0] /\ timer' = timer
        /\ pc' = [pc EXCEPT ![p] = "running"]
    BY <1>5 DEF StartRecorder, Goto
  <2>2. timer[p] >= 0
    BY DEF Types
  <2> QED
    BY <2>1, <2>2 DEF BeatsOK, HeartbeatOn, HeartbeatPhases, Types
<1>6. ASSUME NEW p \in Procs, BeatReads(p) PROVE BeatsOK'
  <2>1. /\ pending' = [pending EXCEPT ![p] = 0] /\ timer' = timer
        /\ pc' = pc /\ HeartbeatOn(p)
    BY <1>6 DEF BeatReads
  <2>2. timer[p] >= 0
    BY DEF Types
  <2> QED
    BY <2>1, <2>2 DEF BeatsOK, HeartbeatOn, Types
<1>7. ASSUME NEW p \in Procs, BeatWrites(p) \/ BeatFails(p) PROVE Quiet
  BY <1>7 DEF BeatWrites, BeatFails, Types, HeartbeatOn
<1>8. ASSUME NEW p \in Procs,
             \/ WatchdogRevokes(p) \/ ShellExits(p) \/ OutputEof(p)
             \/ Detaches(p)
      PROVE  Quiet
  BY <1>8 DEF WatchdogRevokes, ShellExits, OutputEof, Detaches, DetachReads,
              DetachReleases, memory, HeartbeatOn
<1>9. ASSUME NEW p \in Procs, NEW phase \in HeartbeatPhases, Goto(p, phase),
             pending' = pending, timer' = timer
      PROVE  Quiet
  BY <1>9, GotoKeepsBeats
<1>10. ASSUME NEW p \in Procs,
              \/ InputLoopStops(p) \/ StdinEof(p) \/ StopWatchdog(p)
              \/ JoinPoller(p) \/ JoinOutput(p)
       PROVE  Quiet
  <2>1. /\ \E phase \in HeartbeatPhases : Goto(p, phase)
        /\ pending' = pending /\ timer' = timer
    BY <1>10 DEF InputLoopStops, StdinEof, InputLoopReturns, StopWatchdog,
       JoinPoller, JoinOutput, HeartbeatPhases, memory
  <2> QED
    BY <1>9, <2>1
<1>11. ASSUME NEW p \in Procs, StopHeartbeat(p) PROVE Quiet
  <2>1. CASE reason[p] = "OwnershipRevoked"
    BY <1>11, <2>1, ExitEndsBeat DEF StopHeartbeat
  <2>2. CASE reason[p] # "OwnershipRevoked"
    BY <1>11, <2>2, GotoKeepsBeats DEF StopHeartbeat, memory
  <2> QED
    BY <2>1, <2>2
<1>12. CASE Tick
  <2>1. \A q \in Procs : HeartbeatOn(q) => timer'[q] = timer[q] + 1
    BY <1>12 DEF Tick, Timed, Owning, OwningPhases, HeartbeatOn
  <2>2. \A q \in Procs : pending[q] # Asleep => pending'[q] = pending[q] + 1
    BY <1>12 DEF Tick, Types, Asleep
  <2>3. \A q \in Procs : pending[q] = Asleep => pending'[q] = Asleep
    BY <1>12 DEF Tick, Asleep
  <2>4. pc' = pc
    BY <1>12 DEF Tick
  <2>5. \A q \in Procs : pending[q] \in Int /\ timer[q] \in Int
    BY DEF Types, Asleep
  <2> QED
    BY <2>1, <2>2, <2>3, <2>4, <2>5 DEF BeatsOK, HeartbeatOn
<1>13. CASE AdminReads \/ AdminWrites \/ DeleteSession \/ UNCHANGED vars
  <2>1. pending' = pending /\ timer' = timer /\ pc' = pc
    BY <1>13 DEF AdminReads, AdminWrites, DeleteSession, memory, vars
  <2> QED
    BY <2>1, BeatsQuiet DEF HeartbeatOn
<1>14. Quiet => BeatsOK'
  BY BeatsQuiet
<1>15. ASSUME NEW p \in Procs, Claims(p) PROVE BeatsOK'
  BY <1>1, <1>2, <1>3, <1>4, <1>14, <1>15
<1>16. ASSUME NEW p \in Procs, Records(p) PROVE BeatsOK'
  BY <1>4, <1>5, <1>6, <1>7, <1>8, <1>10, <1>14, <1>16 DEF Records
<1>17. ASSUME NEW p \in Procs, Stops(p) PROVE BeatsOK'
  BY <1>4, <1>10, <1>11, <1>14, <1>17 DEF Stops
<1> QED
  BY <1>8, <1>12, <1>13, <1>14, <1>15, <1>16, <1>17 DEF Next

\* Every action keeps TypeOK.
LEMMA TypeNext == TypeOK /\ [Next]_vars => TypeOK'
  BY TypesNext, BeatsNext DEF TypeOK

\* Every reachable state is well typed, and an absent row is blank: no UPDATE
\* of the code resurrects a deleted session.
THEOREM TypeCorrect == Spec => []TypeOK
  BY TypeInit, TypeNext, PTL DEF Spec
----------------------------------------------------------------------------
(* Fresh heartbeats: no session is stolen from a punctual process *)

\* A step that hands the row to nobody new, moves no heartbeat forward and
\* turns no process into a worker.
LEMMA QuietStep ==
    ASSUME TypeOK', OwnerStaysFresh,
           row'.owner # Nobody => /\ row'.owner = row.owner
                                  /\ row'.id = row.id
                                  /\ row'.age <= row.age
                                  /\ lateBy' = lateBy,
           TypeOK,
           \A q \in Procs : pc'[q] \in OwningPhases =>
               /\ pc[q] \in OwningPhases
               /\ timer[q] <= timer'[q]
               /\ sid'[q] = sid[q],
           \A q \in Procs : pc[q] \in ClaimedPhases => pc'[q] \in ClaimedPhases
    PROVE  OwnerStaysFresh'
<1> SUFFICES ASSUME NEW q \in Procs, row'.owner = q
             PROVE  /\ pc'[q] \in ClaimedPhases
                    /\ pc'[q] \in OwningPhases =>
                          /\ row'.id # NoId /\ row'.id = sid'[q]
                          /\ row'.age <= timer'[q] + lateBy'
  BY DEF OwnerStaysFresh, Owning, RowOf, RowPresent
<1>1. /\ row.owner = q /\ row'.id = row.id /\ row'.age <= row.age
      /\ lateBy' = lateBy
  OBVIOUS
<1>2. pc'[q] \in ClaimedPhases
  BY <1>1 DEF OwnerStaysFresh
<1>3. ASSUME pc'[q] \in OwningPhases
      PROVE  /\ row'.id # NoId /\ row'.id = sid'[q]
             /\ row'.age <= timer'[q] + lateBy'
  <2>1. row.id # NoId /\ row.id = sid[q] /\ row.age <= timer[q] + lateBy
    BY <1>1, <1>3 DEF OwnerStaysFresh, Owning, RowOf, RowPresent
  <2>2. /\ row.age \in Int /\ row'.age \in Int
        /\ timer[q] \in Int /\ timer'[q] \in Int /\ lateBy \in Int
    BY DEF TypeOK, Types, RowType, AgeCap
  <2> QED
    BY <1>1, <1>3, <2>1, <2>2
<1> QED
  BY <1>2, <1>3

\* The end of a process is a quiet step.
LEMMA ExitIsQuiet ==
    ASSUME TypeOK, NEW p \in Procs, NEW how \in Finished, Exit(p, how)
    PROVE  /\ \A q \in Procs : pc'[q] \in OwningPhases =>
                  /\ pc[q] \in OwningPhases
                  /\ timer[q] <= timer'[q]
                  /\ sid'[q] = sid[q]
           /\ \A q \in Procs : pc[q] \in ClaimedPhases => pc'[q] \in ClaimedPhases
<1>1. Finished \cap OwningPhases = {} /\ Finished \subseteq ClaimedPhases
  BY DEF Finished, OwningPhases, HeartbeatPhases, ClaimedPhases
<1>2. \A q \in Procs : timer[q] <= timer[q]
  BY DEF TypeOK, Types
<1> QED
  BY <1>1, <1>2 DEF Exit, Goto, Forget, TypeOK, Types

\* So is a step of one process that neither claims nor ends.
LEMMA GotoIsQuiet ==
    ASSUME TypeOK, NEW p \in Procs, NEW phase \in Phases, Goto(p, phase),
           \/ phase \notin ClaimedPhases /\ pc[p] \notin ClaimedPhases
           \/ phase \in OwningPhases /\ pc[p] \in OwningPhases,
           sid' = sid, \A q \in Procs : timer[q] <= timer'[q]
    PROVE  /\ \A q \in Procs : pc'[q] \in OwningPhases =>
                  /\ pc[q] \in OwningPhases
                  /\ timer[q] <= timer'[q]
                  /\ sid'[q] = sid[q]
           /\ \A q \in Procs : pc[q] \in ClaimedPhases => pc'[q] \in ClaimedPhases
  BY DEF Goto, ClaimedPhases, TypeOK, Types
\* No step makes a heartbeat look older than its owner's last beat.
LEMMA FreshNext == TypeOK /\ OwnerStaysFresh /\ [Next]_vars => OwnerStaysFresh'
<1> SUFFICES ASSUME TypeOK, OwnerStaysFresh, [Next]_vars PROVE OwnerStaysFresh'
  OBVIOUS
<1>t. TypeOK'
  BY TypeNext
<1>a. /\ row.age \in 0 .. AgeCap /\ row.age <= row.age /\ AgeCap \in Nat
      /\ \A q \in Procs : timer[q] \in 0 .. MaxDelay /\ timer[q] <= timer[q]
      /\ row \in RowType /\ 0 \in 0 .. AgeCap
      /\ 0 .. MaxDelay \subseteq 0 .. AgeCap
      /\ lateBy \in Nat /\ lateBy' \in Nat
  BY <1>t DEF TypeOK, Types, RowType, AgeCap
<1> USE <1>t, <1>a
<1>1. ASSUME NEW p \in Procs, CreateSession(p) PROVE OwnerStaysFresh'
  <2>1. row'.owner = Nobody
    BY <1>1 DEF CreateSession, Absent
  <2> QED
    BY <2>1 DEF OwnerStaysFresh
<1>32. ASSUME NEW p \in Procs, NEW phase \in OwningPhases, ForceOwner(p),
              Goto(p, phase), pc[p] \notin ClaimedPhases, sid' = sid
       PROVE  OwnerStaysFresh'
  <2>1. PICK lag \in 0 .. timer[p] :
           /\ timer' = [timer EXCEPT ![p] = lag]
           /\ IF RowOf(sid[p]) THEN row' = OwnedRow(p, lag) /\ lateBy' = 0
                               ELSE UNCHANGED <<row, lateBy>>
    BY <1>32 DEF ForceOwner
  <2>2. timer'[p] = lag /\ lag \in 0 .. AgeCap
    BY <2>1 DEF TypeOK, Types
  <2>3. CASE RowOf(sid[p])
    <3>1. row'.owner = p /\ row'.age = lag /\ row'.id = row.id
      BY <2>1, <2>2, <2>3, UpdatesKeepId
    <3>2. row'.id # NoId /\ row'.id = sid'[p]
      BY <1>32, <2>3, <3>1 DEF RowOf, RowPresent
    <3>3. pc'[p] \in ClaimedPhases
      BY <1>32 DEF ClaimedPhases, Goto, TypeOK, Types
    <3>4. row'.age <= timer'[p] + lateBy'
      BY <2>2, <3>1
    <3> QED
      BY <3>1, <3>2, <3>3, <3>4 DEF OwnerStaysFresh, RowOf, RowPresent
  <2>4. CASE ~RowOf(sid[p])
    <3>1. row' = row /\ lateBy' = lateBy /\ row.owner # p
      BY <1>32, <2>1, <2>4 DEF OwnerStaysFresh
    <3>2. ASSUME NEW q \in Procs, row'.owner = q
          PROVE  /\ pc'[q] = pc[q] /\ timer'[q] = timer[q] /\ sid'[q] = sid[q]
      BY <1>32, <2>1, <3>1, <3>2 DEF Goto, TypeOK, Types
    <3> QED
      BY <3>1, <3>2 DEF OwnerStaysFresh, Owning, RowOf, RowPresent
  <2> QED
    BY <2>3, <2>4
<1>2. ASSUME NEW p \in Procs, ForceClaimNew(p) PROVE OwnerStaysFresh'
  <2>1. pc[p] \notin ClaimedPhases /\ "claimed" \in OwningPhases
    BY <1>2 DEF ForceClaimNew, ClaimedPhases, OwningPhases, HeartbeatPhases, Finished
  <2> QED
    BY <1>2, <1>32, <2>1 DEF ForceClaimNew
<1>8. ASSUME NEW p \in Procs, ForceClaim(p) PROVE OwnerStaysFresh'
  <2>1. pc[p] \notin ClaimedPhases /\ "killing" \in OwningPhases
    BY <1>8 DEF ForceClaim, ClaimedPhases, OwningPhases, HeartbeatPhases, Finished
  <2> QED
    BY <1>8, <1>32, <2>1 DEF ForceClaim
<1>4. ASSUME NEW p \in Procs, TryClaim(p) PROVE OwnerStaysFresh'
  <2>1. pc[p] \notin ClaimedPhases
    BY <1>4 DEF TryClaim, ClaimedPhases, OwningPhases, HeartbeatPhases, Finished
  <2>2. CASE RowOf(sid[p]) /\ Claimable(timer[p])
    <3>1. row' = OwnedRow(p, timer[p]) /\ pc' = [pc EXCEPT ![p] = "claimed"]
          /\ timer' = timer /\ sid' = sid /\ lateBy' = 0
      BY <1>4, <2>2 DEF TryClaim, Goto
    <3>2. row'.owner = p /\ row'.age = timer'[p] /\ row'.id = row.id
      BY <3>1, UpdatesKeepId
    <3>3. /\ pc'[p] \in ClaimedPhases /\ RowOf(sid[p])'
          /\ row'.age <= timer'[p] + lateBy'
      BY <2>2, <3>1, <3>2 DEF ClaimedPhases, OwningPhases, TypeOK, Types, RowOf, RowPresent
    <3> QED
      BY <3>1, <3>2, <3>3 DEF OwnerStaysFresh
  <2>3. CASE ~(RowOf(sid[p]) /\ Claimable(timer[p]))
    <3>1. row' = row /\ pc' = [pc EXCEPT ![p] = "reread"] /\ sid' = sid
          /\ timer' = [timer EXCEPT ![p] = 0] /\ lateBy' = lateBy
      BY <1>4, <2>3 DEF TryClaim, Goto
    <3>2. row.owner # p
      BY <2>1 DEF OwnerStaysFresh
    <3> QED
      BY <3>1, <3>2 DEF OwnerStaysFresh, Owning, RowOf, RowPresent, TypeOK, Types
  <2> QED
    BY <2>2, <2>3
<1>33. ASSUME NEW p \in Procs, BeatReads(p) PROVE OwnerStaysFresh'
  BY <1>33, QuietStep DEF BeatReads
<1>34. ASSUME NEW p \in Procs, BeatFails(p) PROVE OwnerStaysFresh'
  BY <1>34, QuietStep DEF BeatFails
<1>14. ASSUME NEW p \in Procs, BeatWrites(p) PROVE OwnerStaysFresh'
  <2>1. /\ pc' = pc /\ sid' = sid /\ timer' = [timer EXCEPT ![p] = pending[p]]
        /\ pending[p] >= 0
    BY <1>14 DEF BeatWrites
  <2>5. pending[p] \in Asleep .. MaxDelay /\ pending[p] # Asleep
    BY <2>1 DEF TypeOK, Types, Asleep
  <2>6. HeartbeatOn(p)
    BY <2>5 DEF TypeOK, BeatsOK
  <2>2. pending[p] \in 0 .. AgeCap /\ HeartbeatOn(p)
    BY <2>1, <2>5, <2>6 DEF Asleep
  <2>3. CASE RowOf(sid[p]) /\ row.owner # Nobody
    <3>1. /\ row' = [row EXCEPT !.age = pending[p]]
          /\ lateBy' = Setback(row.owner, pending[p])
      BY <1>14, <2>3 DEF BeatWrites
    <3>2. row'.owner = row.owner /\ row'.id = row.id /\ row'.age = pending[p]
      BY <2>2, <3>1, UpdatesKeepId
    <3>3. timer'[p] = pending[p] /\ \A q \in Procs : 0 <= timer'[q]
      BY <2>1, <2>2 DEF TypeOK, Types
    <3>4. ASSUME NEW q \in Procs, row.owner = q, Owning(q)
          PROVE  row'.age <= timer'[q] + lateBy'
      <4>1. timer[q] \in Nat /\ pending[p] \in Nat
        BY <2>2 DEF TypeOK, Types
      <4>2. lateBy' \in Nat /\ pending[p] <= timer[q] + lateBy'
        BY <3>1, <3>4, <4>1 DEF Setback
      <4>3. CASE q = p
        BY <3>2, <3>3, <4>1, <4>2, <4>3
      <4>4. CASE q # p
        <5>1. timer'[q] = timer[q]
          BY <2>1, <4>4 DEF TypeOK, Types
        <5> QED
          BY <3>2, <4>2, <5>1
      <4> QED
        BY <4>3, <4>4
    <3> QED
      BY <2>1, <3>2, <3>4 DEF OwnerStaysFresh, Owning, RowOf, RowPresent
  <2>4. CASE ~(RowOf(sid[p]) /\ row.owner # Nobody)
    <3>1. row' = row /\ lateBy' = lateBy
      BY <1>14, <2>4 DEF BeatWrites
    <3>2. row.owner # p
      BY <2>2, <2>4 DEF HeartbeatOn, OwnerStaysFresh, Owning, OwningPhases
    <3>3. \A q \in Procs : row.owner = q => timer'[q] = timer[q]
      BY <2>1, <3>2 DEF TypeOK, Types
    <3> QED
      BY <2>1, <3>1, <3>3 DEF OwnerStaysFresh, Owning, RowOf, RowPresent
  <2> QED
    BY <2>3, <2>4
<1>30. CASE Tick
  <2>1. pc' = pc /\ sid' = sid /\ lateBy' = lateBy
    BY <1>30 DEF Tick, memory
  <2>2. /\ row'.owner = row.owner /\ row'.id = row.id
        /\ row'.age <= row.age + 1
    <3>1. CASE row.owner # Nobody /\ row.age < AgeCap
      <4>1. row' = [row EXCEPT !.age = row.age + 1] /\ row.age + 1 \in 0 .. AgeCap
        BY <1>30, <3>1 DEF Tick
      <4> QED
        BY <4>1, UpdatesKeepId
    <3>2. CASE ~(row.owner # Nobody /\ row.age < AgeCap)
      BY <1>30, <3>2 DEF Tick
    <3> QED
      BY <3>1, <3>2
  <2>3. \A q \in Procs : Owning(q) => timer'[q] = timer[q] + 1
    BY <1>30 DEF Tick, Timed
  <2>4. ASSUME NEW q \in Procs, row.owner = q, Owning(q)
        PROVE  row'.age <= timer'[q] + lateBy'
    <3>1. row.age <= timer[q] + lateBy
      BY <2>4 DEF OwnerStaysFresh
    <3>2. row'.age \in Int /\ timer[q] \in Int
      BY DEF TypeOK, Types, RowType
    <3> QED
      BY <2>1, <2>2, <2>3, <2>4, <3>1, <3>2
  <2> QED
    BY <2>1, <2>2, <2>4 DEF OwnerStaysFresh, Owning, RowOf, RowPresent
<1>3. ASSUME NEW p \in Procs, ReadSession(p) PROVE OwnerStaysFresh'
  <2>1. row' = row /\ lateBy' = lateBy /\ pc[p] = "idle" /\ pc' = [pc EXCEPT ![p] = "trying"]
    BY <1>3 DEF ReadSession, Goto
  <2>2. row.owner # p
    BY <2>1 DEF OwnerStaysFresh, ClaimedPhases, OwningPhases, HeartbeatPhases, Finished
  <2> QED
    BY <1>3, <2>1, <2>2
       DEF ReadSession, OwnerStaysFresh, Owning, RowOf, RowPresent, TypeOK, Types
<1>5. ASSUME NEW p \in Procs, RereadOwner(p) PROVE OwnerStaysFresh'
  <2>1. CASE RowOf(sid[p]) /\ row.owner # Nobody
    <3>1. /\ row' = row /\ lateBy' = lateBy /\ sid' = sid /\ timer' = timer
          /\ Goto(p, "prompt") /\ "prompt" \in Phases
          /\ "prompt" \notin ClaimedPhases /\ pc[p] \notin ClaimedPhases
      BY <1>5, <2>1 DEF RereadOwner, ClaimedPhases, OwningPhases, HeartbeatPhases, Finished, Phases
    <3> QED
      BY <3>1, GotoIsQuiet, QuietStep
  <2>2. CASE ~(RowOf(sid[p]) /\ row.owner # Nobody)
    <3>1. row' = row /\ lateBy' = lateBy /\ Exit(p, "panicked") /\ "panicked" \in Finished
      BY <1>5, <2>2 DEF RereadOwner, Finished
    <3> QED
      BY <3>1, ExitIsQuiet, QuietStep
  <2> QED
    BY <2>1, <2>2
<1>6. ASSUME NEW p \in Procs, DeclineTakeover(p) PROVE OwnerStaysFresh'
  <2>1. row' = row /\ lateBy' = lateBy /\ Exit(p, "done") /\ "done" \in Finished
    BY <1>6 DEF DeclineTakeover, Finished
  <2> QED
    BY <2>1, ExitIsQuiet, QuietStep
<1>7. ASSUME NEW p \in Procs, AcceptTakeover(p) PROVE OwnerStaysFresh'
  <2>1. /\ row' = row /\ lateBy' = lateBy /\ sid' = sid /\ timer' = timer
        /\ Goto(p, "forcing") /\ "forcing" \in Phases
        /\ \/ "forcing" \notin ClaimedPhases /\ pc[p] \notin ClaimedPhases
           \/ "forcing" \in OwningPhases /\ pc[p] \in OwningPhases
    BY <1>7 DEF AcceptTakeover, memory, ClaimedPhases, OwningPhases, HeartbeatPhases, Finished, Phases
  <2> QED
    BY <2>1, GotoIsQuiet, QuietStep
<1>9. ASSUME NEW p \in Procs, KillPrevious(p) PROVE OwnerStaysFresh'
  <2>1. /\ row' = row /\ lateBy' = lateBy /\ pc[p] = "killing" /\ Forget(holder[p])
        /\ pc' = [pc EXCEPT ![p] = "claimed", ![holder[p]] = "crashed"]
    BY <1>9 DEF KillPrevious
  <2>2. \A q \in Procs : pc'[q] \in OwningPhases =>
           /\ pc[q] \in OwningPhases
           /\ timer'[q] = timer[q] /\ sid'[q] = sid[q]
    BY <2>1 DEF Forget, TypeOK, Types, OwningPhases, HeartbeatPhases
  <2>3. \A q \in Procs : pc[q] \in ClaimedPhases => pc'[q] \in ClaimedPhases
    BY <2>1 DEF TypeOK, Types, ClaimedPhases, OwningPhases, Finished
  <2> QED
    BY <2>1, <2>2, <2>3, QuietStep
<1>10. ASSUME NEW p \in Procs, SparePrevious(p) PROVE OwnerStaysFresh'
  <2>1. /\ row' = row /\ lateBy' = lateBy /\ sid' = sid /\ timer' = timer
        /\ Goto(p, "claimed") /\ "claimed" \in Phases
        /\ \/ "claimed" \notin ClaimedPhases /\ pc[p] \notin ClaimedPhases
           \/ "claimed" \in OwningPhases /\ pc[p] \in OwningPhases
    BY <1>10 DEF SparePrevious, memory, ClaimedPhases, OwningPhases, HeartbeatPhases, Finished, Phases
  <2> QED
    BY <2>1, GotoIsQuiet, QuietStep
<1>11. ASSUME NEW p \in Procs, StartRecorder(p) PROVE OwnerStaysFresh'
  <2>1. /\ row' = row /\ lateBy' = lateBy /\ sid' = sid
        /\ Goto(p, "running") /\ "running" \in Phases
        /\ "running" \in OwningPhases /\ pc[p] \in OwningPhases
    BY <1>11 DEF StartRecorder, ClaimedPhases, OwningPhases, HeartbeatPhases, Finished, Phases
  <2>2. \A q \in Procs : timer[q] <= timer'[q]
    BY <1>11 DEF StartRecorder, TypeOK, Types
  <2> QED
    BY <2>1, <2>2, GotoIsQuiet, QuietStep
<1>12. ASSUME NEW p \in Procs, StartPanics(p) PROVE OwnerStaysFresh'
  <2>1. row' = row /\ lateBy' = lateBy /\ Exit(p, "panicked") /\ "panicked" \in Finished
    BY <1>12 DEF StartPanics, Finished
  <2> QED
    BY <2>1, ExitIsQuiet, QuietStep
<1>13. ASSUME NEW p \in Procs, StartFails(p) PROVE OwnerStaysFresh'
  <2>1. row' = row /\ lateBy' = lateBy /\ Exit(p, "done") /\ "done" \in Finished
    BY <1>13 DEF StartFails, Finished
  <2> QED
    BY <2>1, ExitIsQuiet, QuietStep
<1>15. ASSUME NEW p \in Procs, WatchdogRevokes(p) PROVE OwnerStaysFresh'
  BY <1>15, QuietStep DEF WatchdogRevokes
<1>16. ASSUME NEW p \in Procs, ShellExits(p) PROVE OwnerStaysFresh'
  BY <1>16, QuietStep DEF ShellExits
<1>17. ASSUME NEW p \in Procs, OutputEof(p) PROVE OwnerStaysFresh'
  BY <1>17, QuietStep DEF OutputEof
<1>18. ASSUME NEW p \in Procs, NEW r \in Reasons, InputLoopReturns(p, r)
       PROVE  OwnerStaysFresh'
  <2>1. /\ row' = row /\ lateBy' = lateBy /\ sid' = sid /\ timer' = timer
        /\ Goto(p, "stopWatchdog") /\ "stopWatchdog" \in Phases
        /\ "stopWatchdog" \in OwningPhases /\ pc[p] \in OwningPhases
    BY <1>18 DEF InputLoopReturns, ClaimedPhases, OwningPhases, HeartbeatPhases, Finished, Phases
  <2> QED
    BY <2>1, GotoIsQuiet, QuietStep
<1>19. ASSUME NEW p \in Procs, StopWatchdog(p) PROVE OwnerStaysFresh'
  <2>1. /\ row' = row /\ lateBy' = lateBy /\ sid' = sid /\ timer' = timer
        /\ Goto(p, "joinPoller") /\ "joinPoller" \in Phases
        /\ \/ "joinPoller" \notin ClaimedPhases /\ pc[p] \notin ClaimedPhases
           \/ "joinPoller" \in OwningPhases /\ pc[p] \in OwningPhases
    BY <1>19 DEF StopWatchdog, memory, ClaimedPhases, OwningPhases, HeartbeatPhases, Finished, Phases
  <2> QED
    BY <2>1, GotoIsQuiet, QuietStep
<1>20. ASSUME NEW p \in Procs, JoinPoller(p) PROVE OwnerStaysFresh'
  <2>1. /\ row' = row /\ lateBy' = lateBy /\ sid' = sid /\ timer' = timer
        /\ Goto(p, "joinOutput") /\ "joinOutput" \in Phases
        /\ \/ "joinOutput" \notin ClaimedPhases /\ pc[p] \notin ClaimedPhases
           \/ "joinOutput" \in OwningPhases /\ pc[p] \in OwningPhases
    BY <1>20 DEF JoinPoller, memory, ClaimedPhases, OwningPhases, HeartbeatPhases, Finished, Phases
  <2> QED
    BY <2>1, GotoIsQuiet, QuietStep
<1>21. ASSUME NEW p \in Procs, JoinOutput(p) PROVE OwnerStaysFresh'
  <2>1. /\ row' = row /\ lateBy' = lateBy /\ sid' = sid /\ timer' = timer
        /\ Goto(p, "stopHeartbeat") /\ "stopHeartbeat" \in Phases
        /\ \/ "stopHeartbeat" \notin ClaimedPhases /\ pc[p] \notin ClaimedPhases
           \/ "stopHeartbeat" \in OwningPhases /\ pc[p] \in OwningPhases
    BY <1>21 DEF JoinOutput, memory, ClaimedPhases, OwningPhases, HeartbeatPhases, Finished, Phases
  <2> QED
    BY <2>1, GotoIsQuiet, QuietStep
<1>22. ASSUME NEW p \in Procs, StopHeartbeat(p) PROVE OwnerStaysFresh'
  <2>1. CASE reason[p] = "OwnershipRevoked"
    <3>1. row' = row /\ lateBy' = lateBy /\ Exit(p, "done") /\ "done" \in Finished
      BY <1>22, <2>1 DEF StopHeartbeat, Finished
    <3> QED
      BY <3>1, ExitIsQuiet, QuietStep
  <2>2. CASE reason[p] # "OwnershipRevoked"
    <3>1. /\ row' = row /\ lateBy' = lateBy /\ sid' = sid /\ timer' = timer
          /\ Goto(p, "releasing") /\ "releasing" \in Phases
          /\ "releasing" \in OwningPhases /\ pc[p] \in OwningPhases
      BY <1>22, <2>2 DEF StopHeartbeat, memory, ClaimedPhases, OwningPhases, HeartbeatPhases, Finished, Phases
    <3> QED
      BY <3>1, GotoIsQuiet, QuietStep
  <2> QED
    BY <2>1, <2>2
<1>23. ASSUME NEW p \in Procs, Release(p) PROVE OwnerStaysFresh'
  <2>1. (row' = row /\ lateBy' = lateBy) \/ row'.owner = Nobody
    BY <1>23, UpdatesKeepId DEF Release, Disown, Statuses
  <2>2. Exit(p, "done") /\ "done" \in Finished
    BY <1>23 DEF Release, Finished
  <2> QED
    BY <2>1, <2>2, ExitIsQuiet, QuietStep
<1>24. ASSUME NEW p \in Procs, Crash(p) PROVE OwnerStaysFresh'
  <2>1. row' = row /\ lateBy' = lateBy /\ Exit(p, "crashed") /\ "crashed" \in Finished
    BY <1>24 DEF Crash, Finished
  <2> QED
    BY <2>1, ExitIsQuiet, QuietStep
<1>25. ASSUME NEW p \in Procs, DetachReads(p) PROVE OwnerStaysFresh'
  BY <1>25, QuietStep DEF DetachReads, memory
<1>26. ASSUME NEW p \in Procs, DetachReleases(p) PROVE OwnerStaysFresh'
  <2>1. (row' = row /\ lateBy' = lateBy) \/ row'.owner = Nobody
    BY <1>26, UpdatesKeepId DEF DetachReleases, Disown, Statuses
  <2> QED
    BY <1>26, <2>1, QuietStep DEF DetachReleases, memory
<1>27. CASE AdminReads
  BY <1>27, QuietStep DEF AdminReads, memory
<1>28. CASE AdminWrites
  <2>1. row'.owner = row.owner /\ row'.id = row.id /\ row'.age = row.age /\ lateBy' = lateBy
    BY <1>28, UpdatesKeepId DEF AdminWrites, Statuses
  <2> QED
    BY <1>28, <2>1, QuietStep DEF AdminWrites, memory
<1>29. CASE DeleteSession
  <2>1. row'.owner = Nobody
    BY <1>29 DEF DeleteSession, Absent
  <2> QED
    BY <1>29, <2>1, QuietStep DEF DeleteSession, memory
<1>31. CASE UNCHANGED vars
  BY <1>31, QuietStep DEF vars
<1> QED
  BY <1>1, <1>2, <1>3, <1>4, <1>5, <1>6, <1>7, <1>8, <1>9, <1>10, <1>11,
     <1>12, <1>13, <1>14, <1>15, <1>16, <1>17, <1>18, <1>19, <1>20, <1>21,
     <1>22, <1>23, <1>24, <1>25, <1>26, <1>27, <1>28, <1>29, <1>30, <1>31,
     <1>33, <1>34
     DEF Next, Claims, Records, Stops, Detaches, InputLoopStops, StdinEof, Reasons

\* While a process works in the session the row names, the heartbeat in the row
\* is as recent as the last that process wrote, except for the time which a beat
\* of another process, written over it since, was under way.
THEOREM FreshHeartbeat == Spec => []OwnerStaysFresh
<1>1. Init => OwnerStaysFresh
  <2> SUFFICES ASSUME Init PROVE OwnerStaysFresh
    OBVIOUS
  <2>1. row.owner = Nobody
    <3>1. Absent.owner = Nobody
      BY DEF Absent
    <3>2. \A id \in RowIds, s \in Statuses : LeftRow(id, s).owner = Nobody
      BY DEF LeftRow, Absent
    <3>3. row = Absent \/ \E id \in RowIds, s \in Statuses : row = LeftRow(id, s)
      BY DEF Init
    <3> QED
      BY <3>1, <3>2, <3>3
  <2> QED
    BY <2>1 DEF OwnerStaysFresh
<1> QED
  BY <1>1, FreshNext, TypeCorrect, PTL DEF Spec

\* try_claim takes a session from a live process only after that process has
\* been silent for more than StaleAfter ticks less the time which a beat of
\* another process, written over its own, was under way.
THEOREM NoLiveStealHolds == Spec => NoLiveSteal
<1> DEFINE Step == \A p, q \in Procs :
                     TryClaim(p) /\ row'.owner = p /\ row.owner = q /\ Owning(q)
                        => timer[q] + lateBy - timer[p] > StaleAfter
<1>1. TypeOK /\ OwnerStaysFresh => Step
  <2> SUFFICES ASSUME TypeOK, OwnerStaysFresh, NEW p \in Procs, NEW q \in Procs,
                      TryClaim(p), row'.owner = p, row.owner = q, Owning(q)
               PROVE  timer[q] + lateBy - timer[p] > StaleAfter
    OBVIOUS
  <2>1. pc[p] = "trying" /\ p # q
    BY DEF TryClaim, Owning, OwningPhases, HeartbeatPhases
  <2>2. Claimable(timer[p])
    BY <2>1 DEF TryClaim
  <2>3. row.age - timer[p] > StaleAfter
    BY <2>2 DEF Claimable
  <2>4. row.age <= timer[q] + lateBy
    BY DEF OwnerStaysFresh
  <2>5. /\ row.age \in Int /\ timer[p] \in Int /\ timer[q] \in Int
        /\ lateBy \in Int
    BY DEF TypeOK, Types, RowType
  <2> QED
    BY <2>3, <2>4, <2>5
<1>2. TypeOK /\ OwnerStaysFresh => [Step]_vars
  BY <1>1
<1> QED
  BY <1>2, TypeCorrect, FreshHeartbeat, PTL DEF NoLiveSteal
----------------------------------------------------------------------------
(* Mutual exclusion, and the abstract lock *)

\* Without forced claims and detaches a step other than a successful TryClaim
\* starts no worker, keeps a remaining worker's row in its name, and so keeps
\* WorkerIsOwner.
LEMMA NoNewWorker ==
    ASSUME WorkerIsOwner,
           \A q \in Procs : pc'[q] \in OwningPhases => pc[q] \in OwningPhases,
           \A q \in Procs : pc'[q] \notin {"forceNew", "forcing", "killing"},
           detaching' = detaching, lateBy' = 0,
           \A q \in Procs : pc'[q] \in OwningPhases /\ row'.id # NoId =>
               row.id # NoId /\ row'.owner = row.owner
    PROVE  WorkerIsOwner'
  BY DEF WorkerIsOwner, SingleOwner, Owning, RowPresent

\* A punctual worker's row is not claimable.
LEMMA WorkerBlocksClaim ==
    ASSUME TypeOK, OwnerStaysFresh, WorkerIsOwner, MaxDelay <= StaleAfter,
           NEW p \in Procs, RowOf(sid[p]), Claimable(timer[p])
    PROVE  \A q \in Procs : ~Owning(q)
<1> SUFFICES ASSUME NEW q \in Procs, Owning(q) PROVE FALSE
  OBVIOUS
<1>1. row.owner = q
  BY DEF WorkerIsOwner, RowOf
<1>2. row.age <= timer[q] + lateBy /\ lateBy = 0
  BY <1>1 DEF OwnerStaysFresh, WorkerIsOwner
<1>3. /\ row.age \in Int /\ timer[q] \in Int /\ timer[p] \in Int
      /\ timer[q] <= MaxDelay /\ 0 <= timer[p]
  BY DEF TypeOK, Types, RowType
<1>4. ~(row.age - timer[p] > StaleAfter)
  BY <1>2, <1>3
<1> QED
  BY <1>1, <1>4 DEF Claimable

\* What a step does to the set of workers, and that it keeps WorkerIsOwner.
LEMMA WorkersNext ==
    ASSUME NeverForced, TypeOK, OwnerStaysFresh, WorkerIsOwner, [Next]_vars
    PROVE  /\ WorkerIsOwner'
           /\ \/ \A q \in Procs : pc'[q] \in OwningPhases => pc[q] \in OwningPhases
              \/ \E p \in Procs : /\ \A q \in Procs : pc[q] \notin OwningPhases
                                  /\ \A q \in Procs :
                                        pc'[q] \in OwningPhases <=> q = p
<1> DEFINE Shrinks == \A q \in Procs : pc'[q] \in OwningPhases => pc[q] \in OwningPhases
<1> DEFINE Quiet == \A q \in Procs : pc'[q] \notin {"forceNew", "forcing", "killing"}
<1> DEFINE Kept == \A q \in Procs : pc'[q] \in OwningPhases /\ row'.id # NoId =>
                      row.id # NoId /\ row'.owner = row.owner
<1> DEFINE Calm == detaching' = detaching /\ lateBy' = 0
<1>a. "new" \notin Commands /\ "takeover" \notin Commands /\ "detach" \notin Commands
      /\ MaxDelay <= StaleAfter
  BY DEF NeverForced
<1>b. \A q \in Procs : pc[q] \notin {"forceNew", "forcing", "killing"}
      /\ detaching[q] = NoId
  BY DEF WorkerIsOwner
<1>d. lateBy = 0
  BY DEF WorkerIsOwner
<1>c. row \in RowType
  BY DEF TypeOK, Types
<1>4. ASSUME NEW p \in Procs, TryClaim(p)
      PROVE  /\ WorkerIsOwner'
             /\ \/ Shrinks
                \/ \E r \in Procs : /\ \A q \in Procs : pc[q] \notin OwningPhases
                                    /\ \A q \in Procs :
                                          pc'[q] \in OwningPhases <=> q = r
  <2>1. CASE RowOf(sid[p]) /\ Claimable(timer[p])
    <3>1. \A q \in Procs : pc[q] \notin OwningPhases
      BY <2>1, <1>a, WorkerBlocksClaim DEF Owning
    <3>2. row' = OwnedRow(p, timer[p]) /\ pc' = [pc EXCEPT ![p] = "claimed"]
          /\ detaching' = detaching /\ lateBy' = 0
      BY <1>4, <2>1 DEF TryClaim, Goto
    <3>3. \A q \in Procs : pc'[q] \in OwningPhases <=> q = p
      BY <3>1, <3>2 DEF TypeOK, Types, OwningPhases
    <3>4. row'.owner = p
      <4>1. timer[p] \in 0 .. AgeCap
        BY DEF TypeOK, Types, AgeCap
      <4> QED
        BY <3>2, <4>1, <1>c, UpdatesKeepId
    <3>5. Quiet
      BY <1>b, <3>2 DEF TypeOK, Types
    <3>6. WorkerIsOwner'
      BY <3>2, <3>3, <3>4, <3>5, <1>b DEF WorkerIsOwner, SingleOwner, Owning
    <3> QED
      BY <3>1, <3>3, <3>6
  <2>2. CASE ~(RowOf(sid[p]) /\ Claimable(timer[p]))
    <3>1. row' = row /\ pc' = [pc EXCEPT ![p] = "reread"] /\ Calm
      BY <1>4, <1>d, <2>2 DEF TryClaim, Goto
    <3>2. Shrinks /\ Quiet
      BY <3>1, <1>b DEF TypeOK, Types, OwningPhases, HeartbeatPhases
    <3>3. Kept
      BY <3>1, <3>2 DEF WorkerIsOwner
    <3> QED
      BY <3>1, <3>2, <3>3, NoNewWorker
  <2> QED
    BY <2>1, <2>2
<1>5. ASSUME ~\E p \in Procs : TryClaim(p)
      PROVE  Shrinks /\ Quiet /\ Calm /\ Kept
  <2>1. \A p \in Procs : /\ ~CreateSession(p) /\ ~ForceClaimNew(p)
                        /\ ~AcceptTakeover(p) /\ ~ForceClaim(p)
                        /\ ~KillPrevious(p) /\ ~SparePrevious(p)
                        /\ ~DetachReads(p) /\ ~DetachReleases(p)
    BY <1>a, <1>b
       DEF CreateSession, ForceClaimNew, AcceptTakeover, ForceClaim, KillPrevious,
           SparePrevious, DetachReads, DetachReleases
  <2>2. ASSUME NEW p \in Procs, ReadSession(p)
        PROVE  Shrinks /\ Quiet /\ Calm /\ Kept
    BY <2>2, <1>b, <1>d DEF ReadSession, Goto, TypeOK, Types, OwningPhases, HeartbeatPhases
  <2>3. ASSUME NEW p \in Procs, StartRecorder(p)
        PROVE  Shrinks /\ Quiet /\ Calm /\ Kept
    BY <2>3, <1>b, <1>d DEF StartRecorder, Goto, TypeOK, Types, OwningPhases, HeartbeatPhases
  <2>4. ASSUME NEW p \in Procs, StopWatchdog(p)
        PROVE  Shrinks /\ Quiet /\ Calm /\ Kept
    BY <2>4, <1>b, <1>d DEF StopWatchdog, Goto, TypeOK, Types, OwningPhases, HeartbeatPhases
  <2>5. ASSUME NEW p \in Procs, JoinPoller(p)
        PROVE  Shrinks /\ Quiet /\ Calm /\ Kept
    BY <2>5, <1>b, <1>d DEF JoinPoller, Goto, TypeOK, Types, OwningPhases, HeartbeatPhases
  <2>6. ASSUME NEW p \in Procs, JoinOutput(p)
        PROVE  Shrinks /\ Quiet /\ Calm /\ Kept
    BY <2>6, <1>b, <1>d DEF JoinOutput, Goto, TypeOK, Types, OwningPhases, HeartbeatPhases
  <2>7. ASSUME NEW p \in Procs, RereadOwner(p)
        PROVE  Shrinks /\ Quiet /\ Calm /\ Kept
    BY <2>7, <1>b, <1>d
       DEF RereadOwner, Goto, Exit, Finished, TypeOK, Types, OwningPhases, HeartbeatPhases
  <2>8. ASSUME NEW p \in Procs, DeclineTakeover(p)
        PROVE  Shrinks /\ Quiet /\ Calm /\ Kept
    BY <2>8, <1>b, <1>d
       DEF DeclineTakeover, Goto, Exit, Finished, TypeOK, Types, OwningPhases, HeartbeatPhases
  <2>9. ASSUME NEW p \in Procs, StartPanics(p)
        PROVE  Shrinks /\ Quiet /\ Calm /\ Kept
    BY <2>9, <1>b, <1>d
       DEF StartPanics, Goto, Exit, Finished, TypeOK, Types, OwningPhases, HeartbeatPhases
  <2>10. ASSUME NEW p \in Procs, StartFails(p)
        PROVE  Shrinks /\ Quiet /\ Calm /\ Kept
    BY <2>10, <1>b, <1>d
       DEF StartFails, Goto, Exit, Finished, TypeOK, Types, OwningPhases, HeartbeatPhases
  <2>11. ASSUME NEW p \in Procs, StopHeartbeat(p)
        PROVE  Shrinks /\ Quiet /\ Calm /\ Kept
    BY <2>11, <1>b, <1>d
       DEF StopHeartbeat, Goto, Exit, Finished, TypeOK, Types, OwningPhases, HeartbeatPhases
  <2>12. ASSUME NEW p \in Procs, Crash(p)
        PROVE  Shrinks /\ Quiet /\ Calm /\ Kept
    BY <2>12, <1>b, <1>d
       DEF Crash, Goto, Exit, Finished, TypeOK, Types, OwningPhases, HeartbeatPhases
  <2>13. ASSUME NEW p \in Procs, WatchdogRevokes(p)
        PROVE  Shrinks /\ Quiet /\ Calm /\ Kept
    BY <2>13, <1>b, <1>d DEF WatchdogRevokes
  <2>14. ASSUME NEW p \in Procs, ShellExits(p)
        PROVE  Shrinks /\ Quiet /\ Calm /\ Kept
    BY <2>14, <1>b, <1>d DEF ShellExits
  <2>15. ASSUME NEW p \in Procs, OutputEof(p)
        PROVE  Shrinks /\ Quiet /\ Calm /\ Kept
    BY <2>15, <1>b, <1>d DEF OutputEof
  <2>16. ASSUME NEW p \in Procs, BeatWrites(p)
        PROVE  Shrinks /\ Quiet /\ Calm /\ Kept
    <3>1. HeartbeatOn(p) /\ pending[p] \in 0 .. AgeCap
      BY <2>16 DEF BeatWrites, TypeOK, Types, BeatsOK, Asleep, AgeCap
    <3>2. row'.owner = row.owner /\ row'.id = row.id
      BY <2>16, <3>1, <1>c, BeatKeepsRow
    <3>3. RowOf(sid[p]) => row.owner = p
      BY <3>1 DEF WorkerIsOwner, HeartbeatOn, Owning, OwningPhases, RowOf
    <3>4. pending[p] <= timer[p] /\ timer[p] \in Nat
      BY <2>16, <3>1 DEF BeatWrites, TypeOK, Types, BeatsOK, Asleep
    <3>5. Setback(p, pending[p]) = 0
      BY <3>1, <3>4 DEF Setback
    <3>6. pc' = pc /\ Calm
      BY <2>16, <1>d, <3>3, <3>5 DEF BeatWrites
    <3>7. Kept
      BY <3>2, <3>6
    <3> QED
      BY <3>6, <3>7, <1>b
  <2>24. ASSUME NEW p \in Procs, BeatReads(p) \/ BeatFails(p)
        PROVE  Shrinks /\ Quiet /\ Calm /\ Kept
    BY <2>24, <1>b, <1>d DEF BeatReads, BeatFails
  <2>17. ASSUME NEW p \in Procs, NEW r \in Reasons, InputLoopReturns(p, r)
        PROVE  Shrinks /\ Quiet /\ Calm /\ Kept
    BY <2>17, <1>b, <1>d DEF InputLoopReturns, Goto, TypeOK, Types, OwningPhases, HeartbeatPhases
  <2>18. ASSUME NEW p \in Procs, Release(p)
        PROVE  Shrinks /\ Quiet /\ Calm /\ Kept
    <3>1. pc[p] \in OwningPhases /\ pc' = [pc EXCEPT ![p] = "done"]
      BY <2>18 DEF Release, Exit, Goto, OwningPhases
    <3>2. \A q \in Procs : pc'[q] \notin OwningPhases
      BY <3>1 DEF WorkerIsOwner, SingleOwner, Owning, TypeOK, Types, OwningPhases, HeartbeatPhases
    <3> QED
      BY <2>18, <3>1, <3>2, <1>b, <1>d DEF Release, Disown, TypeOK, Types
  <2>19. CASE AdminReads
    BY <2>19, <1>b, <1>d DEF AdminReads
  <2>20. CASE AdminWrites
    <3>1. row'.owner = row.owner /\ row'.id = row.id
      BY <2>20, <1>c, UpdatesKeepId DEF AdminWrites, Statuses
    <3> QED
      BY <2>20, <3>1, <1>b, <1>d DEF AdminWrites
  <2>21. CASE DeleteSession
    <3>1. row'.id = NoId
      BY <2>21 DEF DeleteSession, Absent
    <3> QED
      BY <2>21, <3>1, <1>b, <1>d DEF DeleteSession
  <2>22. CASE Tick
    <3>1. row'.owner = row.owner /\ row'.id = row.id
      <4>1. CASE row.owner # Nobody /\ row.age < AgeCap
        <5>1. row' = [row EXCEPT !.age = row.age + 1]
          BY <2>22, <4>1 DEF Tick
        <5>2. row.age + 1 \in 0 .. AgeCap
          BY <4>1, <1>c DEF RowType, AgeCap
        <5> QED
          BY <5>1, <5>2, <1>c, UpdatesKeepId
      <4>2. CASE ~(row.owner # Nobody /\ row.age < AgeCap)
        BY <2>22, <4>2 DEF Tick
      <4> QED
        BY <4>1, <4>2
    <3> QED
      BY <2>22, <3>1, <1>b, <1>d DEF Tick
  <2>23. CASE UNCHANGED vars
    BY <2>23, <1>b, <1>d DEF vars
  <2> QED
    BY <1>5, <2>1, <2>2, <2>3, <2>4, <2>5, <2>6, <2>7, <2>8, <2>9, <2>10, <2>11, <2>12, <2>13, <2>14, <2>15, <2>16, <2>17, <2>18, <2>19, <2>20, <2>21, <2>22, <2>23, <2>24
       DEF Next, Claims, Records, Stops, Detaches, InputLoopStops, StdinEof, Reasons
<1>6. CASE \E p \in Procs : TryClaim(p)
  BY <1>4, <1>6
<1>7. CASE ~\E p \in Procs : TryClaim(p)
  BY <1>5, <1>7, NoNewWorker
<1> QED
  BY <1>6, <1>7

\* Nobody works in the session at first.
LEMMA WorkersInit == Init => WorkerIsOwner /\ \A q \in Procs : ~Owning(q)
  BY DEF Init, WorkerIsOwner, SingleOwner, Owning, OwningPhases, HeartbeatPhases

\* Under the same conditions as mutual exclusion, whoever works in the session
\* is the owner that the row names; it is what makes MutualExclusion inductive.
THEOREM WorkersOwnTheRow == NeverForced => (Spec => []WorkerIsOwner)
<1> SUFFICES ASSUME NeverForced PROVE Spec => []WorkerIsOwner
  OBVIOUS
<1>1. TypeOK /\ OwnerStaysFresh /\ WorkerIsOwner /\ [Next]_vars => WorkerIsOwner'
  BY WorkersNext
<1> QED
  BY <1>1, WorkersInit, TypeCorrect, FreshHeartbeat, PTL DEF Spec

\* Without forced claims and detaches, and with punctual processes, no two
\* processes ever work in the session together.
THEOREM MutualExclusion == NeverForced => (Spec => []SingleOwner)
<1> SUFFICES ASSUME NeverForced PROVE Spec => []SingleOwner
  OBVIOUS
<1>1. WorkerIsOwner => SingleOwner
  BY DEF WorkerIsOwner
<1> QED
  BY <1>1, WorkersOwnTheRow, PTL

\* Under the same conditions the protocol implements the abstract lock.
THEOREM ImplementsLock == NeverForced => (Spec => LockSpec)
<1> SUFFICES ASSUME NeverForced PROVE Spec => LockSpec
  OBVIOUS
<1>1. Init => Lock!Init
  BY WorkersInit DEF Lock!Init
<1>2. ASSUME TypeOK, OwnerStaysFresh, WorkerIsOwner, [Next]_vars
      PROVE  [Lock!Next]_{p \in Procs : Owning(p)}
  <2> DEFINE now == {p \in Procs : pc[p] \in OwningPhases}
  <2> DEFINE after == {p \in Procs : pc'[p] \in OwningPhases}
  <2>1. \A p, q \in now : p = q
    BY <1>2 DEF WorkerIsOwner, SingleOwner, Owning
  <2>2. CASE \A q \in Procs : pc'[q] \in OwningPhases => pc[q] \in OwningPhases
    <3>1. after \subseteq now
      BY <2>2
    <3>2. after = now \/ \E p \in Procs : p \in now /\ after = now \ {p}
      BY <2>1, <3>1
    <3> QED
      BY <3>2 DEF Lock!Next, Lock!Leave, Owning
  <2>3. CASE \E p \in Procs : /\ \A q \in Procs : pc[q] \notin OwningPhases
                              /\ \A q \in Procs : pc'[q] \in OwningPhases <=> q = p
    <3>1. PICK p \in Procs : now = {} /\ after = {p}
      BY <2>3
    <3> QED
      BY <3>1 DEF Lock!Next, Lock!Enter, Owning
  <2> QED
    BY <1>2, <2>2, <2>3, WorkersNext
<1> QED
  BY <1>1, <1>2, WorkersOwnTheRow, TypeCorrect, FreshHeartbeat, PTL
     DEF Spec, LockSpec, Lock!Spec
=============================================================================
