--------------------------- MODULE EventLogProofs ---------------------------
(***************************************************************************)
(* The numbering of the event log, for every number of sessions, processes *)
(* and events: each timeline is numbered 1, 2, 3, ... in the order of its  *)
(* event ids, because the maximum a transaction has read stays the maximum *)
(* until it commits.                                                       *)
(***************************************************************************)
EXTENDS EventLog, TLAPS

USE SessionOfAssumption, NobodyAssumption, ClosingsAssumption, MaxEventsAssumption

\* The timeline of every session is numbered from 1 to some n: GaplessTimeline
\* without the function that computes n.
Numbered ==
    \A s \in Sessions :
        /\ \E n \in Nat : Sequences(s) = 1 .. n
        /\ \A a, b \in EventsOf(s) : a < b => events[a].seq < events[b].seq

\* A sequence number is never ahead of the id, and an open transaction has room
\* for its event.
WithinBounds ==
    /\ \A id \in DOMAIN events : events[id].seq <= id
    /\ \A p \in Procs : op[p].step = "insert" => nextId <= MaxEvents

IInv == TypeOK /\ Numbered /\ WithinBounds /\ MaximumStaysRead

----------------------------------------------------------------------------
(* The operators *)

\* MAX(sequence) of a timeline numbered 1 .. n is n.
LEMMA MaxIsLength ==
    ASSUME NEW s, NEW n \in Nat, Sequences(s) = 1 .. n
    PROVE  MaxSequence(s) = n
<1>1. CASE n = 0
  <2>1. Sequences(s) = {}
    BY <1>1
  <2> QED
    BY <1>1, <2>1 DEF MaxSequence
<1>2. CASE n # 0
  <2> DEFINE P(m) == m \in Sequences(s) /\ \A k \in Sequences(s) : k <= m
  <2>1. n \in Sequences(s) /\ \A k \in Sequences(s) : k <= n
    BY <1>2
  <2>2. \A m : P(m) => m = n
    BY <2>1
  <2>3. Sequences(s) # {}
    BY <2>1
  <2>4. MaxSequence(s) = CHOOSE m \in Sequences(s) : \A k \in Sequences(s) : k <= m
    BY <2>3 DEF MaxSequence
  <2> QED
    BY <2>1, <2>2, <2>4
<1> QED
  BY <1>1, <1>2

\* The next number is at least 1 and at most the next id.
LEMMA NextSequenceBound ==
    ASSUME TypeOK, Numbered, WithinBounds, NEW s \in Sessions
    PROVE  /\ MaxSequence(s) \in Nat
           /\ NextSequence(s) \in Nat \ {0}
           /\ NextSequence(s) <= nextId
           /\ Sequences(s) = 1 .. MaxSequence(s)
<1>1. PICK n \in Nat : Sequences(s) = 1 .. n
  BY DEF Numbered
<1>2. MaxSequence(s) = n
  BY <1>1, MaxIsLength
<1>3. n < nextId
  <2>1. CASE n = 0
    BY <2>1 DEF TypeOK
  <2>2. CASE n # 0
    <3>1. n \in Sequences(s)
      BY <1>1, <2>2
    <3>2. PICK id \in DOMAIN events : events[id].seq = n
      BY <3>1 DEF Sequences, EventsOf
    <3>3. id \in 1 .. nextId - 1 /\ n <= id /\ nextId \in Int
      BY <3>2 DEF TypeOK, WithinBounds
    <3> QED
      BY <3>3
  <2> QED
    BY <2>1, <2>2
<1>4. nextId \in Nat
  BY DEF TypeOK
<1> QED
  BY <1>1, <1>2, <1>3, <1>4 DEF NextSequence

\* While the events keep their sessions and numbers, so do the timelines.
LEMMA SameTimelines ==
    ASSUME DOMAIN events' = DOMAIN events,
           \A id \in DOMAIN events : /\ events'[id].session = events[id].session
                                     /\ events'[id].seq = events[id].seq
    PROVE  /\ \A s : EventsOf(s)' = EventsOf(s)
           /\ \A s : Sequences(s)' = Sequences(s)
           /\ \A s : MaxSequence(s)' = MaxSequence(s)
<1>1. \A s : EventsOf(s)' = EventsOf(s)
  BY DEF EventsOf
<1>2. \A s : Sequences(s)' = Sequences(s)
  <2> SUFFICES ASSUME NEW s PROVE Sequences(s)' = Sequences(s)
    OBVIOUS
  <2>1. \A id \in EventsOf(s) : events'[id].seq = events[id].seq
    BY DEF EventsOf
  <2> QED
    BY <1>1, <2>1 DEF Sequences
<1>3. \A s : MaxSequence(s)' = MaxSequence(s)
  <2> DEFINE Largest(S) ==
        IF S = {} THEN 0 ELSE CHOOSE m \in S : \A n \in S : n <= m
  <2> SUFFICES ASSUME NEW s PROVE MaxSequence(s)' = MaxSequence(s)
    OBVIOUS
  <2>1. MaxSequence(s) = Largest(Sequences(s))
    BY DEF MaxSequence
  <2>2. MaxSequence(s)' = Largest(Sequences(s)')
    BY DEF MaxSequence
  <2>3. Sequences(s)' = Sequences(s)
    BY <1>2
  <2> HIDE DEF Largest
  <2> QED
    BY <2>1, <2>2, <2>3
<1> QED
  BY <1>1, <1>2, <1>3

----------------------------------------------------------------------------
(* Steps that add or remove no event *)

\* Numbered and the first half of WithinBounds.
LEMMA NumberedStays ==
    ASSUME Numbered, WithinBounds,
           DOMAIN events' = DOMAIN events,
           \A id \in DOMAIN events : /\ events'[id].session = events[id].session
                                     /\ events'[id].seq = events[id].seq
    PROVE  /\ Numbered'
           /\ \A id \in DOMAIN events' : events'[id].seq <= id
<1>1. Numbered'
  BY SameTimelines DEF Numbered, EventsOf
<1> QED
  BY <1>1 DEF WithinBounds

\* A step that opens no transaction.
LEMMA InsertsStay ==
    ASSUME IInv,
           DOMAIN events' = DOMAIN events,
           \A id \in DOMAIN events : /\ events'[id].session = events[id].session
                                     /\ events'[id].seq = events[id].seq,
           nextId' = nextId,
           \A q \in Procs : op'[q].step = "insert" =>
               op'[q] = op[q] /\ writeLock' = writeLock
    PROVE  Numbered' /\ WithinBounds' /\ MaximumStaysRead'
<1>1. Numbered' /\ \A id \in DOMAIN events' : events'[id].seq <= id
  BY NumberedStays DEF IInv
<1>2. \A q \in Procs : op'[q].step = "insert" => nextId' <= MaxEvents
  BY DEF IInv, WithinBounds
<1>3. \A q \in Procs : op'[q].step = "insert" =>
          writeLock' = q /\ op'[q].seq = NextSequence(SessionOf[q])'
  BY SameTimelines DEF IInv, MaximumStaysRead, NextSequence
<1> QED
  BY <1>1, <1>2, <1>3 DEF WithinBounds, MaximumStaysRead

\* A step that opens a transaction while nobody else is in one.
LEMMA BeginsKeeps ==
    ASSUME IInv, NEW p \in Procs, NEW type \in Types, NEW ref \in EventIdsOrNone,
           Begins(p, type, ref), UNCHANGED tables
    PROVE  /\ Numbered' /\ WithinBounds' /\ MaximumStaysRead'
           /\ writeLock' \in Procs
           /\ op' \in [Procs -> OpType]
<1> DEFINE new == [step |-> "insert", type |-> type, ref |-> ref,
                   seq |-> NextSequence(SessionOf[p])]
<1>1. op' = [op EXCEPT ![p] = new] /\ writeLock = Nobody /\ writeLock' = p
      /\ nextId <= MaxEvents
  BY DEF Begins, Becomes
<1>2. events' = events /\ nextId' = nextId
  BY DEF tables
<1>3. SessionOf[p] \in Sessions
  BY DEF Procs
<1>4. NextSequence(SessionOf[p]) \in Nat /\ NextSequence(SessionOf[p]) <= nextId
  BY <1>3, NextSequenceBound DEF IInv
<1>5. NextSequence(SessionOf[p]) \in 0 .. MaxEvents
  BY <1>1, <1>4 DEF IInv, TypeOK
<1>6. \A q \in Procs : op[q].step # "insert"
  BY <1>1 DEF IInv, MaximumStaysRead
<1>7. new \in OpType /\ op' \in [Procs -> OpType]
  BY <1>1, <1>5 DEF IInv, TypeOK, OpType
<1>8. Numbered' /\ \A id \in DOMAIN events' : events'[id].seq <= id
  BY <1>2, NumberedStays DEF IInv
<1>9. \A q \in Procs : op'[q].step = "insert" => q = p
  BY <1>1, <1>6 DEF IInv, TypeOK
<1>10. op'[p] = new
  BY <1>1 DEF IInv, TypeOK
<1>11. NextSequence(SessionOf[p])' = NextSequence(SessionOf[p])
  BY <1>2, SameTimelines DEF NextSequence
<1>12. WithinBounds'
  BY <1>1, <1>2, <1>8 DEF WithinBounds
<1>13. MaximumStaysRead'
  BY <1>1, <1>9, <1>10, <1>11 DEF MaximumStaysRead
<1> QED
  BY <1>1, <1>7, <1>8, <1>12, <1>13
----------------------------------------------------------------------------
(* Commit and delete *)

\* COMMIT of a transaction whose session still exists: the timeline of that
\* session grows by one number, the others stay.
LEMMA AppendKeeps ==
    ASSUME IInv, NEW p \in Procs, op[p].step = "insert",
           SessionOf[p] \in sessions,
           events' = WithNewEvent(p), nextId' = nextId + 1,
           \A q \in Procs : op'[q].step # "insert"
    PROVE  Numbered' /\ WithinBounds' /\ MaximumStaysRead'
<1> DEFINE s == SessionOf[p]
<1> DEFINE n == MaxSequence(s)
<1>1. s \in Sessions
  BY DEF Procs
<1>2. n \in Nat /\ n + 1 <= nextId /\ Sequences(s) = 1 .. n
  BY <1>1, NextSequenceBound DEF IInv, NextSequence
<1>3. op[p].seq = n + 1
  BY DEF IInv, MaximumStaysRead, NextSequence
<1>4. nextId \in Nat /\ nextId \notin DOMAIN events
      /\ \A id \in DOMAIN events : id \in Nat /\ id < nextId
  BY DEF IInv, TypeOK
<1>5. /\ DOMAIN events' = DOMAIN events \cup {nextId}
      /\ \A id \in DOMAIN events : events'[id] = events[id]
      /\ events'[nextId].session = s /\ events'[nextId].seq = n + 1
  BY <1>3, <1>4 DEF WithNewEvent, NewEvent
<1>6. \A t : t # s => EventsOf(t)' = EventsOf(t)
  BY <1>4, <1>5 DEF EventsOf
<1>7. EventsOf(s)' = EventsOf(s) \cup {nextId}
  BY <1>4, <1>5 DEF EventsOf
<1>8. ASSUME NEW t, t # s PROVE Sequences(t)' = Sequences(t)
  <2>1. \A id \in EventsOf(t) : events'[id].seq = events[id].seq
    BY <1>5 DEF EventsOf
  <2> QED
    BY <1>6, <1>8, <2>1 DEF Sequences
<1>9. Sequences(s)' = Sequences(s) \cup {n + 1}
  <2>1. \A id \in EventsOf(s) : events'[id].seq = events[id].seq
    BY <1>5 DEF EventsOf
  <2> QED
    BY <1>5, <1>7, <2>1 DEF Sequences
<1>10. Sequences(s)' = 1 .. n + 1
  BY <1>2, <1>9
<1>11. ASSUME NEW t \in Sessions, NEW a \in EventsOf(t)', NEW b \in EventsOf(t)', a < b
       PROVE  events'[a].seq < events'[b].seq
  <2>1. a \in DOMAIN events /\ a \in EventsOf(t)
    <3>1. a # nextId
      <4>1. b = nextId \/ b \in DOMAIN events
        BY <1>11, <1>5 DEF EventsOf
      <4>2. b \in Nat /\ b <= nextId
        BY <4>1, <1>4
      <4> QED
        BY <4>2, <1>11, <1>4
    <3> QED
      BY <3>1, <1>5, <1>6, <1>7, <1>11 DEF EventsOf
  <2>2. CASE b = nextId
    <3>1. t = s
      BY <2>2, <1>4, <1>6, <1>11 DEF EventsOf
    <3>2. events[a].seq \in 1 .. n
      BY <2>1, <3>1, <1>2 DEF Sequences
    <3> QED
      BY <2>1, <2>2, <3>2, <1>2, <1>5
  <2>3. CASE b # nextId
    <3>1. b \in DOMAIN events /\ b \in EventsOf(t)
      BY <2>3, <1>5, <1>6, <1>7, <1>11 DEF EventsOf
    <3>2. events[a].seq < events[b].seq
      BY <2>1, <3>1, <1>11 DEF IInv, Numbered
    <3> QED
      BY <2>1, <3>1, <3>2, <1>5
  <2> QED
    BY <2>2, <2>3
<1>12. ASSUME NEW t \in Sessions PROVE \E k \in Nat : Sequences(t)' = 1 .. k
  <2>1. CASE t = s
    <3>1. n + 1 \in Nat
      BY <1>2
    <3> QED
      BY <2>1, <3>1, <1>10
  <2>2. CASE t # s
    BY <2>2, <1>8 DEF IInv, Numbered
  <2> QED
    BY <2>1, <2>2
<1>13. Numbered'
  BY <1>11, <1>12 DEF Numbered
<1>14. \A id \in DOMAIN events' : events'[id].seq <= id
  BY <1>2, <1>4, <1>5 DEF IInv, WithinBounds
<1> QED
  BY <1>13, <1>14 DEF WithinBounds, MaximumStaysRead

\* DELETE of a session: its timeline is empty, the others stay.
LEMMA DeleteKeeps ==
    ASSUME IInv, NEW s \in Sessions, DeleteSession(s)
    PROVE  Numbered' /\ WithinBounds' /\ MaximumStaysRead'
<1>1. /\ DOMAIN events' = DOMAIN events \ EventsOf(s)
      /\ \A id \in DOMAIN events \ EventsOf(s) : events'[id] = events[id]
      /\ nextId' = nextId /\ op' = op /\ writeLock = Nobody
  BY DEF DeleteSession
<1>2. EventsOf(s)' = {}
  BY <1>1 DEF EventsOf
<1>3. \A t : t # s => EventsOf(t)' = EventsOf(t)
  BY <1>1 DEF EventsOf
<1>4. Sequences(s)' = 1 .. 0
  BY <1>2 DEF Sequences
<1>5. ASSUME NEW t, t # s PROVE Sequences(t)' = Sequences(t)
  <2>1. \A id \in EventsOf(t) : events'[id].seq = events[id].seq
    BY <1>1, <1>5 DEF EventsOf
  <2> QED
    BY <1>3, <1>5, <2>1 DEF Sequences
<1>6. ASSUME NEW t \in Sessions PROVE \E k \in Nat : Sequences(t)' = 1 .. k
  <2>1. CASE t = s
    BY <2>1, <1>4
  <2>2. CASE t # s
    BY <2>2, <1>5 DEF IInv, Numbered
  <2> QED
    BY <2>1, <2>2
<1>7. ASSUME NEW t \in Sessions, NEW a \in EventsOf(t)', NEW b \in EventsOf(t)', a < b
      PROVE  events'[a].seq < events'[b].seq
  <2>1. a \in EventsOf(t) /\ b \in EventsOf(t)
    BY <1>2, <1>3, <1>7
  <2>2. events'[a] = events[a] /\ events'[b] = events[b]
    BY <1>1, <1>7 DEF EventsOf
  <2> QED
    BY <2>1, <2>2, <1>7 DEF IInv, Numbered
<1>8. Numbered'
  BY <1>6, <1>7 DEF Numbered
<1>9. \A q \in Procs : op'[q].step # "insert"
  BY <1>1 DEF IInv, MaximumStaysRead
<1>10. \A id \in DOMAIN events' : events'[id].seq <= id
  BY <1>1 DEF IInv, WithinBounds
<1> QED
  BY <1>8, <1>9, <1>10 DEF WithinBounds, MaximumStaysRead
----------------------------------------------------------------------------
(* The inductive invariant *)

\* Nothing under way.
LEMMA IdleType == Idle \in OpType /\ Idle.step = "idle"
  BY DEF Idle, OpType, Types, EventIdsOrNone, NoEvent

\* A new storage operation.
LEMMA OperationType ==
    ASSUME NEW step \in {"target", "row", "close"}, NEW type \in Types,
           NEW ref \in EventIdsOrNone
    PROVE  Operation(step, type, ref) \in OpType
           /\ Operation(step, type, ref).step = step
  BY DEF Operation, OpType

\* The effect of Becomes(p, o), when o is no open transaction.
LEMMA OpBecomes ==
    ASSUME TypeOK, NEW p \in Procs, NEW o \in OpType, o.step # "insert",
           Becomes(p, o)
    PROVE  /\ op' \in [Procs -> OpType]
           /\ \A q \in Procs : op'[q].step = "insert" => q # p /\ op'[q] = op[q]
  BY DEF Becomes, TypeOK

\* The empty database.
LEMMA InitIInv == Init => IInv
<1> SUFFICES ASSUME Init PROVE IInv
  OBVIOUS
<1>1. TypeOK
  <2>1. nextId \in 1 .. MaxEvents + 1
    BY DEF Init
  <2>2. DOMAIN events = {}
    BY DEF Init
  <2>3. op \in [Procs -> OpType]
    BY IdleType DEF Init
  <2>4. open \in [Recorders -> EventIdsOrNone]
        /\ chunk \in [Recorders -> [full : BOOLEAN, command : EventIdsOrNone]]
    BY DEF Init, NoChunk, EventIdsOrNone, NoEvent
  <2> QED
    BY <2>1, <2>2, <2>3, <2>4 DEF Init, TypeOK
<1>2. DOMAIN events = {} /\ \A p \in Procs : op[p].step # "insert"
  BY DEF Init, Idle
<1>3. Numbered
  <2>1. \A s : EventsOf(s) = {}
    BY <1>2 DEF EventsOf
  <2>2. \A s : Sequences(s) = 1 .. 0
    BY <2>1 DEF Sequences
  <2> QED
    BY <2>1, <2>2 DEF Numbered
<1>4. WithinBounds /\ MaximumStaysRead
  BY <1>2 DEF WithinBounds, MaximumStaysRead
<1> QED
  BY <1>1, <1>3, <1>4 DEF IInv
\* A step of p that leaves the tables alone and opens no transaction.
LEMMA QuietStep ==
    ASSUME IInv, NEW p \in Procs, UNCHANGED tables,
           op' \in [Procs -> OpType],
           \A q \in Procs : op'[q].step = "insert" =>
               op'[q] = op[q] /\ writeLock' = writeLock,
           writeLock' \in Procs \cup {Nobody},
           open' \in [Recorders -> EventIdsOrNone],
           chunk' \in [Recorders -> [full : BOOLEAN, command : EventIdsOrNone]]
    PROVE  IInv'
<1>1. /\ events' = events /\ nextId' = nextId /\ sessions' = sessions
      /\ indexed' = indexed /\ notes' = notes /\ bookmarks' = bookmarks
  BY DEF tables
<1>2. Numbered' /\ WithinBounds' /\ MaximumStaysRead'
  BY <1>1, InsertsStay
<1>3. TypeOK'
  BY <1>1 DEF IInv, TypeOK
<1> QED
  BY <1>2, <1>3 DEF IInv

\* A step of p that opens a transaction.
LEMMA BeginStep ==
    ASSUME IInv, NEW p \in Procs, NEW type \in Types, NEW ref \in EventIdsOrNone,
           Begins(p, type, ref), UNCHANGED tables, open' = open,
           chunk' \in [Recorders -> [full : BOOLEAN, command : EventIdsOrNone]]
    PROVE  IInv'
<1>1. /\ events' = events /\ nextId' = nextId /\ sessions' = sessions
      /\ indexed' = indexed /\ notes' = notes /\ bookmarks' = bookmarks
  BY DEF tables
<1>2. /\ Numbered' /\ WithinBounds' /\ MaximumStaysRead'
      /\ writeLock' \in Procs /\ op' \in [Procs -> OpType]
  BY BeginsKeeps
<1>3. TypeOK'
  BY <1>1, <1>2 DEF IInv, TypeOK
<1> QED
  BY <1>2, <1>3 DEF IInv

\* append_event's INSERTs and COMMIT.
LEMMA CommitStep ==
    ASSUME IInv, NEW p \in Procs, Commit(p)
    PROVE  IInv'
<1>1. /\ op[p].step = "insert" /\ writeLock' = Nobody
      /\ sessions' = sessions /\ notes' = notes /\ bookmarks' = bookmarks
      /\ chunk' = chunk
  BY DEF Commit
<1>2. \A q \in Procs : op[q].step = "insert" => q = p
  BY <1>1 DEF IInv, MaximumStaysRead
<1>3. op[p] \in OpType /\ nextId \in EventIds /\ SessionOf[p] \in Sessions
  BY <1>1 DEF IInv, TypeOK, WithinBounds, EventIds, Procs
<1>4. CASE SessionOf[p] \in sessions
  <2> DEFINE next == IF op[p].type = "NOTE" \/ op[p].type \in BookmarkTypes
                     THEN Operation("row", op[p].type, RowEvent(p)) ELSE Idle
  <2>1. /\ events' = WithNewEvent(p) /\ nextId' = nextId + 1
        /\ indexed' = IF Searchable(op[p].type)
                      THEN indexed \cup {[session |-> SessionOf[p], event |-> nextId]}
                      ELSE indexed
        /\ open' = IF op[p].type = "COMMAND" THEN [open EXCEPT ![p] = nextId] ELSE open
        /\ Becomes(p, next)
    BY <1>4 DEF Commit
  <2>2. next \in OpType /\ next.step # "insert"
    <3>1. RowEvent(p) \in EventIdsOrNone /\ op[p].type \in Types
      BY <1>3 DEF RowEvent, OpType, EventIds, EventIdsOrNone
    <3> QED
      BY <3>1, IdleType, OperationType
  <2>3. op' \in [Procs -> OpType] /\ \A q \in Procs : op'[q].step # "insert"
    <3> HIDE DEF next
    <3> QED
      BY <1>2, <2>1, <2>2, OpBecomes DEF IInv
  <2>4. Numbered' /\ WithinBounds' /\ MaximumStaysRead'
    BY <1>1, <1>4, <2>1, <2>3, AppendKeeps
  <2>5. NewEvent(p) \in EventType
    <3>1. op[p].seq \in 1 .. MaxEvents
      <4>1. NextSequence(SessionOf[p]) \in Nat \ {0}
        BY <1>3, NextSequenceBound DEF IInv
      <4>2. op[p].seq = NextSequence(SessionOf[p])
        BY <1>1 DEF IInv, MaximumStaysRead
      <4>3. op[p].seq \in 0 .. MaxEvents
        BY <1>3 DEF OpType
      <4> QED
        BY <4>1, <4>2, <4>3
    <3>2. op[p].type \in Types /\ op[p].ref \in EventIdsOrNone
      BY <1>3 DEF OpType
    <3> QED
      BY <1>3, <3>1, <3>2 DEF NewEvent, EventType
  <2>6. /\ DOMAIN events' \subseteq 1 .. nextId' - 1
        /\ \A id \in DOMAIN events' : events'[id] \in EventType
    <3>1. /\ DOMAIN events' = DOMAIN events \cup {nextId}
          /\ \A id \in DOMAIN events' :
                events'[id] = IF id = nextId THEN NewEvent(p) ELSE events[id]
      BY <2>1 DEF WithNewEvent
    <3>2. DOMAIN events \subseteq 1 .. nextId - 1
          /\ \A id \in DOMAIN events : events[id] \in EventType
      BY DEF IInv, TypeOK
    <3>3. nextId \in Nat /\ 1 <= nextId
      BY <1>3 DEF EventIds
    <3>4. DOMAIN events' \subseteq 1 .. nextId' - 1
      BY <2>1, <3>1, <3>2, <3>3
    <3> QED
      BY <2>5, <3>1, <3>2, <3>4
  <2>7. nextId' \in 1 .. MaxEvents + 1
    BY <1>3, <2>1 DEF EventIds
  <2>8. indexed' \subseteq RowType
    <3>1. [session |-> SessionOf[p], event |-> nextId] \in RowType
      BY <1>3 DEF RowType
    <3> QED
      BY <2>1, <3>1 DEF IInv, TypeOK
  <2>9. open' \in [Recorders -> EventIdsOrNone]
    <3>1. nextId \in EventIdsOrNone
      BY <1>3 DEF EventIds, EventIdsOrNone
    <3> QED
      BY <2>1, <3>1 DEF IInv, TypeOK
  <2>10. TypeOK'
    BY <1>1, <2>3, <2>6, <2>7, <2>8, <2>9 DEF IInv, TypeOK
  <2> QED
    BY <2>4, <2>10 DEF IInv
<1>5. CASE SessionOf[p] \notin sessions
  <2>1. UNCHANGED tables /\ open' = open /\ Becomes(p, Idle)
    BY <1>1, <1>5 DEF Commit, tables
  <2>2. op' \in [Procs -> OpType] /\ \A q \in Procs : op'[q].step # "insert"
    BY <1>2, <2>1, OpBecomes, IdleType DEF IInv
  <2>3. open' \in [Recorders -> EventIdsOrNone]
        /\ chunk' \in [Recorders -> [full : BOOLEAN, command : EventIdsOrNone]]
    BY <1>1, <2>1 DEF IInv, TypeOK
  <2> QED
    BY <1>1, <2>1, <2>2, <2>3, QuietStep
<1> QED
  BY <1>4, <1>5

\* The second statement of create_note and create_bookmark.
LEMMA InsertRowStep ==
    ASSUME IInv, NEW p \in Procs, InsertRow(p)
    PROVE  IInv'
<1>1. /\ sessions' = sessions /\ events' = events /\ nextId' = nextId
      /\ indexed' = indexed /\ writeLock' = writeLock /\ open' = open
      /\ chunk' = chunk /\ Becomes(p, Idle)
  BY DEF InsertRow
<1>2. op' \in [Procs -> OpType]
      /\ \A q \in Procs : op'[q].step = "insert" => op'[q] = op[q]
  BY <1>1, OpBecomes, IdleType DEF IInv
<1>3. Numbered' /\ WithinBounds' /\ MaximumStaysRead'
  BY <1>1, <1>2, InsertsStay
<1>4. notes' \subseteq RowType /\ bookmarks' \subseteq RowType
  <2> DEFINE row == [session |-> SessionOf[p], event |-> op[p].ref]
  <2>1. CASE ReferencesExist(SessionOf[p], op[p].ref)
    <3>1. op[p].ref \in DOMAIN events /\ SessionOf[p] \in Sessions
      BY <2>1 DEF ReferencesExist, Procs
    <3>2. op[p].ref \in EventIds
      BY <3>1 DEF IInv, TypeOK, EventIds
    <3>3. row \in RowType
      BY <3>1, <3>2 DEF RowType
    <3>4. notes' \in {notes, notes \cup {row}}
          /\ bookmarks' \in {bookmarks, bookmarks \cup {row}}
      BY DEF InsertRow
    <3> QED
      BY <3>3, <3>4 DEF IInv, TypeOK
  <2>2. CASE ~ReferencesExist(SessionOf[p], op[p].ref)
    BY <2>2 DEF InsertRow, IInv, TypeOK
  <2> QED
    BY <2>1, <2>2
<1>5. TypeOK'
  BY <1>1, <1>2, <1>4 DEF IInv, TypeOK
<1> QED
  BY <1>3, <1>5 DEF IInv

\* close_command's UPDATE changes no sequence number.
LEMMA CloseWritesStep ==
    ASSUME IInv, NEW p \in Recorders, CloseWrites(p)
    PROVE  IInv'
<1> p \in Procs
  BY DEF Procs
<1>1. /\ sessions' = sessions /\ nextId' = nextId /\ indexed' = indexed
      /\ notes' = notes /\ bookmarks' = bookmarks /\ writeLock' = writeLock
      /\ chunk' = chunk /\ Becomes(p, Idle) /\ open' = [open EXCEPT ![p] = NoEvent]
  BY DEF CloseWrites
<1>2. PICK how \in Closings :
        events' = IF op[p].ref \in DOMAIN events
                  THEN [events EXCEPT ![op[p].ref].resolution = how] ELSE events
  BY DEF CloseWrites
<1>3. /\ DOMAIN events' = DOMAIN events
      /\ \A id \in DOMAIN events :
            \/ events'[id] = events[id]
            \/ events'[id] = [events[id] EXCEPT !.resolution = how]
  BY <1>2
<1>4. \A id \in DOMAIN events : events[id] \in EventType
  BY DEF IInv, TypeOK
<1>5. \A id \in DOMAIN events :
          /\ events'[id].session = events[id].session
          /\ events'[id].seq = events[id].seq
          /\ events'[id] \in EventType
  BY <1>3, <1>4 DEF EventType
<1>6. op' \in [Procs -> OpType]
      /\ \A q \in Procs : op'[q].step = "insert" => op'[q] = op[q]
  BY <1>1, OpBecomes, IdleType DEF IInv
<1>7. Numbered' /\ WithinBounds' /\ MaximumStaysRead'
  BY <1>1, <1>3, <1>5, <1>6, InsertsStay
<1>8. open' \in [Recorders -> EventIdsOrNone]
  BY <1>1 DEF IInv, TypeOK, EventIdsOrNone, NoEvent
<1>9. TypeOK'
  BY <1>1, <1>3, <1>5, <1>6, <1>8 DEF IInv, TypeOK
<1> QED
  BY <1>7, <1>9 DEF IInv

\* The cascading delete empties a timeline and leaves the others alone.
LEMMA DeleteStep ==
    ASSUME IInv, NEW s \in Sessions, DeleteSession(s)
    PROVE  IInv'
<1>1. Numbered' /\ WithinBounds' /\ MaximumStaysRead'
  BY DeleteKeeps
<1>2. TypeOK'
  BY DEF DeleteSession, IInv, TypeOK
<1> QED
  BY <1>1, <1>2 DEF IInv

\* The steps of the recorders and of the commands.
LEMMA RecordsStep ==
    ASSUME IInv, NEW p \in Recorders, Records(p)
    PROVE  IInv'
<1> p \in Procs
  BY DEF Procs
<1>t. /\ open \in [Recorders -> EventIdsOrNone]
      /\ chunk \in [Recorders -> [full : BOOLEAN, command : EventIdsOrNone]]
      /\ op \in [Procs -> OpType] /\ writeLock \in Procs \cup {Nobody}
  BY DEF IInv, TypeOK
<1>n. NoEvent \in EventIdsOrNone
      /\ NoChunk \in [full : BOOLEAN, command : EventIdsOrNone]
  BY DEF NoChunk, NoEvent, EventIdsOrNone
<1>y. {"SESSION", "OUTPUT", "COMMAND"} \subseteq Types
  BY DEF Types
<1>1. CASE LogLifecycle(p)
  BY <1>1, <1>t, <1>n, <1>y, BeginStep DEF LogLifecycle
<1>2. CASE ReadOutput(p)
  <2>1. chunk' \in [Recorders -> [full : BOOLEAN, command : EventIdsOrNone]]
    BY <1>2, <1>t DEF ReadOutput
  <2> QED
    BY <1>2, <1>t, <2>1, QuietStep DEF ReadOutput
<1>3. CASE LogOutput(p)
  <2>1. chunk' \in [Recorders -> [full : BOOLEAN, command : EventIdsOrNone]]
        /\ chunk[p].command \in EventIdsOrNone
    BY <1>3, <1>t, <1>n DEF LogOutput
  <2> QED
    BY <1>3, <1>y, <2>1, BeginStep DEF LogOutput
<1>4. CASE LosesOutput(p)
  <2>1. chunk' \in [Recorders -> [full : BOOLEAN, command : EventIdsOrNone]]
    BY <1>4, <1>t, <1>n DEF LosesOutput
  <2> QED
    BY <1>4, <1>t, <2>1, QuietStep DEF LosesOutput
<1>5. CASE OpenCommand(p)
  BY <1>5, <1>t, <1>n, <1>y, BeginStep DEF OpenCommand
<1>6. CASE CloseReads(p)
  <2>1. open' \in [Recorders -> EventIdsOrNone]
    BY <1>6, <1>t, <1>n DEF CloseReads
  <2>2. op' \in [Procs -> OpType]
        /\ \A q \in Procs : op'[q].step = "insert" => op'[q] = op[q]
    <3>1. CASE op' = op
      BY <3>1, <1>t
    <3>2. CASE Becomes(p, Operation("close", "COMMAND", open[p]))
      <4>1. open[p] \in EventIdsOrNone
        BY <1>t
      <4> QED
        BY <3>2, <4>1, <1>y, OperationType, OpBecomes DEF IInv
    <3> QED
      BY <1>6, <3>1, <3>2 DEF CloseReads
  <2> QED
    BY <1>6, <1>t, <2>1, <2>2, QuietStep DEF CloseReads
<1>7. CASE CloseWrites(p)
  BY <1>7, CloseWritesStep
<1> QED
  BY <1>1, <1>2, <1>3, <1>4, <1>5, <1>6, <1>7 DEF Records

\* The commands note and bookmark.
LEMMA AnnotatesStep ==
    ASSUME IInv, NEW p \in Clients, Annotates(p)
    PROVE  IInv'
<1> p \in Procs
  BY DEF Procs
<1>t. /\ open \in [Recorders -> EventIdsOrNone]
      /\ chunk \in [Recorders -> [full : BOOLEAN, command : EventIdsOrNone]]
      /\ op[p] \in OpType /\ writeLock \in Procs \cup {Nobody}
  BY DEF IInv, TypeOK
<1>n. NoEvent \in EventIdsOrNone /\ {"NOTE", "BOOKMARK"} \subseteq Types
      /\ BookmarkTypes \subseteq Types
  BY DEF NoEvent, EventIdsOrNone, Types, BookmarkTypes
<1>1. CASE WriteNote(p)
  BY <1>1, <1>t, <1>n, BeginStep DEF WriteNote
<1>2. CASE PickTarget(p)
  <2>1. LatestEvent(SessionOf[p]) \in EventIdsOrNone
    <3> DEFINE s == SessionOf[p]
    <3>1. CASE EventsOf(s) = {}
      BY <3>1, <1>n DEF LatestEvent
    <3>2. CASE EventsOf(s) # {}
      <4>1. s \in Sessions
        BY DEF Procs
      <4>2. MaxSequence(s) \in Nat /\ Sequences(s) = 1 .. MaxSequence(s)
        BY <4>1, NextSequenceBound DEF IInv
      <4>a. PICK last \in EventsOf(s) : TRUE
        BY <3>2
      <4>3. events[last].seq \in Sequences(s)
        BY DEF Sequences
      <4>4. MaxSequence(s) \in Sequences(s)
        BY <4>2, <4>3
      <4>5. \E id \in EventsOf(s) : events[id].seq = MaxSequence(s)
        BY <4>4 DEF Sequences
      <4>6. LatestEvent(s) \in EventsOf(s)
        BY <3>2, <4>5 DEF LatestEvent
      <4>7. EventsOf(s) \subseteq EventIdsOrNone
        BY DEF IInv, TypeOK, EventsOf, EventIdsOrNone
      <4> QED
        BY <4>6, <4>7
    <3> QED
      BY <3>1, <3>2
  <2>2. op' \in [Procs -> OpType]
        /\ \A q \in Procs : op'[q].step = "insert" => op'[q] = op[q]
    BY <1>2, <1>n, <2>1, OperationType, OpBecomes DEF PickTarget, IInv
  <2> QED
    BY <1>2, <1>t, <2>2, QuietStep DEF PickTarget
<1>3. CASE WriteBookmark(p)
  <2>1. op[p].ref \in EventIdsOrNone
    BY <1>t DEF OpType
  <2> QED
    BY <1>3, <1>t, <1>n, <2>1, BeginStep DEF WriteBookmark
<1> QED
  BY <1>1, <1>2, <1>3 DEF Annotates

\* SQLITE_BUSY and crashes.
LEMMA FailuresStep ==
    ASSUME IInv, NEW p \in Procs, GivesUp(p) \/ Crash(p)
    PROVE  IInv'
<1>t. /\ open \in [Recorders -> EventIdsOrNone]
      /\ chunk \in [Recorders -> [full : BOOLEAN, command : EventIdsOrNone]]
      /\ writeLock \in Procs \cup {Nobody}
  BY DEF IInv, TypeOK
<1>n. NoEvent \in EventIdsOrNone
      /\ NoChunk \in [full : BOOLEAN, command : EventIdsOrNone]
  BY DEF NoChunk, NoEvent, EventIdsOrNone
<1>1. Becomes(p, Idle) /\ UNCHANGED tables
  BY DEF GivesUp, Crash
<1>2. op' \in [Procs -> OpType]
      /\ \A q \in Procs : op'[q].step = "insert" => q # p /\ op'[q] = op[q]
  BY <1>1, OpBecomes, IdleType DEF IInv
<1>3. CASE GivesUp(p)
  <2>1. open' \in [Recorders -> EventIdsOrNone]
    BY <1>3, <1>t, <1>n DEF GivesUp
  <2> QED
    BY <1>1, <1>2, <1>3, <1>t, <2>1, QuietStep DEF GivesUp
<1>4. CASE Crash(p)
  <2>1. /\ open' \in [Recorders -> EventIdsOrNone]
        /\ chunk' \in [Recorders -> [full : BOOLEAN, command : EventIdsOrNone]]
    BY <1>4, <1>t, <1>n DEF Crash
  <2>2. writeLock' \in Procs \cup {Nobody}
    BY <1>4, <1>t DEF Crash
  <2>3. \A q \in Procs : op'[q].step = "insert" =>
            op'[q] = op[q] /\ writeLock' = writeLock
    BY <1>2, <1>4 DEF Crash, IInv, MaximumStaysRead
  <2> QED
    BY <1>1, <1>2, <2>1, <2>2, <2>3, QuietStep
<1> QED
  BY <1>3, <1>4

\* IInv is inductive.
LEMMA NextIInv == IInv /\ [Next]_vars => IInv'
<1> SUFFICES ASSUME IInv, [Next]_vars PROVE IInv'
  OBVIOUS
<1>1. ASSUME NEW p \in Procs, Stores(p) PROVE IInv'
  BY <1>1, CommitStep, InsertRowStep, FailuresStep DEF Stores
<1>2. CASE UNCHANGED vars
  <2>1. /\ sessions' = sessions /\ events' = events /\ nextId' = nextId
        /\ indexed' = indexed /\ notes' = notes /\ bookmarks' = bookmarks
        /\ writeLock' = writeLock /\ op' = op /\ open' = open /\ chunk' = chunk
    BY <1>2 DEF vars, tables
  <2>2. Numbered' /\ WithinBounds' /\ MaximumStaysRead'
    BY <2>1, InsertsStay
  <2> QED
    BY <2>1, <2>2 DEF IInv, TypeOK
<1> QED
  BY <1>1, <1>2, RecordsStep, AnnotatesStep, DeleteStep DEF Next

\* IInv holds in every state.
LEMMA Invariant == Spec => []IInv
  BY InitIInv, NextIInv, PTL DEF Spec

----------------------------------------------------------------------------
(* Theorems *)

\* Every variable of the event log keeps its type.
THEOREM TypeCorrect == Spec => []TypeOK
<1>1. IInv => TypeOK
  BY DEF IInv
<1> QED
  BY <1>1, Invariant, PTL

\* BEGIN IMMEDIATE keeps the maximum that append_event reads valid until it
\* commits.
THEOREM MaximumHolds == Spec => []MaximumStaysRead
<1>1. IInv => MaximumStaysRead
  BY DEF IInv
<1> QED
  BY <1>1, Invariant, PTL

\* Whatever processes write, fail, crash or delete, the timelines are numbered
\* without gap or duplicate, in the order of the event ids.
THEOREM TimelinesAreGapless == Spec => []GaplessTimeline
<1>1. IInv => GaplessTimeline
  <2> SUFFICES ASSUME IInv, NEW s \in Sessions
               PROVE  /\ Sequences(s) = 1 .. MaxSequence(s)
                      /\ \A a, b \in EventsOf(s) : a < b => events[a].seq < events[b].seq
    BY DEF GaplessTimeline
  <2>1. Sequences(s) = 1 .. MaxSequence(s)
    BY NextSequenceBound DEF IInv
  <2> QED
    BY <2>1 DEF IInv, Numbered
<1> QED
  BY <1>1, Invariant, PTL
=============================================================================
