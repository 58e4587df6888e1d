-------------------------- MODULE EventLogRefsProofs --------------------------
(***************************************************************************)
(* What refers to events in the event log, for every number of sessions,   *)
(* processes and events: the full-text index, the rows of notes and        *)
(* bookmarks, the events that point at others, and the ids that processes  *)
(* hold while they are in the middle of something.  RefInv, added to the   *)
(* IInv of EventLogProofs, is inductive because an id is never given twice *)
(* and a timeline loses events only as a whole: whoever holds an id has    *)
(* still the event it had, or its session is gone.                         *)
(***************************************************************************)
EXTENDS EventLogProofs, SequenceTheorems

USE SessionOfAssumption

\* An id that q holds is the id of an event of its session, or of none when the
\* session has been deleted.
Known(q, id, types) ==
    /\ id \in Nat /\ id < nextId
    /\ SessionOf[q] \in sessions =>
          id \in EventsOf(SessionOf[q]) /\ events[id].type \in types
    /\ SessionOf[q] \notin sessions => id \notin DOMAIN events

Bookmarked(s, id) ==
    \E b \in EventsOf(s) : events[b].type \in BookmarkTypes /\ events[b].ref = id

\* What q holds in an operation.
OpRefs(q, o) ==
    /\ o.step = "insert" =>
          /\ o.type = "OUTPUT" /\ o.ref # NoEvent => Known(q, o.ref, {"COMMAND"})
          /\ o.type \in BookmarkTypes => Known(q, o.ref, Types)
          /\ o.type = "COMMAND" => q \in Recorders
    /\ o.step = "target" => Known(q, o.ref, Types)
    /\ o.step = "row" =>
          /\ o.type = "NOTE" => Known(q, o.ref, {"NOTE"})
          /\ o.type # "NOTE" =>
                /\ Known(q, o.ref, Types)
                /\ SessionOf[q] \in sessions => Bookmarked(SessionOf[q], o.ref)

EventsLive == \A id \in DOMAIN events : events[id].session \in sessions

IndexExact ==
    /\ \A row \in indexed : row.session \in sessions =>
          row.event \in EventsOf(row.session) /\ Searchable(events[row.event].type)
    /\ \A id \in DOMAIN events : Searchable(events[id].type) =>
          [session |-> events[id].session, event |-> id] \in indexed

TablesInv == EventsLive /\ IndexExact /\ PointersStayInTimeline

OpsInv ==
    /\ \A q \in Procs : OpRefs(q, op[q])
    /\ \A q \in Procs : op[q].step = "close" =>
          q \in Recorders /\ open[q] # NoEvent /\ op[q].ref = open[q]
OpenInv ==
    /\ OpenCommandIsPrivate
    /\ \A q \in Recorders : open[q] # NoEvent => Known(q, open[q], {"COMMAND"})
ChunksInv ==
    \A q \in Recorders : chunk[q].command # NoEvent =>
        Known(q, chunk[q].command, {"COMMAND"})

RefInv == TablesInv /\ OpsInv /\ OpenInv /\ ChunksInv

----------------------------------------------------------------------------
(* The tables *)

\* What a step does to the tables of events and sessions: nothing that counts
\* here, one event more, or one session less.
KeepsEvents ==
    /\ sessions' = sessions /\ nextId' = nextId /\ DOMAIN events' = DOMAIN events
    /\ \A id \in DOMAIN events :
          /\ events'[id].session = events[id].session
          /\ events'[id].type = events[id].type
          /\ events'[id].ref = events[id].ref
          /\ events'[id].seq = events[id].seq
AddsEvent(p) ==
    /\ sessions' = sessions /\ nextId' = nextId + 1
    /\ SessionOf[p] \in sessions /\ events' = WithNewEvent(p)
LosesSession(s) ==
    /\ sessions' = sessions \ {s} /\ nextId' = nextId
    /\ events' = [id \in DOMAIN events \ EventsOf(s) |-> events[id]]
TablesStep ==
    \/ KeepsEvents
    \/ \E p \in Procs : AddsEvent(p)
    \/ \E s \in Sessions : LosesSession(s)

\* The next id is new.
LEMMA NextIdIsNew ==
    ASSUME TypeOK
    PROVE  /\ nextId \in Nat /\ nextId \notin DOMAIN events
           /\ \A id \in DOMAIN events : id \in Nat /\ id < nextId
  BY DEF TypeOK

\* The types of an event and of its id.
LEMMA EventTypes ==
    ASSUME TypeOK, NEW id \in DOMAIN events
    PROVE  events[id] \in EventType /\ id \in EventIds /\ id \in EventIdsOrNone
<1>1. id \in 1 .. nextId - 1 /\ nextId \in 1 .. MaxEvents + 1 /\ MaxEvents \in Nat
  BY MaxEventsAssumption DEF TypeOK
<1>2. id \in EventIds /\ id \in EventIdsOrNone
  BY <1>1 DEF EventIds, EventIdsOrNone
<1> QED
  BY <1>2 DEF TypeOK

\* What is known of an event stays known.
LEMMA KnownStays ==
    ASSUME TypeOK, EventsLive, TablesStep, NEW q \in Procs, NEW id, NEW types,
           Known(q, id, types)
    PROVE  Known(q, id, types)'
<1>1. CASE KeepsEvents
  BY <1>1 DEF KeepsEvents, Known, EventsOf
<1>2. ASSUME NEW p \in Procs, AddsEvent(p) PROVE Known(q, id, types)'
  <2>1. /\ DOMAIN events' = DOMAIN events \cup {nextId}
        /\ \A i \in DOMAIN events : events'[i] = events[i]
    BY <1>2, NextIdIsNew DEF AddsEvent, WithNewEvent
  <2>2. id \in Nat /\ id < nextId /\ nextId \in Nat /\ nextId' = nextId + 1
    BY <1>2, NextIdIsNew DEF Known, AddsEvent
  <2> QED
    BY <1>2, <2>1, <2>2 DEF AddsEvent, Known, EventsOf
<1>3. ASSUME NEW s \in Sessions, LosesSession(s) PROVE Known(q, id, types)'
  BY <1>3 DEF LosesSession, Known, EventsOf, EventsLive
<1> QED
  BY <1>1, <1>2, <1>3 DEF TablesStep

\* A target stays bookmarked as long as its session is there.
LEMMA BookmarkedStays ==
    ASSUME TypeOK, TablesStep, NEW s \in sessions', NEW id, Bookmarked(s, id)
    PROVE  Bookmarked(s, id)'
<1>0. PICK b \in EventsOf(s) : events[b].type \in BookmarkTypes /\ events[b].ref = id
  BY DEF Bookmarked
<1>1. CASE KeepsEvents
  BY <1>0, <1>1 DEF KeepsEvents, Bookmarked, EventsOf
<1>2. ASSUME NEW p \in Procs, AddsEvent(p) PROVE Bookmarked(s, id)'
  <2>1. /\ DOMAIN events' = DOMAIN events \cup {nextId}
        /\ \A i \in DOMAIN events : events'[i] = events[i]
    BY <1>2, NextIdIsNew DEF AddsEvent, WithNewEvent
  <2> QED
    BY <1>0, <2>1 DEF Bookmarked, EventsOf
<1>3. ASSUME NEW t \in Sessions, LosesSession(t) PROVE Bookmarked(s, id)'
  BY <1>0, <1>3 DEF LosesSession, Bookmarked, EventsOf
<1> QED
  BY <1>1, <1>2, <1>3 DEF TablesStep

\* What a process holds in an operation stays good.
LEMMA OpRefsStay ==
    ASSUME TypeOK, EventsLive, TablesStep, NEW q \in Procs, NEW o, OpRefs(q, o)
    PROVE  OpRefs(q, o)'
<1>1. sessions' \subseteq sessions
  BY DEF TablesStep, KeepsEvents, AddsEvent, LosesSession
<1>2. \A types : Known(q, o.ref, types) => Known(q, o.ref, types)'
  BY KnownStays
<1>3. SessionOf[q] \in sessions' /\ Bookmarked(SessionOf[q], o.ref)
          => Bookmarked(SessionOf[q], o.ref)'
  BY BookmarkedStays
<1> QED
  BY <1>1, <1>2, <1>3 DEF OpRefs

\* No event is left of a session that is gone.
LEMMA EventsLiveStay ==
    ASSUME TypeOK, EventsLive, TablesStep
    PROVE  EventsLive'
<1>1. CASE KeepsEvents
  BY <1>1 DEF KeepsEvents, EventsLive
<1>2. ASSUME NEW p \in Procs, AddsEvent(p) PROVE EventsLive'
  <2>1. /\ DOMAIN events' = DOMAIN events \cup {nextId}
        /\ \A i \in DOMAIN events : events'[i] = events[i]
        /\ events'[nextId].session = SessionOf[p]
    BY <1>2, NextIdIsNew DEF AddsEvent, WithNewEvent, NewEvent
  <2> QED
    BY <1>2, <2>1 DEF AddsEvent, EventsLive
<1>3. ASSUME NEW s \in Sessions, LosesSession(s) PROVE EventsLive'
  BY <1>3 DEF LosesSession, EventsLive, EventsOf
<1> QED
  BY <1>1, <1>2, <1>3 DEF TablesStep

\* Neither the index nor the pointers change with a resolution.
LEMMA TablesStay ==
    ASSUME TypeOK, TablesInv, KeepsEvents,
           UNCHANGED <<indexed, notes, bookmarks>>
    PROVE  TablesInv'
<1>1. \A s : EventsOf(s)' = EventsOf(s)
  BY DEF KeepsEvents, EventsOf
<1>2. EventsLive'
  BY EventsLiveStay DEF TablesInv, TablesStep
<1>3. IndexExact'
  <2>1. \A row \in indexed : row.event \in EventsOf(row.session) => row.event \in DOMAIN events
    BY DEF EventsOf
  <2> QED
    BY <1>1, <2>1 DEF TablesInv, IndexExact, KeepsEvents, Searchable
<1>4. PointersStayInTimeline'
  <2>1. \A s : \A id \in EventsOf(s) : id \in DOMAIN events
    BY DEF EventsOf
  <2> QED
    BY <1>1, <2>1 DEF TablesInv, PointersStayInTimeline, KeepsEvents
<1> QED
  BY <1>2, <1>3, <1>4 DEF TablesInv

\* The tables are as they were.
LEMMA SameTables ==
    ASSUME TypeOK, TablesInv, UNCHANGED tables
    PROVE  TablesInv' /\ KeepsEvents /\ TablesStep
<1>1. KeepsEvents /\ UNCHANGED <<indexed, notes, bookmarks>>
  BY DEF tables, KeepsEvents
<1> QED
  BY <1>1, TablesStay DEF TablesStep

----------------------------------------------------------------------------
(* Steps that leave the tables alone *)

\* An open command keeps its event, while events only change their resolution
\* and this one does not.
LEMMA OpensStay ==
    ASSUME TypeOK, EventsLive, OpenInv, TablesStep,
           \A q \in Recorders : open'[q] \in {open[q], NoEvent},
           \A q \in Recorders : open'[q] # NoEvent /\ open[q] \in DOMAIN events' =>
               open[q] \in DOMAIN events
               /\ events'[open[q]].resolution = events[open[q]].resolution
    PROVE  OpenInv'
<1>1. ASSUME NEW q \in Recorders, open'[q] # NoEvent
      PROVE  open'[q] = open[q] /\ Known(q, open[q], {"COMMAND"})
  BY <1>1 DEF OpenInv
<1>2. ASSUME NEW q \in Recorders, open'[q] # NoEvent
      PROVE  Known(q, open[q], {"COMMAND"})'
  <2>1. PICK id : id = open[q]
    OBVIOUS
  <2>2. Known(q, id, {"COMMAND"})'
    BY <1>1, <1>2, <2>1, KnownStays DEF Procs
  <2>3. open'[q] = id
    BY <1>1, <1>2, <2>1
  <2> QED
    BY <2>2, <2>3
<1>3. OpenCommandIsPrivate'
  <2> SUFFICES ASSUME NEW p \in Recorders, open'[p] # NoEvent
               PROVE  /\ \A q \in Recorders : open'[q] = open'[p] => q = p
                      /\ open'[p] \in DOMAIN events' =>
                            /\ open'[p] \in EventsOf(SessionOf[p])'
                            /\ events'[open'[p]].type = "COMMAND"
                            /\ events'[open'[p]].resolution = "none"
    BY DEF OpenCommandIsPrivate
  <2>1. open'[p] = open[p] /\ Known(p, open[p], {"COMMAND"})'
    BY <1>1, <1>2
  <2>2. \A q \in Recorders : open'[q] = open'[p] => q = p
    BY <2>1, <1>1 DEF OpenInv, OpenCommandIsPrivate
  <2>3. ASSUME open'[p] \in DOMAIN events'
        PROVE  events'[open'[p]].resolution = "none"
    BY <2>1, <2>3 DEF OpenInv, OpenCommandIsPrivate
  <2> QED
    BY <2>1, <2>2, <2>3 DEF Known
<1> QED
  BY <1>1, <1>2, <1>3 DEF OpenInv

\* The operations of the others, when p goes to o.
LEMMA OpsStay ==
    ASSUME TypeOK, EventsLive, OpsInv, TablesStep,
           NEW p \in Procs, NEW o \in OpType, Becomes(p, o), OpRefs(p, o)',
           \A q \in Recorders \ {p} : open'[q] = open[q],
           o.step = "close" => p \in Recorders /\ open'[p] # NoEvent /\ o.ref = open'[p]
    PROVE  OpsInv'
<1>1. op'[p] = o /\ \A q \in Procs \ {p} : op'[q] = op[q]
  BY DEF Becomes, TypeOK
<1>2. ASSUME NEW q \in Procs PROVE OpRefs(q, op[q])'
  <2>1. CASE q = p
    BY <1>1, <2>1 DEF OpRefs, Known, Bookmarked
  <2>2. CASE q # p
    <3>1. PICK r : r = op[q]
      OBVIOUS
    <3>2. OpRefs(q, r)
      BY <3>1 DEF OpsInv
    <3>3. OpRefs(q, r)'
      BY <3>2, OpRefsStay
    <3>4. op'[q] = r
      BY <1>1, <2>2, <3>1
    <3> QED
      BY <3>3, <3>4
  <2> QED
    BY <2>1, <2>2
<1>3. ASSUME NEW q \in Procs, op'[q].step = "close"
      PROVE  q \in Recorders /\ open'[q] # NoEvent /\ op'[q].ref = open'[q]
  BY <1>1, <1>3 DEF OpsInv
<1> QED
  BY <1>2, <1>3 DEF OpsInv

\* The chunks that the output threads hold.
LEMMA ChunksStay ==
    ASSUME TypeOK, EventsLive, OpenInv, ChunksInv, TablesStep,
           \A q \in Recorders :
               chunk'[q].command \in {chunk[q].command, open[q], NoEvent}
    PROVE  ChunksInv'
<1> SUFFICES ASSUME NEW q \in Recorders, chunk'[q].command # NoEvent
             PROVE  Known(q, chunk[q].command, {"COMMAND"})'
  BY DEF ChunksInv
<1>1. PICK id : id = chunk'[q].command
  OBVIOUS
<1>2. Known(q, id, {"COMMAND"})
  BY <1>1 DEF ChunksInv, OpenInv
<1>3. Known(q, id, {"COMMAND"})'
  BY <1>2, KnownStays DEF Procs
<1> QED
  BY <1>1, <1>3

\* A step of p that leaves the tables alone.
LEMMA QuietRefs ==
    ASSUME TypeOK, RefInv, UNCHANGED tables,
           NEW p \in Procs, NEW o \in OpType, Becomes(p, o), OpRefs(p, o),
           \A q \in Recorders : open'[q] \in {open[q], NoEvent},
           \A q \in Recorders \ {p} : open'[q] = open[q],
           o.step = "close" => p \in Recorders /\ open'[p] # NoEvent /\ o.ref = open'[p],
           \A q \in Recorders :
               chunk'[q].command \in {chunk[q].command, open[q], NoEvent}
    PROVE  RefInv'
<1>1. TablesInv' /\ KeepsEvents /\ TablesStep
  BY SameTables DEF RefInv
<1>2. TypeOK /\ EventsLive /\ OpenInv /\ OpsInv /\ ChunksInv
  BY DEF RefInv, TablesInv
<1>3. OpRefs(p, o)'
  BY <1>1, <1>2, OpRefsStay
<1>4. OpsInv'
  BY <1>1, <1>2, <1>3, OpsStay
<1>5. events' = events
  BY DEF tables
<1>6. OpenInv'
  BY <1>1, <1>2, <1>5, OpensStay
<1>7. ChunksInv'
  BY <1>1, <1>2, ChunksStay
<1> QED
  BY <1>1, <1>4, <1>6, <1>7 DEF RefInv

\* The transaction that append_event opens, for a caller who knows its ref.
LEMMA BeginRefs ==
    ASSUME TypeOK, IInv, RefInv, NEW p \in Procs, NEW type \in Types,
           NEW ref \in EventIdsOrNone, Begins(p, type, ref),
           UNCHANGED <<tables, open>>,
           type = "OUTPUT" /\ ref # NoEvent => Known(p, ref, {"COMMAND"}),
           type \in BookmarkTypes => Known(p, ref, Types),
           type = "COMMAND" => p \in Recorders,
           \A q \in Recorders : chunk'[q].command \in {chunk[q].command, NoEvent}
    PROVE  RefInv'
<1>1. PICK o : o = [step |-> "insert", type |-> type, ref |-> ref,
                    seq |-> NextSequence(SessionOf[p])]
  OBVIOUS
<1>2. Becomes(p, o)
  BY <1>1 DEF Begins
<1>3. op' \in [Procs -> OpType] /\ op'[p] = o
  BY <1>2, BeginsKeeps DEF Becomes, TypeOK
<1>4. o \in OpType /\ o.step = "insert" /\ o.type = type /\ o.ref = ref
  BY <1>1, <1>3
<1>5. OpRefs(p, o)
  BY <1>4 DEF OpRefs
<1>6. UNCHANGED tables /\ open' = open
  OBVIOUS
<1> QED
  BY <1>2, <1>4, <1>5, <1>6, QuietRefs

\* What every step may assume of the types.
LEMMA Types0 ==
    ASSUME TypeOK
    PROVE  /\ \A p \in Procs : op[p] \in OpType
           /\ \A q \in Recorders : q \in Procs /\ open[q] \in EventIdsOrNone
           /\ \A q \in Recorders : chunk[q].command \in EventIdsOrNone
           /\ NoEvent \in EventIdsOrNone
           /\ {"SESSION", "OUTPUT", "COMMAND", "NOTE"} \subseteq Types
           /\ BookmarkTypes \subseteq Types
<1>1. NoEvent \in EventIdsOrNone
  BY MaxEventsAssumption DEF NoEvent, EventIdsOrNone
<1>2. Recorders \subseteq Procs
  BY DEF Procs
<1>3. BookmarkTypes \subseteq Types
  BY DEF Types
<1> QED
  BY <1>1, <1>2, <1>3 DEF TypeOK, Types

\* An operation that is over holds nothing.
LEMMA IdleRefs ==
    \A q : OpRefs(q, Idle) /\ Idle.step # "close"
  BY DEF Idle, OpRefs

\* A step of p that forgets: its operation ends, or stays as it is, and its
\* command and its chunk are kept or dropped.
LEMMA ForgetRefs ==
    ASSUME TypeOK, RefInv, UNCHANGED tables, NEW p \in Procs,
           Becomes(p, Idle) \/ (op' = op /\ open' = open),
           \A q \in Recorders : open'[q] \in {open[q], NoEvent},
           \A q \in Recorders \ {p} : open'[q] = open[q],
           \A q \in Recorders :
               chunk'[q].command \in {chunk[q].command, open[q], NoEvent}
    PROVE  RefInv'
<1>1. CASE Becomes(p, Idle)
  BY <1>1, IdleType, IdleRefs, QuietRefs
<1>2. CASE op' = op /\ open' = open
  <2>1. PICK o : o = op[p]
    OBVIOUS
  <2>2. Becomes(p, o) /\ o \in OpType
    BY <1>2, <2>1 DEF Becomes, TypeOK
  <2>3. OpRefs(p, o)
    BY <2>1 DEF RefInv, OpsInv
  <2>4. o.step = "close" => p \in Recorders /\ open'[p] # NoEvent /\ o.ref = open'[p]
    BY <1>2, <2>1 DEF RefInv, OpsInv
  <2> QED
    BY <2>2, <2>3, <2>4, QuietRefs
<1> QED
  BY <1>1, <1>2

\* The recorder, but for its UPDATE.
LEMMA RecordsRefs ==
    ASSUME TypeOK, IInv, RefInv, NEW p \in Recorders, Records(p), ~CloseWrites(p)
    PROVE  RefInv'
<1> p \in Procs
  BY Types0
<1>1. CASE LogLifecycle(p)
  <2>1. Begins(p, "SESSION", NoEvent) /\ UNCHANGED <<tables, open>> /\ chunk' = chunk
    BY <1>1 DEF LogLifecycle
  <2> QED
    BY <2>1, Types0, BeginRefs DEF BookmarkTypes
<1>2. CASE ReadOutput(p)
  <2>1. \A q \in Recorders :
            chunk'[q].command \in {chunk[q].command, open[q], NoEvent}
    BY <1>2 DEF ReadOutput, TypeOK
  <2>2. UNCHANGED tables /\ op' = op /\ open' = open
    BY <1>2 DEF ReadOutput
  <2> QED
    BY <2>1, <2>2, ForgetRefs
<1>3. CASE LogOutput(p)
  <2>1. /\ Begins(p, "OUTPUT", chunk[p].command) /\ UNCHANGED <<tables, open>>
        /\ chunk' = [chunk EXCEPT ![p] = NoChunk]
    BY <1>3 DEF LogOutput
  <2>2. \A q \in Recorders : chunk'[q].command \in {chunk[q].command, NoEvent}
    BY <2>1 DEF TypeOK, NoChunk
  <2>3. chunk[p].command # NoEvent => Known(p, chunk[p].command, {"COMMAND"})
    BY DEF RefInv, ChunksInv
  <2> QED
    BY <2>1, <2>2, <2>3, Types0, BeginRefs DEF BookmarkTypes
<1>4. CASE LosesOutput(p)
  <2>1. \A q \in Recorders :
            chunk'[q].command \in {chunk[q].command, open[q], NoEvent}
    BY <1>4 DEF LosesOutput, TypeOK, NoChunk
  <2>2. UNCHANGED tables /\ op' = op /\ open' = open
    BY <1>4 DEF LosesOutput
  <2> QED
    BY <2>1, <2>2, ForgetRefs
<1>5. CASE OpenCommand(p)
  <2>1. Begins(p, "COMMAND", NoEvent) /\ UNCHANGED <<tables, open>> /\ chunk' = chunk
    BY <1>5 DEF OpenCommand
  <2> QED
    BY <2>1, Types0, BeginRefs DEF BookmarkTypes
<1>6. CASE CloseReads(p)
  <2>1. UNCHANGED tables /\ chunk' = chunk /\ open[p] # NoEvent
    BY <1>6 DEF CloseReads
  <2>2. CASE open[p] \in DOMAIN events
    <3>1. PICK o : o = Operation("close", "COMMAND", open[p])
      OBVIOUS
    <3>2. Becomes(p, o) /\ open' = open
      BY <1>6, <2>2, <3>1 DEF CloseReads
    <3>3. o \in OpType /\ o.step = "close" /\ o.ref = open[p]
      <4>1. open[p] \in EventIdsOrNone /\ "COMMAND" \in Types
        BY Types0
      <4>2. o \in OpType
        BY <3>1, <4>1, OperationType
      <4> QED
        BY <3>1, <4>2 DEF Operation
    <3>4. OpRefs(p, o)
      BY <3>3 DEF OpRefs
    <3> QED
      BY <2>1, <3>2, <3>3, <3>4, QuietRefs
  <2>3. CASE open[p] \notin DOMAIN events
    <3>1. op' = op /\ open' = [open EXCEPT ![p] = NoEvent]
      BY <1>6, <2>3 DEF CloseReads
    <3>2. /\ \A q \in Recorders : open'[q] \in {open[q], NoEvent}
          /\ \A q \in Recorders \ {p} : open'[q] = open[q]
      BY <3>1 DEF TypeOK
    <3>3. op[p].step = "idle"
      BY <1>6 DEF CloseReads, Free
    <3>4. PICK o : o = op[p]
      OBVIOUS
    <3>5. Becomes(p, o) /\ o \in OpType /\ OpRefs(p, o) /\ o.step = "idle"
      BY <3>1, <3>3, <3>4 DEF Becomes, TypeOK, RefInv, OpsInv
    <3> QED
      BY <2>1, <3>2, <3>5, QuietRefs
  <2> QED
    BY <2>2, <2>3
<1> QED
  BY <1>1, <1>2, <1>3, <1>4, <1>5, <1>6 DEF Records

\* latest_event_id finds an event of the session, if there is one.
LEMMA LatestIsEvent ==
    ASSUME IInv, NEW s \in Sessions, LatestEvent(s) # NoEvent
    PROVE  LatestEvent(s) \in EventsOf(s)
<1>1. EventsOf(s) # {}
  BY DEF LatestEvent
<1>2. Sequences(s) = 1 .. MaxSequence(s) /\ MaxSequence(s) \in Nat
  BY NextSequenceBound DEF IInv
<1>3. PICK last \in EventsOf(s) : TRUE
  BY <1>1
<1>4. events[last].seq \in Sequences(s)
  BY DEF Sequences
<1>5. MaxSequence(s) \in Sequences(s)
  BY <1>2, <1>4
<1>6. \E id \in EventsOf(s) : events[id].seq = MaxSequence(s)
  BY <1>5 DEF Sequences
<1> QED
  BY <1>1, <1>6 DEF LatestEvent

\* The commands `note` and `bookmark`.
LEMMA AnnotatesRefs ==
    ASSUME TypeOK, IInv, RefInv, NEW p \in Clients, Annotates(p)
    PROVE  RefInv'
<1> p \in Procs
  BY DEF Procs
<1>1. CASE WriteNote(p)
  <2>1. Begins(p, "NOTE", NoEvent) /\ UNCHANGED <<tables, open>> /\ chunk' = chunk
    BY <1>1 DEF WriteNote
  <2> QED
    BY <2>1, Types0, BeginRefs DEF BookmarkTypes
<1>2. CASE PickTarget(p)
  <2>1. PICK id : id = LatestEvent(SessionOf[p])
    OBVIOUS
  <2>2. PICK o : o = Operation("target", "BOOKMARK", id)
    OBVIOUS
  <2>3. UNCHANGED tables /\ Becomes(p, o) /\ open' = open /\ chunk' = chunk
        /\ id # NoEvent
    BY <1>2, <2>1, <2>2 DEF PickTarget
  <2>a. SessionOf[p] \in Sessions
    OBVIOUS
  <2>4. id \in EventsOf(SessionOf[p])
    BY <2>1, <2>3, <2>a, LatestIsEvent
  <2>5. id \in DOMAIN events /\ events[id].type \in Types
        /\ id \in EventIdsOrNone /\ SessionOf[p] \in sessions
    <3>1. id \in DOMAIN events /\ events[id].session = SessionOf[p]
      BY <2>4 DEF EventsOf
    <3>2. events[id] \in EventType /\ id \in EventIdsOrNone
      BY <3>1, EventTypes
    <3> QED
      BY <3>1, <3>2 DEF EventType, RefInv, TablesInv, EventsLive
  <2>6. Known(p, id, Types)
    BY <2>4, <2>5, NextIdIsNew DEF Known
  <2>7. o \in OpType /\ o.step = "target" /\ o.ref = id
    <3>1. o \in OpType
      BY <2>2, <2>5, Types0, OperationType DEF BookmarkTypes
    <3> QED
      BY <2>2, <3>1 DEF Operation
  <2>8. OpRefs(p, o)
    BY <2>6, <2>7 DEF OpRefs
  <2> QED
    BY <2>3, <2>7, <2>8, QuietRefs
<1>3. CASE WriteBookmark(p)
  <2>1. PICK type \in BookmarkTypes : Begins(p, type, op[p].ref)
    BY <1>3 DEF WriteBookmark
  <2>2. UNCHANGED <<tables, open>> /\ chunk' = chunk /\ op[p].step = "target"
    BY <1>3 DEF WriteBookmark
  <2>3. PICK ref : ref = op[p].ref
    OBVIOUS
  <2>4. ref \in EventIdsOrNone /\ Known(p, ref, Types)
    BY <2>2, <2>3, Types0 DEF OpType, RefInv, OpsInv, OpRefs
  <2>5. type \in Types /\ type \notin {"OUTPUT", "COMMAND"}
    BY Types0 DEF BookmarkTypes
  <2> QED
    BY <2>1, <2>2, <2>3, <2>4, <2>5, BeginRefs
<1> QED
  BY <1>1, <1>2, <1>3 DEF Annotates

\* SQLITE_BUSY and crashes.
LEMMA FailuresRefs ==
    ASSUME TypeOK, RefInv, NEW p \in Procs, GivesUp(p) \/ Crash(p)
    PROVE  RefInv'
<1>1. Becomes(p, Idle) /\ UNCHANGED tables
  BY DEF GivesUp, Crash
<1>2. /\ \A q \in Recorders : open'[q] \in {open[q], NoEvent}
      /\ \A q \in Recorders \ {p} : open'[q] = open[q]
  BY DEF GivesUp, Crash, TypeOK
<1>3. \A q \in Recorders :
          chunk'[q].command \in {chunk[q].command, open[q], NoEvent}
  BY DEF GivesUp, Crash, NoChunk
<1> QED
  BY <1>1, <1>2, <1>3, ForgetRefs

----------------------------------------------------------------------------
(* The end of a transaction *)

\* The new event is the last one of its timeline.
LEMMA NewIsLast ==
    ASSUME IInv, NEW p \in Procs, op[p].step = "insert", AddsEvent(p)
    PROVE  /\ DOMAIN events' = DOMAIN events \cup {nextId}
           /\ \A id \in DOMAIN events : events'[id] = events[id]
           /\ events'[nextId] = NewEvent(p)
           /\ \A s : EventsOf(s)' =
                 EventsOf(s) \cup (IF s = SessionOf[p] THEN {nextId} ELSE {})
           /\ \A id \in EventsOf(SessionOf[p]) : events[id].seq < op[p].seq
<1>1. TypeOK /\ SessionOf[p] \in Sessions
  BY DEF IInv
<1>2. /\ DOMAIN events' = DOMAIN events \cup {nextId}
      /\ \A id \in DOMAIN events : events'[id] = events[id]
      /\ events'[nextId] = NewEvent(p)
  BY <1>1, NextIdIsNew DEF AddsEvent, WithNewEvent
<1>3. events'[nextId].session = SessionOf[p]
  BY <1>2 DEF NewEvent
<1>4. \A s : EventsOf(s)' =
          EventsOf(s) \cup (IF s = SessionOf[p] THEN {nextId} ELSE {})
  BY <1>1, <1>2, <1>3, NextIdIsNew DEF EventsOf
<1>5. ASSUME NEW id \in EventsOf(SessionOf[p]) PROVE events[id].seq < op[p].seq
  <2>1. /\ MaxSequence(SessionOf[p]) \in Nat
        /\ Sequences(SessionOf[p]) = 1 .. MaxSequence(SessionOf[p])
    BY <1>1, NextSequenceBound DEF IInv
  <2>2. events[id].seq \in Sequences(SessionOf[p])
    BY DEF Sequences
  <2>3. op[p].seq = MaxSequence(SessionOf[p]) + 1
    BY DEF IInv, MaximumStaysRead, NextSequence
  <2> QED
    BY <2>1, <2>2, <2>3
<1> QED
  BY <1>2, <1>4, <1>5

\* COMMIT in a session that is there: the tables.
LEMMA CommitTables ==
    ASSUME IInv, RefInv, NEW p \in Procs, Commit(p), SessionOf[p] \in sessions
    PROVE  AddsEvent(p) /\ TablesInv'
<1> DEFINE s == SessionOf[p]
<1>1. AddsEvent(p) /\ op[p].step = "insert"
      /\ notes' = notes /\ bookmarks' = bookmarks
      /\ indexed' = IF Searchable(op[p].type)
                    THEN indexed \cup {[session |-> s, event |-> nextId]}
                    ELSE indexed
  BY DEF Commit, AddsEvent
<1>2. /\ DOMAIN events' = DOMAIN events \cup {nextId}
      /\ \A id \in DOMAIN events : events'[id] = events[id]
      /\ events'[nextId] = NewEvent(p)
      /\ \A t : EventsOf(t)' = EventsOf(t) \cup (IF t = s THEN {nextId} ELSE {})
      /\ \A id \in EventsOf(s) : events[id].seq < op[p].seq
  BY <1>1, NewIsLast
<1>3. nextId \notin DOMAIN events /\ sessions' = sessions
  BY <1>1, NextIdIsNew DEF IInv, AddsEvent
<1>4. /\ events'[nextId].session = s /\ events'[nextId].type = op[p].type
      /\ events'[nextId].ref = op[p].ref /\ events'[nextId].seq = op[p].seq
  BY <1>2 DEF NewEvent
<1>5. /\ \A t : \A id \in EventsOf(t) : id \in DOMAIN events /\ id \in EventsOf(t)'
      /\ nextId \in EventsOf(s)'
  BY <1>2 DEF EventsOf
<1>6. EventsLive'
  BY <1>1, EventsLiveStay DEF IInv, RefInv, TablesInv, TablesStep
<1>7. IndexExact'
  <2>1. ASSUME NEW row \in indexed', row.session \in sessions'
        PROVE  row.event \in EventsOf(row.session)'
               /\ Searchable(events'[row.event].type)
    <3>1. CASE row \in indexed
      <4>1. row.event \in EventsOf(row.session) /\ Searchable(events[row.event].type)
        BY <1>3, <2>1, <3>1 DEF RefInv, TablesInv, IndexExact
      <4> QED
        BY <4>1, <1>2, <1>5
    <3>2. CASE row \notin indexed
      <4>1. row = [session |-> s, event |-> nextId] /\ Searchable(op[p].type)
        BY <1>1, <2>1, <3>2
      <4>2. row.session = s /\ row.event = nextId
        BY <4>1
      <4> QED
        BY <4>1, <4>2, <1>4, <1>5
    <3> QED
      BY <3>1, <3>2
  <2>2. ASSUME NEW id \in DOMAIN events', Searchable(events'[id].type)
        PROVE  [session |-> events'[id].session, event |-> id] \in indexed'
    <3>1. CASE id = nextId
      BY <1>1, <1>4, <2>2, <3>1
    <3>2. CASE id # nextId
      BY <1>1, <1>2, <2>2, <3>2 DEF RefInv, TablesInv, IndexExact
    <3> QED
      BY <3>1, <3>2
  <2> QED
    BY <2>1, <2>2 DEF IndexExact, Searchable
<1>8. PointersStayInTimeline'
  <2>1. ASSUME NEW id \in DOMAIN events',
               (events'[id].type = "OUTPUT" /\ events'[id].ref # NoEvent)
                   \/ events'[id].type \in BookmarkTypes
        PROVE  /\ (events[id].ref \in EventsOf(events[id].session))'
               /\ (events[events[id].ref].seq < events[id].seq)'
               /\ (events[id].type = "OUTPUT" => events[events[id].ref].type = "COMMAND")'
    <3>1. CASE id = nextId
      <4>1. PICK ref : ref = op[p].ref
        OBVIOUS
      <4>2. /\ ref \in EventsOf(s)
            /\ op[p].type = "OUTPUT" => events[ref].type = "COMMAND"
        BY <1>1, <1>4, <2>1, <3>1, <4>1
           DEF RefInv, OpsInv, OpRefs, Known, BookmarkTypes, AddsEvent
      <4>3. ref \in EventsOf(s)' /\ events'[ref] = events[ref]
            /\ events[ref].seq < op[p].seq
        BY <1>2, <1>5, <4>2
      <4>4. events'[id].ref = ref /\ events'[id].session = s
            /\ events'[id].seq = op[p].seq /\ events'[id].type = op[p].type
        BY <1>4, <3>1, <4>1
      <4>5. (events[id].ref \in EventsOf(events[id].session))'
        BY <4>3, <4>4
      <4> QED
        BY <4>2, <4>3, <4>4, <4>5
    <3>2. CASE id # nextId
      <4>1. id \in DOMAIN events /\ events'[id] = events[id]
        BY <1>2, <3>2
      <4>2. PICK ref, t : ref = events[id].ref /\ t = events[id].session
        OBVIOUS
      <4>3. /\ ref \in EventsOf(t)
            /\ events[ref].seq < events[id].seq
            /\ events[id].type = "OUTPUT" => events[ref].type = "COMMAND"
        BY <2>1, <4>1, <4>2 DEF RefInv, TablesInv, PointersStayInTimeline
      <4>4. events'[ref] = events[ref] /\ ref \in EventsOf(t)'
        BY <1>2, <1>5, <4>3
      <4>5. (events[id].ref \in EventsOf(events[id].session))'
        BY <4>1, <4>2, <4>4
      <4> QED
        BY <4>1, <4>2, <4>3, <4>4, <4>5
    <3> QED
      BY <3>1, <3>2
  <2>2. \A row \in notes' : row.event \in EventsOf(row.session)'
                            /\ events'[row.event].type = "NOTE"
    BY <1>1, <1>2, <1>5 DEF RefInv, TablesInv, PointersStayInTimeline
  <2>3. ASSUME NEW row \in bookmarks'
        PROVE  /\ row.event \in EventsOf(row.session)'
               /\ \E id \in EventsOf(row.session)' :
                     events'[id].type \in BookmarkTypes /\ events'[id].ref = row.event
    <3>1. /\ row.event \in EventsOf(row.session)
          /\ \E id \in EventsOf(row.session) :
                events[id].type \in BookmarkTypes /\ events[id].ref = row.event
      BY <1>1, <2>3 DEF RefInv, TablesInv, PointersStayInTimeline
    <3> QED
      BY <3>1, <1>2, <1>5
  <2> QED
    BY <2>1, <2>2, <2>3 DEF PointersStayInTimeline
<1> QED
  BY <1>1, <1>6, <1>7, <1>8 DEF TablesInv

\* COMMIT.
LEMMA CommitRefs ==
    ASSUME IInv, RefInv, NEW p \in Procs, Commit(p)
    PROVE  RefInv'
<1> DEFINE s == SessionOf[p]
<1>1. CASE s \notin sessions
  <2>1. UNCHANGED tables /\ Becomes(p, Idle) /\ open' = open /\ chunk' = chunk
    BY <1>1 DEF Commit, tables
  <2> QED
    BY <2>1, ForgetRefs DEF IInv
<1>2. CASE s \in sessions
  <2>1. AddsEvent(p) /\ TablesInv' /\ TablesStep
    BY <1>2, CommitTables DEF TablesStep
  <2>2. TypeOK /\ EventsLive /\ OpsInv /\ OpenInv /\ ChunksInv
    BY DEF IInv, RefInv, TablesInv
  <2>3. /\ op[p].step = "insert" /\ chunk' = chunk
        /\ open' = IF op[p].type = "COMMAND" THEN [open EXCEPT ![p] = nextId] ELSE open
        /\ Becomes(p, IF op[p].type = "NOTE" \/ op[p].type \in BookmarkTypes
                      THEN Operation("row", op[p].type, RowEvent(p)) ELSE Idle)
    BY <1>2 DEF Commit
  <2>4. /\ DOMAIN events' = DOMAIN events \cup {nextId}
        /\ \A id \in DOMAIN events : events'[id] = events[id]
        /\ nextId \in EventsOf(s)'
        /\ events'[nextId].type = op[p].type /\ events'[nextId].ref = op[p].ref
        /\ events'[nextId].resolution = "none"
    <3>1. /\ DOMAIN events' = DOMAIN events \cup {nextId}
          /\ \A id \in DOMAIN events : events'[id] = events[id]
          /\ events'[nextId] = NewEvent(p)
      BY <2>1, <2>3, NewIsLast
    <3>2. EventsOf(s)' = EventsOf(s) \cup {nextId}
      BY <2>1, <2>3, NewIsLast
    <3> QED
      BY <3>1, <3>2 DEF NewEvent
  <2>5. nextId \notin DOMAIN events /\ nextId \in Nat /\ nextId' = nextId + 1
        /\ sessions' = sessions /\ nextId \in EventIds
    <3>1. nextId <= MaxEvents /\ nextId \in Nat /\ nextId # 0 /\ MaxEvents \in Nat
      BY <2>2, <2>3, MaxEventsAssumption DEF IInv, WithinBounds, TypeOK
    <3> QED
      BY <3>1, <2>1, <2>2, NextIdIsNew DEF AddsEvent, EventIds
  <2>6. /\ op[p] \in OpType /\ op[p].type \in Types /\ op[p].ref \in EventIdsOrNone
        /\ nextId \in EventIdsOrNone
    <3>1. op[p] \in OpType
      BY <2>2, Types0
    <3>2. EventIds \subseteq EventIdsOrNone
      BY MaxEventsAssumption DEF EventIds, EventIdsOrNone
    <3> QED
      BY <2>5, <3>1, <3>2 DEF OpType
  <2>7. op[p].type = "COMMAND" => p \in Recorders
    BY <2>2, <2>3 DEF OpsInv, OpRefs
  <2>8. OpsInv'
    <3>0. \A q \in Recorders \ {p} : open'[q] = open[q]
      BY <2>2, <2>3 DEF TypeOK
    <3>1. CASE op[p].type = "NOTE"
      <4>1. PICK o : o = Operation("row", "NOTE", nextId)
        OBVIOUS
      <4>2. Becomes(p, o)
        BY <2>3, <3>1, <4>1 DEF RowEvent
      <4>3. o \in OpType /\ o.step = "row" /\ o.type = "NOTE" /\ o.ref = nextId
        <5>1. o \in OpType
          BY <2>6, <3>1, <4>1, OperationType
        <5> QED
          BY <4>1, <5>1 DEF Operation
      <4>4. OpRefs(p, o)'
        BY <1>2, <2>4, <2>5, <3>1, <4>3 DEF OpRefs, Known
      <4> QED
        BY <2>1, <2>2, <3>0, <4>2, <4>3, <4>4, OpsStay
    <3>2. CASE op[p].type \in BookmarkTypes
      <4>1. PICK ref : ref = op[p].ref
        OBVIOUS
      <4>2. PICK o : o = Operation("row", op[p].type, ref)
        OBVIOUS
      <4>3. op[p].type # "NOTE"
        BY <3>2 DEF BookmarkTypes
      <4>4. Becomes(p, o)
        BY <2>3, <3>2, <4>1, <4>2, <4>3 DEF RowEvent
      <4>5. o \in OpType /\ o.step = "row" /\ o.type # "NOTE" /\ o.ref = ref
        <5>1. o \in OpType
          BY <2>6, <4>1, <4>2, OperationType
        <5> QED
          BY <4>2, <4>3, <5>1 DEF Operation
      <4>6. Known(p, ref, Types)
        BY <2>2, <2>3, <3>2, <4>1 DEF OpsInv, OpRefs
      <4>7. Known(p, ref, Types)'
        BY <2>1, <2>2, <4>6, KnownStays
      <4>8. Bookmarked(s, ref)'
        BY <2>4, <3>2, <4>1 DEF Bookmarked
      <4>9. OpRefs(p, o)'
        BY <4>5, <4>7, <4>8 DEF OpRefs
      <4> QED
        BY <2>1, <2>2, <3>0, <4>4, <4>5, <4>9, OpsStay
    <3>3. CASE op[p].type # "NOTE" /\ op[p].type \notin BookmarkTypes
      <4>1. Becomes(p, Idle) /\ Idle \in OpType
        BY <2>3, <3>3, IdleType
      <4>2. OpRefs(p, Idle)' /\ Idle.step # "close"
        BY DEF Idle, OpRefs
      <4> QED
        BY <2>1, <2>2, <3>0, <4>1, <4>2, OpsStay
    <3> QED
      BY <3>1, <3>2, <3>3
  <2>9. OpenInv'
    <3>1. CASE op[p].type # "COMMAND"
      <4>1. open' = open
        BY <2>3, <3>1
      <4>2. \A q \in Recorders : open[q] # NoEvent /\ open[q] \in DOMAIN events' =>
                open[q] \in DOMAIN events
                /\ events'[open[q]].resolution = events[open[q]].resolution
        BY <2>2, <2>4, <2>5 DEF OpenInv, Known
      <4> QED
        BY <2>1, <2>2, <4>1, <4>2, OpensStay
    <3>2. CASE op[p].type = "COMMAND"
      <4>1. /\ p \in Recorders /\ open'[p] = nextId
            /\ \A q \in Recorders \ {p} : open'[q] = open[q]
        BY <2>2, <2>3, <2>7, <3>2 DEF TypeOK
      <4>2. ASSUME NEW q \in Recorders, q # p, open'[q] # NoEvent
            PROVE  /\ Known(q, open[q], {"COMMAND"})' /\ open'[q] # nextId
                   /\ open'[q] \in DOMAIN events' =>
                         open'[q] \in EventsOf(SessionOf[q])
                         /\ events'[open'[q]].type = "COMMAND"
                         /\ events'[open'[q]].resolution = "none"
        <5>1. PICK id : id = open[q]
          OBVIOUS
        <5>2. open'[q] = id /\ Known(q, id, {"COMMAND"})
          BY <2>2, <4>1, <4>2, <5>1 DEF OpenInv
        <5>3. Known(q, id, {"COMMAND"})'
          BY <2>1, <2>2, <5>2, KnownStays DEF Procs
        <5>4. id # nextId
          BY <2>5, <5>2 DEF Known
        <5>5. id \in DOMAIN events =>
                  /\ id \in EventsOf(SessionOf[q]) /\ events[id].type = "COMMAND"
                  /\ events[id].resolution = "none"
          BY <2>2, <4>1, <4>2, <5>1 DEF OpenInv, OpenCommandIsPrivate
        <5> QED
          BY <2>4, <5>2, <5>3, <5>4, <5>5
      <4>3. Known(p, open[p], {"COMMAND"})'
        BY <1>2, <2>4, <2>5, <3>2, <4>1 DEF Known
      <4>4. \A t : \A id \in EventsOf(t) : id \in EventsOf(t)'
        BY <2>4 DEF EventsOf
      <4>5. OpenCommandIsPrivate'
        <5>1. ASSUME NEW q \in Recorders, open'[q] # NoEvent,
                     NEW r \in Recorders, open'[r] = open'[q]
              PROVE  r = q
          <6>1. CASE q # p /\ r # p
            BY <2>2, <4>1, <5>1, <6>1 DEF OpenInv, OpenCommandIsPrivate
          <6>2. CASE q = p /\ r # p
            BY <4>1, <4>2, <5>1, <6>2
          <6>3. CASE q # p /\ r = p
            BY <4>1, <4>2, <5>1, <6>3
          <6> QED
            BY <6>1, <6>2, <6>3
        <5>2. ASSUME NEW q \in Recorders, open'[q] # NoEvent, open'[q] \in DOMAIN events'
              PROVE  /\ open'[q] \in EventsOf(SessionOf[q])'
                     /\ events'[open'[q]].type = "COMMAND"
                     /\ events'[open'[q]].resolution = "none"
          <6>1. CASE q = p
            BY <2>4, <3>2, <4>1, <6>1
          <6>2. CASE q # p
            BY <4>2, <4>4, <5>2, <6>2
          <6> QED
            BY <6>1, <6>2
        <5> QED
          BY <5>1, <5>2 DEF OpenCommandIsPrivate
      <4> QED
        BY <4>2, <4>3, <4>5 DEF OpenInv
    <3> QED
      BY <3>1, <3>2
  <2>10. ChunksInv'
    BY <2>1, <2>2, <2>3, ChunksStay
  <2> QED
    BY <2>1, <2>8, <2>9, <2>10 DEF RefInv
<1> QED
  BY <1>1, <1>2

----------------------------------------------------------------------------
(* The other writes *)

\* The row of a note or a bookmark.
LEMMA InsertRowRefs ==
    ASSUME TypeOK, RefInv, NEW p \in Procs, InsertRow(p)
    PROVE  RefInv'
<1> DEFINE s == SessionOf[p]
<1>1. PICK ref : ref = op[p].ref
  OBVIOUS
<1>2. PICK row : row = [session |-> s, event |-> ref]
  OBVIOUS
<1>3. /\ op[p].step = "row" /\ Becomes(p, Idle)
      /\ open' = open /\ chunk' = chunk /\ indexed' = indexed
      /\ sessions' = sessions /\ events' = events /\ nextId' = nextId
      /\ notes' = IF ReferencesExist(s, ref) /\ op[p].type = "NOTE"
                  THEN notes \cup {row} ELSE notes
      /\ bookmarks' = IF ReferencesExist(s, ref) /\ op[p].type # "NOTE"
                      THEN bookmarks \cup {row} ELSE bookmarks
  BY <1>1, <1>2 DEF InsertRow
<1>4. TypeOK /\ TablesInv /\ EventsLive /\ OpsInv /\ OpenInv /\ ChunksInv
  BY DEF RefInv, TablesInv
<1>5. KeepsEvents /\ TablesStep
  BY <1>3 DEF KeepsEvents, TablesStep
<1>6. \A t : EventsOf(t)' = EventsOf(t)
  BY <1>3 DEF EventsOf
<1>7. EventsLive' /\ IndexExact'
  <2>1. EventsLive'
    BY <1>4, <1>5, EventsLiveStay
  <2>2. IndexExact'
    BY <1>3, <1>4, <1>6 DEF TablesInv, IndexExact, Searchable
  <2> QED
    BY <2>1, <2>2
<1>8. row.session = s /\ row.event = ref
  BY <1>2
<1>9. PointersStayInTimeline'
  <2>1. ASSUME NEW id \in DOMAIN events,
               (events[id].type = "OUTPUT" /\ events[id].ref # NoEvent)
                   \/ events[id].type \in BookmarkTypes
        PROVE  /\ (events[id].ref \in EventsOf(events[id].session))'
               /\ events[events[id].ref].seq < events[id].seq
               /\ events[id].type = "OUTPUT" => events[events[id].ref].type = "COMMAND"
    BY <1>3, <1>4, <1>6, <2>1 DEF TablesInv, PointersStayInTimeline
  <2>2. ASSUME NEW r \in notes'
        PROVE  r.event \in EventsOf(r.session) /\ events[r.event].type = "NOTE"
    <3>1. CASE r \in notes
      BY <1>4, <3>1 DEF TablesInv, PointersStayInTimeline
    <3>2. CASE r \notin notes
      <4>1. r = row /\ op[p].type = "NOTE" /\ s \in sessions
        BY <1>3, <2>2, <3>2 DEF ReferencesExist
      <4> QED
        BY <1>1, <1>3, <1>4, <1>8, <4>1 DEF OpsInv, OpRefs, Known
    <3> QED
      BY <3>1, <3>2
  <2>3. ASSUME NEW r \in bookmarks'
        PROVE  r.event \in EventsOf(r.session) /\ Bookmarked(r.session, r.event)
    <3>1. CASE r \in bookmarks
      BY <1>4, <3>1 DEF TablesInv, PointersStayInTimeline, Bookmarked
    <3>2. CASE r \notin bookmarks
      <4>1. r = row /\ op[p].type # "NOTE" /\ s \in sessions
        BY <1>3, <2>3, <3>2 DEF ReferencesExist
      <4> QED
        BY <1>1, <1>3, <1>4, <1>8, <4>1 DEF OpsInv, OpRefs, Known
    <3> QED
      BY <3>1, <3>2
  <2> QED
    BY <1>3, <1>6, <2>1, <2>2, <2>3 DEF PointersStayInTimeline, Bookmarked
<1>10. OpsInv'
  <2>1. OpRefs(p, Idle)' /\ Idle.step # "close" /\ Idle \in OpType
    BY IdleType DEF Idle, OpRefs
  <2> QED
    BY <1>3, <1>4, <1>5, <2>1, OpsStay
<1>11. OpenInv'
  BY <1>3, <1>4, <1>5, OpensStay
<1>12. ChunksInv'
  BY <1>3, <1>4, <1>5, ChunksStay
<1> QED
  BY <1>7, <1>9, <1>10, <1>11, <1>12 DEF RefInv, TablesInv

\* The UPDATE of close_command changes the resolution of the command that the
\* recorder has open, if its row is still there, and of no other event.
LEMMA CloseWritesEvents ==
    ASSUME TypeOK, RefInv, NEW p \in Recorders, CloseWrites(p)
    PROVE  /\ open[p] # NoEvent
           /\ \A id \in DOMAIN events \ {open[p]} : events'[id] = events[id]
           /\ open[p] \in DOMAIN events =>
                 /\ events[open[p]].type = "COMMAND"
                 /\ events[open[p]].resolution = "none"
                 /\ events'[open[p]] = [events[open[p]] EXCEPT
                        !.resolution = events'[open[p]].resolution]
           /\ KeepsEvents
<1>1. open[p] # NoEvent /\ op[p].ref = open[p]
  BY DEF CloseWrites, RefInv, OpsInv, Procs
<1>2. PICK how \in Closings :
          events' = IF open[p] \in DOMAIN events
                    THEN [events EXCEPT ![open[p]].resolution = how] ELSE events
  BY <1>1 DEF CloseWrites
<1>3. open[p] \in DOMAIN events =>
          events[open[p]].type = "COMMAND" /\ events[open[p]].resolution = "none"
  BY <1>1 DEF RefInv, OpenInv, OpenCommandIsPrivate
<1>4. /\ DOMAIN events' = DOMAIN events
      /\ \A id \in DOMAIN events \ {open[p]} : events'[id] = events[id]
      /\ open[p] \in DOMAIN events =>
            events'[open[p]] = [events[open[p]] EXCEPT !.resolution = how]
  BY <1>2
<1>5. open[p] \in DOMAIN events => events[open[p]] \in EventType
  BY EventTypes
<1>6. open[p] \in DOMAIN events => events'[open[p]].resolution = how
  BY <1>4, <1>5 DEF EventType
<1>7. sessions' = sessions /\ nextId' = nextId
  BY DEF CloseWrites
<1>8. KeepsEvents
  BY <1>4, <1>5, <1>7 DEF KeepsEvents, EventType
<1> QED
  BY <1>1, <1>3, <1>4, <1>6, <1>8

\* The UPDATE of close_command.
LEMMA CloseWritesRefs ==
    ASSUME TypeOK, RefInv, NEW p \in Recorders, CloseWrites(p)
    PROVE  RefInv'
<1>1. p \in Procs
  BY DEF Procs
<1>2. /\ Becomes(p, Idle) /\ chunk' = chunk
      /\ UNCHANGED <<indexed, notes, bookmarks>>
      /\ open' = [open EXCEPT ![p] = NoEvent]
  BY DEF CloseWrites
<1>3. /\ \A q \in Recorders : open'[q] \in {open[q], NoEvent}
      /\ \A q \in Recorders \ {p} : open'[q] = open[q]
      /\ open'[p] = NoEvent
  BY <1>2 DEF TypeOK
<1>4. TypeOK /\ TablesInv /\ EventsLive /\ OpsInv /\ OpenInv /\ ChunksInv
  BY DEF RefInv, TablesInv
<1>5. KeepsEvents /\ TablesStep /\ DOMAIN events' = DOMAIN events
  BY CloseWritesEvents DEF TablesStep, KeepsEvents
<1>6. TablesInv'
  BY <1>2, <1>4, <1>5, TablesStay
<1>7. OpsInv'
  <2>1. OpRefs(p, Idle)' /\ Idle.step # "close" /\ Idle \in OpType
    BY IdleType DEF Idle, OpRefs
  <2> QED
    BY <1>1, <1>2, <1>3, <1>4, <1>5, <2>1, OpsStay
<1>8. OpenInv'
  <2>1. ASSUME NEW q \in Recorders, open'[q] # NoEvent, open[q] \in DOMAIN events'
        PROVE  open[q] \in DOMAIN events
               /\ events'[open[q]].resolution = events[open[q]].resolution
    <3>1. q # p /\ open[q] # NoEvent
      BY <1>3, <2>1
    <3>2. open[q] # open[p]
      BY <1>4, <3>1 DEF OpenInv, OpenCommandIsPrivate
    <3> QED
      BY <1>5, <2>1, <3>2, CloseWritesEvents
  <2> QED
    BY <1>3, <1>4, <1>5, <2>1, OpensStay
<1>9. ChunksInv'
  BY <1>2, <1>4, <1>5, ChunksStay
<1> QED
  BY <1>6, <1>7, <1>8, <1>9 DEF RefInv

\* DELETE of a session.
LEMMA DeleteRefs ==
    ASSUME TypeOK, RefInv, NEW s \in Sessions, DeleteSession(s)
    PROVE  RefInv'
<1>1. LosesSession(s) /\ TablesStep
  BY DEF DeleteSession, LosesSession, TablesStep
<1>2. /\ op' = op /\ open' = open /\ chunk' = chunk /\ indexed' = indexed
      /\ notes' = {row \in notes : row.session # s}
      /\ bookmarks' = {row \in bookmarks : row.session # s}
      /\ sessions' = sessions \ {s}
  BY DEF DeleteSession
<1>3. TypeOK /\ TablesInv /\ EventsLive /\ OpsInv /\ OpenInv /\ ChunksInv
  BY DEF RefInv, TablesInv
<1>4. /\ DOMAIN events' = DOMAIN events \ EventsOf(s)
      /\ \A id \in DOMAIN events' : events'[id] = events[id]
  BY <1>1 DEF LosesSession
<1>5. \A t : t # s => EventsOf(t)' = EventsOf(t)
  BY <1>4 DEF EventsOf
<1>6. \A id \in DOMAIN events' : id \in DOMAIN events /\ events[id].session # s
  BY <1>4 DEF EventsOf
<1>7. EventsLive'
  BY <1>1, <1>3, EventsLiveStay
<1>8. IndexExact'
  <2>1. ASSUME NEW row \in indexed, row.session \in sessions'
        PROVE  row.event \in EventsOf(row.session)'
               /\ Searchable(events'[row.event].type)
    <3>1. /\ row.event \in EventsOf(row.session)
          /\ Searchable(events[row.event].type)
          /\ row.session # s
      BY <1>2, <1>3, <2>1 DEF TablesInv, IndexExact
    <3>2. row.event \in EventsOf(row.session)'
      BY <1>5, <3>1
    <3>3. row.event \in DOMAIN events'
      BY <3>2 DEF EventsOf
    <3> QED
      BY <1>4, <3>1, <3>2, <3>3
  <2>2. ASSUME NEW id \in DOMAIN events', Searchable(events'[id].type)
        PROVE  [session |-> events'[id].session, event |-> id] \in indexed
    BY <1>3, <1>4, <1>6, <2>2 DEF TablesInv, IndexExact
  <2> QED
    BY <1>2, <2>1, <2>2 DEF IndexExact, Searchable
<1>9. PointersStayInTimeline'
  <2>0. \A t : t # s => \A id \in EventsOf(t) :
            id \in EventsOf(t)' /\ events'[id] = events[id]
    <3>1. \A t : \A id \in EventsOf(t)' : id \in DOMAIN events'
      BY DEF EventsOf
    <3> QED
      BY <1>4, <1>5, <3>1
  <2>1. ASSUME NEW id \in DOMAIN events',
               (events'[id].type = "OUTPUT" /\ events'[id].ref # NoEvent)
                   \/ events'[id].type \in BookmarkTypes
        PROVE  /\ (events[id].ref \in EventsOf(events[id].session))'
               /\ (events[events[id].ref].seq < events[id].seq)'
               /\ (events[id].type = "OUTPUT" => events[events[id].ref].type = "COMMAND")'
    <3>1. id \in DOMAIN events /\ events'[id] = events[id] /\ events[id].session # s
      BY <1>4, <1>6
    <3>2. PICK ref, t : ref = events[id].ref /\ t = events[id].session
      OBVIOUS
    <3>3. /\ ref \in EventsOf(t) /\ t # s
          /\ events[ref].seq < events[id].seq
          /\ events[id].type = "OUTPUT" => events[ref].type = "COMMAND"
      BY <1>3, <2>1, <3>1, <3>2 DEF TablesInv, PointersStayInTimeline
    <3>4. events'[ref] = events[ref] /\ ref \in EventsOf(t)'
      BY <2>0, <3>3
    <3>5. (events[id].ref \in EventsOf(events[id].session))'
      BY <3>1, <3>2, <3>4
    <3> QED
      BY <3>1, <3>2, <3>3, <3>4, <3>5
  <2>2. ASSUME NEW row \in notes'
        PROVE  row.event \in EventsOf(row.session)' /\ events'[row.event].type = "NOTE"
    BY <1>2, <1>3, <2>0, <2>2 DEF TablesInv, PointersStayInTimeline
  <2>3. ASSUME NEW row \in bookmarks'
        PROVE  row.event \in EventsOf(row.session)'
               /\ Bookmarked(row.session, row.event)'
    <3>1. /\ row.session # s /\ row.event \in EventsOf(row.session)
          /\ \E id \in EventsOf(row.session) :
                events[id].type \in BookmarkTypes /\ events[id].ref = row.event
      BY <1>2, <1>3, <2>3 DEF TablesInv, PointersStayInTimeline
    <3> QED
      BY <2>0, <3>1 DEF Bookmarked
  <2> QED
    BY <2>1, <2>2, <2>3 DEF PointersStayInTimeline, Bookmarked
<1>10. OpsInv'
  <2>1. ASSUME NEW q \in Procs PROVE OpRefs(q, op[q])'
    <3>1. PICK r : r = op[q]
      OBVIOUS
    <3>2. OpRefs(q, r)'
      BY <1>1, <1>3, <3>1, OpRefsStay DEF OpsInv
    <3>3. op'[q] = r
      BY <1>2, <3>1
    <3> QED
      BY <3>2, <3>3
  <2> QED
    BY <1>2, <1>3, <2>1 DEF OpsInv
<1>11. OpenInv'
  <2>1. \A q \in Recorders : open[q] \in DOMAIN events' =>
            open[q] \in DOMAIN events
            /\ events'[open[q]].resolution = events[open[q]].resolution
    BY <1>4, <1>6
  <2> QED
    BY <1>1, <1>2, <1>3, <2>1, OpensStay
<1>12. ChunksInv'
  BY <1>1, <1>2, <1>3, ChunksStay
<1> QED
  BY <1>7, <1>8, <1>9, <1>10, <1>11, <1>12 DEF RefInv, TablesInv

----------------------------------------------------------------------------
(* The invariant *)

\* An empty database refers to nothing.
LEMMA InitRefInv == Init => RefInv
<1> SUFFICES ASSUME Init PROVE RefInv
  OBVIOUS
<1>1. DOMAIN events = {} /\ indexed = {} /\ notes = {} /\ bookmarks = {}
  BY DEF Init
<1>2. TablesInv
  BY <1>1 DEF TablesInv, EventsLive, IndexExact, PointersStayInTimeline
<1>3. \A q \in Procs : op[q] = Idle
  BY DEF Init
<1>4. OpsInv
  BY <1>3, IdleRefs DEF OpsInv
<1>5. \A q \in Recorders : open[q] = NoEvent /\ chunk[q].command = NoEvent
  BY DEF Init, NoChunk
<1> QED
  BY <1>2, <1>4, <1>5 DEF RefInv, OpenInv, OpenCommandIsPrivate, ChunksInv

\* Every step keeps it.
LEMMA NextRefInv == IInv /\ RefInv /\ [Next]_vars => RefInv'
<1> SUFFICES ASSUME IInv, RefInv, [Next]_vars PROVE RefInv'
  OBVIOUS
<1> TypeOK
  BY DEF IInv
<1>1. ASSUME NEW p \in Procs, Stores(p) PROVE RefInv'
  BY <1>1, CommitRefs, InsertRowRefs, FailuresRefs DEF Stores
<1>2. ASSUME NEW p \in Recorders, Records(p) PROVE RefInv'
  BY <1>2, RecordsRefs, CloseWritesRefs
<1>3. ASSUME NEW p \in Clients, Annotates(p) PROVE RefInv'
  BY <1>3, AnnotatesRefs
<1>4. ASSUME NEW s \in Sessions, DeleteSession(s) PROVE RefInv'
  BY <1>4, DeleteRefs
<1>5. CASE UNCHANGED vars
  <2>1. UNCHANGED tables /\ op' = op /\ open' = open /\ chunk' = chunk
    BY <1>5 DEF vars
  <2>2. CASE Procs = {}
    <3>1. TablesInv'
      BY <2>1, SameTables DEF RefInv
    <3>2. Recorders = {}
      BY <2>2 DEF Procs
    <3> QED
      BY <2>2, <3>1, <3>2
         DEF RefInv, OpsInv, OpenInv, OpenCommandIsPrivate, ChunksInv
  <2>3. ASSUME NEW p \in Procs PROVE RefInv'
    BY <2>1, ForgetRefs
  <2> QED
    BY <2>2, <2>3
<1> QED
  BY <1>1, <1>2, <1>3, <1>4, <1>5 DEF Next

\* The invariant of this module, with that of the numbering.
LEMMA RefInvariant == Spec => [](IInv /\ RefInv)
<1>1. Init => IInv /\ RefInv
  BY InitIInv, InitRefInv
<1>2. IInv /\ RefInv /\ [Next]_vars => (IInv /\ RefInv)'
  BY NextIInv, NextRefInv
<1> QED
  BY <1>1, <1>2, PTL DEF Spec

----------------------------------------------------------------------------
(* The theorems *)

\* PointersStayInTimeline: OUTPUT events refer to a COMMAND, BOOKMARK events to
\* their target, and rows of notes and bookmarks to their event, all earlier in
\* the same timeline, also when sessions are deleted under the two steps of
\* create_note and create_bookmark.
THEOREM PointersHold == Spec => []PointersStayInTimeline
<1>1. IInv /\ RefInv => PointersStayInTimeline
  BY DEF RefInv, TablesInv
<1> QED
  BY <1>1, RefInvariant, PTL

\* SearchMatchesTimeline: `search` finds what the timeline holds, although the
\* full-text index keeps the rows of deleted sessions.
THEOREM SearchIsExact == Spec => []SearchMatchesTimeline
<1>1. IInv /\ RefInv => SearchMatchesTimeline
  <2> SUFFICES ASSUME IInv, RefInv, NEW s \in Sessions
               PROVE  Hits(s) = {id \in EventsOf(s) :
                          events[id].type \notin {"SESSION", "UNNAMED BOOKMARK"}}
    BY DEF SearchMatchesTimeline
  <2>1. EventsLive /\ IndexExact /\ TypeOK
    BY DEF RefInv, TablesInv, IInv
  <2>2. \A id \in EventsOf(s) :
            Searchable(events[id].type) <=>
                events[id].type \notin {"SESSION", "UNNAMED BOOKMARK"}
    <3> SUFFICES ASSUME NEW id \in EventsOf(s)
                 PROVE  Searchable(events[id].type) <=>
                          events[id].type \notin {"SESSION", "UNNAMED BOOKMARK"}
      OBVIOUS
    <3>1. events[id].type \in Types
      BY <2>1, EventTypes DEF EventsOf, EventType
    <3> QED
      BY <3>1 DEF Searchable, Types, BookmarkTypes
  <2>3. CASE s \notin sessions
    <3>1. EventsOf(s) = {}
      BY <2>1, <2>3 DEF EventsLive, EventsOf
    <3>2. Hits(s) = {}
      BY <2>3 DEF Hits
    <3> QED
      BY <3>1, <3>2
  <2>4. CASE s \in sessions
    <3>1. ASSUME NEW row \in indexed, row.session = s
          PROVE  row.event \in EventsOf(s) /\ Searchable(events[row.event].type)
      BY <2>1, <2>4, <3>1 DEF IndexExact
    <3>2. ASSUME NEW id \in EventsOf(s), Searchable(events[id].type)
          PROVE  [session |-> s, event |-> id] \in indexed
      BY <2>1, <3>2 DEF IndexExact, EventsOf
    <3>3. \A id : id \in Hits(s) <=> id \in EventsOf(s) /\ Searchable(events[id].type)
      <4>1. ASSUME NEW id \in Hits(s)
            PROVE  id \in EventsOf(s) /\ Searchable(events[id].type)
        BY <3>1, <4>1 DEF Hits
      <4>2. ASSUME NEW id \in EventsOf(s), Searchable(events[id].type)
            PROVE  id \in Hits(s)
        <5>1. PICK row \in indexed : row = [session |-> s, event |-> id]
          BY <3>2, <4>2
        <5>2. row.session = s /\ row.event = id
          BY <5>1
        <5> QED
          BY <2>4, <5>1, <5>2 DEF Hits
      <4> QED
        BY <4>1, <4>2
    <3> QED
      BY <2>2, <3>3
  <2> QED
    BY <2>3, <2>4
<1> QED
  BY <1>1, RefInvariant, PTL

\* OpenCommandIsPrivate: each recorder has a COMMAND of its own open, which
\* nobody has closed yet.
THEOREM OpenCommandsArePrivate == Spec => []OpenCommandIsPrivate
<1>1. IInv /\ RefInv => OpenCommandIsPrivate
  BY DEF RefInv, OpenInv
<1> QED
  BY <1>1, RefInvariant, PTL

\* AppendOnly: no event changes, but for an open command that is closed, once.
THEOREM EventsAreKept == Spec => AppendOnly
<1> DEFINE Kept ==
      \A id \in DOMAIN events \cap DOMAIN events' :
          \/ events'[id] = events[id]
          \/ /\ events[id].type = "COMMAND" /\ events[id].resolution = "none"
             /\ events'[id] = [events[id] EXCEPT
                                  !.resolution = events'[id].resolution]
<1>1. ASSUME IInv, RefInv, Next PROVE Kept
  <2> TypeOK
    BY <1>1 DEF IInv
  <2>1. CASE \E p \in Recorders : CloseWrites(p)
    BY <1>1, <2>1, CloseWritesEvents
  <2>2. CASE \E p \in Procs : Commit(p)
    BY <2>2, NextIdIsNew DEF Commit, WithNewEvent
  <2>3. CASE \E s \in Sessions : DeleteSession(s)
    BY <2>3 DEF DeleteSession
  <2>4. CASE \E p \in Procs : InsertRow(p) \/ GivesUp(p) \/ Crash(p)
    BY <2>4 DEF InsertRow, GivesUp, Crash, tables
  <2>5. CASE \E p \in Recorders : Records(p) /\ ~CloseWrites(p)
    BY <2>5 DEF Records, LogLifecycle, ReadOutput, LogOutput, LosesOutput,
                OpenCommand, CloseReads, tables
  <2>6. CASE \E p \in Clients : Annotates(p)
    BY <2>6 DEF Annotates, WriteNote, PickTarget, WriteBookmark, tables
  <2> QED
    BY <1>1, <2>1, <2>2, <2>3, <2>4, <2>5, <2>6 DEF Next, Stores
<1>2. IInv /\ RefInv /\ [Next]_vars => [Kept]_vars
  BY <1>1
<1> QED
  BY <1>2, RefInvariant, PTL DEF Spec, AppendOnly

----------------------------------------------------------------------------
(***************************************************************************)
(* The event log implements Timeline: what the storage operations do to    *)
(* the tables is, seen through TimelineOf, an AppendEvent, an Erase or     *)
(* nothing at all.                                                         *)
(***************************************************************************)

Entries == [id : EventIds, type : Types]
Log == [s \in Sessions |-> TimelineOf(s)]

\* In the timeline of s, as in its table, the event with sequence n comes n-th.
Shaped(s) ==
    /\ MaxSequence(s) \in Nat
    /\ TimelineOf(s) \in [1 .. MaxSequence(s) -> Entries]
    /\ \A id \in EventsOf(s) :
          /\ events[id].seq \in 1 .. MaxSequence(s)
          /\ TimelineOf(s)[events[id].seq] = [id |-> id, type |-> events[id].type]
    /\ \A n \in 1 .. MaxSequence(s) : \E id \in EventsOf(s) : events[id].seq = n

\* Numbering gives the timelines their shape.
LEMMA ShapeOfTimelines == IInv => \A s \in Sessions : Shaped(s)
<1> SUFFICES ASSUME IInv, NEW s \in Sessions PROVE Shaped(s)
  OBVIOUS
<1> DEFINE m == MaxSequence(s)
           At(n) == CHOOSE i \in EventsOf(s) : events[i].seq = n
<1>1. m \in Nat /\ Sequences(s) = 1 .. m
  BY NextSequenceBound DEF IInv
<1>2. \A id \in EventsOf(s) : events[id].seq \in 1 .. m
  BY <1>1 DEF Sequences
<1>3. \A n \in 1 .. m : \E id \in EventsOf(s) : events[id].seq = n
  BY <1>1 DEF Sequences
<1>4. \A id \in EventsOf(s) : id \in DOMAIN events /\ id \in Nat
  BY NextIdIsNew DEF IInv, EventsOf
<1>5. \A a, b \in EventsOf(s) : events[a].seq = events[b].seq => a = b
  <2> SUFFICES ASSUME NEW a \in EventsOf(s), NEW b \in EventsOf(s), a # b
               PROVE  events[a].seq # events[b].seq
    OBVIOUS
  <2>1. a < b \/ b < a
    BY <1>4
  <2>2. events[a].seq < events[b].seq \/ events[b].seq < events[a].seq
    BY <2>1 DEF IInv, Numbered
  <2> QED
    BY <1>1, <1>2, <2>2
<1>6. \A n \in 1 .. m : At(n) \in EventsOf(s) /\ events[At(n)].seq = n
  BY <1>3
<1>7. TimelineOf(s) = [n \in 1 .. m |-> [id |-> At(n), type |-> events[At(n)].type]]
  BY DEF TimelineOf
<1>8. \A id \in EventsOf(s) : At(events[id].seq) = id
  <2> SUFFICES ASSUME NEW id \in EventsOf(s) PROVE At(events[id].seq) = id
    OBVIOUS
  <2>1. PICK n : n = events[id].seq
    OBVIOUS
  <2>2. At(n) \in EventsOf(s) /\ events[At(n)].seq = n
    BY <1>2, <1>6, <2>1
  <2> QED
    BY <1>5, <2>1, <2>2
<1>9. \A id \in EventsOf(s) : id \in EventIds /\ events[id].type \in Types
  BY <1>4, EventTypes DEF IInv, EventType
<1> HIDE DEF At, m
<1>10. TimelineOf(s) \in [1 .. m -> Entries]
  BY <1>6, <1>7, <1>9 DEF Entries
<1>11. \A id \in EventsOf(s) :
           TimelineOf(s)[events[id].seq] = [id |-> id, type |-> events[id].type]
  BY <1>2, <1>7, <1>8
<1> QED
  BY <1>1, <1>2, <1>3, <1>10, <1>11 DEF Shaped, m

\* ... also after a step.
LEMMA ShapeAfter == IInv' => (\A s \in Sessions : Shaped(s))'
  BY ShapeOfTimelines, PTL

\* A timeline is a sequence.
LEMMA TimelineIsSeq ==
    ASSUME IInv, NEW s \in Sessions
    PROVE  TimelineOf(s) \in Seq(Entries) /\ Len(TimelineOf(s)) = MaxSequence(s)
<1>1. Shaped(s)
  BY ShapeOfTimelines
<1>2. PICK f, n : f = TimelineOf(s) /\ n = MaxSequence(s)
  OBVIOUS
<1>3. n \in Nat /\ f \in [1 .. n -> Entries]
  BY <1>1, <1>2 DEF Shaped
<1>4. f \in Seq(Entries) /\ Len(f) = n
  BY <1>3
<1> QED
  BY <1>2, <1>4

----------------------------------------------------------------------------
(* What the steps do to a timeline *)

\* A timeline keeps its entries while its events keep number and type.
LEMMA TimelineStays ==
    ASSUME IInv, IInv', NEW s \in Sessions,
           EventsOf(s)' = EventsOf(s),
           \A id \in EventsOf(s) : /\ events'[id].seq = events[id].seq
                                   /\ events'[id].type = events[id].type
    PROVE  TimelineOf(s)' = TimelineOf(s)
<1>1. Shaped(s) /\ Shaped(s)'
  BY ShapeOfTimelines, ShapeAfter
<1>2. PICK f, g, m, n : /\ f = TimelineOf(s) /\ m = MaxSequence(s)
                        /\ g = TimelineOf(s)' /\ n = MaxSequence(s)'
  OBVIOUS
<1>3. /\ m \in Nat /\ n \in Nat
      /\ f \in [1 .. m -> Entries] /\ g \in [1 .. n -> Entries]
  BY <1>1, <1>2 DEF Shaped, Entries
<1>4. /\ \A k \in 1 .. m : \E id \in EventsOf(s) : events[id].seq = k
      /\ \A k \in 1 .. n : \E id \in EventsOf(s) : events[id].seq = k
      /\ \A id \in EventsOf(s) :
            /\ events[id].seq \in 1 .. m /\ events[id].seq \in 1 .. n
            /\ f[events[id].seq] = [id |-> id, type |-> events[id].type]
            /\ g[events[id].seq] = [id |-> id, type |-> events[id].type]
  BY <1>1, <1>2 DEF Shaped
<1>5. 1 .. m = 1 .. n
  BY <1>3, <1>4
<1>6. ASSUME NEW k \in 1 .. m PROVE f[k] = g[k]
  <2>1. PICK id \in EventsOf(s) : events[id].seq = k
    BY <1>4
  <2> QED
    BY <1>4, <2>1
<1>7. f = g
  BY <1>3, <1>5, <1>6
<1> QED
  BY <1>2, <1>7

\* The timeline in which an event is committed grows by it at the end.
LEMMA TimelineGrows ==
    ASSUME IInv, IInv', NEW p \in Procs, op[p].step = "insert", AddsEvent(p)
    PROVE  TimelineOf(SessionOf[p])' =
               Append(TimelineOf(SessionOf[p]), [id |-> nextId, type |-> op[p].type])
<1> DEFINE s == SessionOf[p]
<1>1. s \in Sessions
  OBVIOUS
<1>2. Shaped(s) /\ Shaped(s)'
  BY <1>1, ShapeOfTimelines, ShapeAfter
<1>3. PICK f, g, m, n, e : /\ f = TimelineOf(s) /\ m = MaxSequence(s)
                           /\ g = TimelineOf(s)' /\ n = MaxSequence(s)'
                           /\ e = [id |-> nextId, type |-> op[p].type]
  OBVIOUS
<1>4. /\ m \in Nat /\ n \in Nat
      /\ f \in [1 .. m -> Entries] /\ g \in [1 .. n -> Entries]
  BY <1>2, <1>3 DEF Shaped, Entries
<1>5. /\ \A id \in DOMAIN events : events'[id] = events[id]
      /\ events'[nextId].type = op[p].type
      /\ events'[nextId].seq = m + 1
      /\ EventsOf(s)' = EventsOf(s) \cup {nextId}
  <2>1. op[p].seq = m + 1
    BY <1>3 DEF IInv, MaximumStaysRead, NextSequence
  <2>2. /\ \A id \in DOMAIN events : events'[id] = events[id]
        /\ events'[nextId] = NewEvent(p)
    BY NewIsLast
  <2>3. EventsOf(s)' = EventsOf(s) \cup {nextId}
    BY NewIsLast
  <2> QED
    BY <2>1, <2>2, <2>3 DEF NewEvent
<1>6. /\ \A k \in 1 .. m : \E id \in EventsOf(s) : events[id].seq = k
      /\ \A id \in EventsOf(s) :
            /\ events[id].seq \in 1 .. m
            /\ f[events[id].seq] = [id |-> id, type |-> events[id].type]
  BY <1>2, <1>3 DEF Shaped
<1>7. /\ \A k \in 1 .. n : \E id \in EventsOf(s)' : events'[id].seq = k
      /\ \A id \in EventsOf(s)' :
            /\ events'[id].seq \in 1 .. n
            /\ g[events'[id].seq] = [id |-> id, type |-> events'[id].type]
  BY <1>2, <1>3 DEF Shaped
<1>8. \A id \in EventsOf(s) : id \in EventsOf(s)' /\ events'[id] = events[id]
  BY <1>5 DEF EventsOf
<1>9. n = m + 1
  <2>1. m + 1 \in 1 .. n
    BY <1>5, <1>7
  <2>2. ASSUME n > m + 1 PROVE FALSE
    <3>1. n \in 1 .. n
      BY <1>4, <2>2
    <3>2. PICK id \in EventsOf(s)' : events'[id].seq = n
      BY <1>7, <3>1
    <3>3. id \in EventsOf(s)
      BY <1>4, <1>5, <2>2, <3>2
    <3> QED
      <4>1. events[id].seq = n /\ events[id].seq \in 1 .. m
        BY <1>6, <1>8, <3>2, <3>3
      <4> QED
        BY <1>4, <2>2, <4>1
  <2> QED
    BY <1>4, <2>1, <2>2
<1>10. g[m + 1] = e
  BY <1>3, <1>5, <1>7
<1>11. ASSUME NEW k \in 1 .. m PROVE g[k] = f[k]
  <2>1. PICK id \in EventsOf(s) : events[id].seq = k
    BY <1>6
  <2>2. f[k] = [id |-> id, type |-> events[id].type]
    BY <1>6, <2>1
  <2>3. id \in EventsOf(s)' /\ events'[id] = events[id]
    BY <1>8
  <2>4. g[k] = [id |-> id, type |-> events[id].type]
    BY <1>7, <2>1, <2>3
  <2> QED
    BY <2>2, <2>4
<1>12. /\ f \in Seq(Entries) /\ Len(f) = m
       /\ g \in Seq(Entries) /\ Len(g) = m + 1
       /\ e \in Entries
  BY <1>4, <1>9, <1>10
<1>13. /\ Append(f, e) \in Seq(Entries) /\ Len(Append(f, e)) = m + 1
       /\ \A k \in 1 .. m : Append(f, e)[k] = f[k]
       /\ Append(f, e)[m + 1] = e
  BY <1>12, AppendProperties
<1>14. \A k \in 1 .. Len(g) : g[k] = Append(f, e)[k]
  BY <1>4, <1>10, <1>11, <1>12, <1>13
<1>15. g = Append(f, e)
  BY <1>12, <1>13, <1>14, SeqEqual
<1> QED
  BY <1>3, <1>15

\* A timeline without events is empty.
LEMMA NoEventsNoTimeline == \A s : EventsOf(s) = {} => TimelineOf(s) = <<>>
<1> SUFFICES ASSUME NEW s, EventsOf(s) = {} PROVE TimelineOf(s) = <<>>
  OBVIOUS
<1>1. Sequences(s) = {}
  BY DEF Sequences
<1>2. MaxSequence(s) = 0
  BY <1>1 DEF MaxSequence
<1>3. PICK f : f = TimelineOf(s)
  OBVIOUS
<1>4. f \in [1 .. 0 -> Entries]
  BY <1>2, <1>3 DEF TimelineOf
<1>5. f \in Seq(Entries) /\ Len(f) = 0
  BY <1>4
<1>6. f = <<>>
  BY <1>5, EmptySeq
<1> QED
  BY <1>3, <1>6

\* ... also after a step.
LEMMA EmptyAfter == (\A s : EventsOf(s) = {} => TimelineOf(s) = <<>>)'
  BY NoEventsNoTimeline, PTL

----------------------------------------------------------------------------
(* Every step of the event log is one of its timelines *)

\* What the actions do to the tables.
LEMMA NextTables ==
    ASSUME IInv, RefInv, Next
    PROVE  \/ KeepsEvents
           \/ \E p \in Procs : op[p].step = "insert" /\ AddsEvent(p)
           \/ \E s \in sessions : LosesSession(s)
<1> TypeOK /\ TablesInv
  BY DEF IInv, RefInv
<1>1. CASE UNCHANGED tables
  BY <1>1, SameTables
<1>2. CASE \E p \in Recorders : CloseWrites(p)
  BY <1>2, CloseWritesEvents
<1>3. ASSUME NEW p \in Procs, Commit(p), SessionOf[p] \in sessions
      PROVE  op[p].step = "insert" /\ AddsEvent(p)
  BY <1>3 DEF Commit, AddsEvent
<1>4. ASSUME NEW p \in Procs, Commit(p), SessionOf[p] \notin sessions
      PROVE  UNCHANGED tables
  BY <1>4 DEF Commit, tables
<1>5. CASE \E p \in Procs : InsertRow(p)
  BY <1>5 DEF InsertRow, KeepsEvents
<1>6. CASE \E s \in Sessions : DeleteSession(s)
  BY <1>6 DEF DeleteSession, LosesSession
<1>7. CASE \E p \in Procs : GivesUp(p) \/ Crash(p)
  BY <1>1, <1>7 DEF GivesUp, Crash
<1>8. CASE \E p \in Recorders : Records(p) /\ ~CloseWrites(p)
  BY <1>1, <1>8 DEF Records, LogLifecycle, ReadOutput, LogOutput, LosesOutput,
                    OpenCommand, CloseReads
<1>9. CASE \E p \in Clients : Annotates(p)
  BY <1>1, <1>9 DEF Annotates, WriteNote, PickTarget, WriteBookmark
<1> QED
  BY <1>1, <1>2, <1>3, <1>4, <1>5, <1>6, <1>7, <1>8, <1>9 DEF Next, Stores

\* A COMMIT appends.
LEMMA AddsAppends ==
    ASSUME IInv, IInv', NEW p \in Procs, op[p].step = "insert", AddsEvent(p)
    PROVE  Abstract!Next
<1> DEFINE s == SessionOf[p]
           e == [id |-> nextId, type |-> op[p].type]
<1>1. s \in Sessions /\ s \in sessions /\ sessions' = sessions
  BY DEF AddsEvent
<1>2. TimelineOf(s)' = Append(TimelineOf(s), e)
  BY TimelineGrows
<1>3. ASSUME NEW t \in Sessions, t # s PROVE TimelineOf(t)' = TimelineOf(t)
  <2>1. /\ \A id \in DOMAIN events : events'[id] = events[id]
        /\ EventsOf(t)' = EventsOf(t) \cup (IF t = s THEN {nextId} ELSE {})
    BY NewIsLast
  <2>2. EventsOf(t)' = EventsOf(t)
    BY <1>3, <2>1
  <2>3. \A id \in EventsOf(t) : events'[id] = events[id]
    BY <2>1 DEF EventsOf
  <2> QED
    BY <2>2, <2>3, TimelineStays
<1>4. /\ TimelineOf(s) \in Seq(Entries)
      /\ Len(TimelineOf(s)) \in Nat
  BY <1>1, TimelineIsSeq
<1>5. e \in Entries
  <2>1. nextId \in EventIds
    <3>1. nextId <= MaxEvents /\ nextId \in 1 .. MaxEvents + 1 /\ MaxEvents \in Nat
      BY MaxEventsAssumption DEF IInv, WithinBounds, TypeOK
    <3> QED
      BY <3>1 DEF EventIds
  <2>2. op[p].type \in Types
    BY DEF IInv, TypeOK, OpType
  <2> QED
    BY <2>1, <2>2 DEF Entries
<1>6. ASSUME NEW t \in Sessions, NEW n \in DOMAIN TimelineOf(t)
      PROVE  TimelineOf(t)[n].id < nextId
  <2>1. Shaped(t)
    BY ShapeOfTimelines
  <2>2. n \in 1 .. MaxSequence(t)
    BY <2>1 DEF Shaped
  <2>3. PICK id \in EventsOf(t) : events[id].seq = n
    BY <2>1, <2>2 DEF Shaped
  <2>4. TimelineOf(t)[n] = [id |-> id, type |-> events[id].type]
    BY <2>1, <2>3 DEF Shaped
  <2>5. id < nextId
    BY <2>3, NextIdIsNew DEF IInv, EventsOf
  <2> QED
    BY <2>4, <2>5
<1>7. Log' = [Log EXCEPT ![s] = Append(@, e)]
  BY <1>1, <1>2, <1>3 DEF Log
<1>8. \A t \in Sessions : \A n \in DOMAIN Log[t] : Log[t][n].id < e.id
  BY <1>6 DEF Log
<1>9. Log'[s] # <<>> /\ Log'[s][Len(Log'[s])] = e
  <2>1. PICK f : f = TimelineOf(s)
    OBVIOUS
  <2>2. Append(f, e) # <<>> /\ Append(f, e)[Len(Append(f, e))] = e
    BY <1>4, <1>5, <2>1, AppendProperties
  <2>3. Log'[s] = Append(f, e)
    BY <1>1, <1>2, <2>1 DEF Log
  <2> QED
    BY <2>2, <2>3
<1> QED
  BY <1>1, <1>7, <1>8, <1>9 DEF Log, Abstract!Next, Abstract!AppendEvent, Abstract!Newest

\* A DELETE erases.
LEMMA LosesErases ==
    ASSUME IInv, IInv', NEW s \in sessions, LosesSession(s)
    PROVE  Abstract!Next
<1>1. s \in Sessions /\ sessions' = sessions \ {s}
  BY DEF IInv, TypeOK, LosesSession
<1>2. /\ DOMAIN events' = DOMAIN events \ EventsOf(s)
      /\ \A id \in DOMAIN events' : events'[id] = events[id]
  BY DEF LosesSession
<1>3. TimelineOf(s)' = <<>>
  <2>1. EventsOf(s)' = {}
    BY <1>2 DEF EventsOf
  <2> QED
    BY <2>1, EmptyAfter
<1>4. ASSUME NEW t \in Sessions, t # s PROVE TimelineOf(t)' = TimelineOf(t)
  <2>1. EventsOf(t)' = EventsOf(t)
    BY <1>2, <1>4 DEF EventsOf
  <2>2. \A id \in EventsOf(t)' : id \in DOMAIN events'
    BY DEF EventsOf
  <2> QED
    BY <1>2, <2>1, <2>2, TimelineStays
<1>5. Log' = [Log EXCEPT ![s] = <<>>]
  BY <1>1, <1>3, <1>4 DEF Log
<1> QED
  BY <1>1, <1>5 DEF Log, Abstract!Next, Abstract!Erase

\* Anything else leaves the timelines alone.
LEMMA KeepsStutters ==
    ASSUME IInv, IInv', KeepsEvents
    PROVE  UNCHANGED <<sessions, Log>>
<1>1. ASSUME NEW s \in Sessions PROVE TimelineOf(s)' = TimelineOf(s)
  <2>1. EventsOf(s)' = EventsOf(s)
    BY DEF KeepsEvents, EventsOf
  <2>2. \A id \in EventsOf(s) : /\ events'[id].seq = events[id].seq
                                /\ events'[id].type = events[id].type
    BY DEF KeepsEvents, EventsOf
  <2> QED
    BY <2>1, <2>2, TimelineStays
<1>2. Log' = Log
  BY <1>1 DEF Log
<1> QED
  BY <1>2 DEF KeepsEvents

\* TimelineSpec: BEGIN IMMEDIATE, the INSERTs, the UPDATE of close_command and
\* the cascading DELETE implement one append-only timeline for each session.
THEOREM LogImplementsTimeline == Spec => TimelineSpec
<1>1. Init => Abstract!Init
  <2> SUFFICES ASSUME Init PROVE Abstract!Init
    OBVIOUS
  <2>1. \A s : EventsOf(s) = {}
    BY DEF Init, EventsOf
  <2>2. \A s : TimelineOf(s) = <<>>
    BY <2>1, NoEventsNoTimeline
  <2> QED
    BY <2>2 DEF Init, Abstract!Init
<1>2. IInv /\ RefInv /\ IInv' /\ [Next]_vars => [Abstract!Next]_<<sessions, Log>>
  <2> SUFFICES ASSUME IInv, RefInv, IInv', [Next]_vars
               PROVE  Abstract!Next \/ UNCHANGED <<sessions, Log>>
    OBVIOUS
  <2>1. CASE Next
    BY <2>1, NextTables, AddsAppends, LosesErases, KeepsStutters
  <2>2. CASE UNCHANGED vars
    <3>1. KeepsEvents
      BY <2>2 DEF vars, tables, KeepsEvents
    <3> QED
      BY <3>1, KeepsStutters
  <2> QED
    BY <2>1, <2>2
<1>3. Log = [s \in Sessions |-> TimelineOf(s)]
  BY DEF Log
<1> QED
  BY <1>1, <1>2, RefInvariant, PTL DEF Spec, Log, TimelineSpec, Abstract!Spec
=============================================================================
