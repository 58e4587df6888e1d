------------------------------ MODULE EventLog ------------------------------
(***************************************************************************)
(* The event log of termnote-storage: the tables events, events_fts, notes *)
(* and bookmarks of one SQLite database, written at the same time by the   *)
(* recorders of a session (after a takeover the old and the new one) and   *)
(* by the commands `termnote note`, `bookmark` and `delete`.               *)
(*                                                                         *)
(* A process performs one storage operation at a time, for its connection  *)
(* is behind a mutex (db.rs SharedConn); op[p] is the operation under way. *)
(* SQLite gives the write lock to one connection; a statement outside a    *)
(* transaction is atomic and needs the lock free; whoever waits for longer *)
(* than busy_timeout gives up with SQLITE_BUSY.                            *)
(***************************************************************************)
EXTENDS Integers

CONSTANTS
    Sessions,       \* session ids
    Recorders,      \* processes that record (recorder.rs)
    Clients,        \* processes that run `note` and `bookmark`
    SessionOf,      \* the session each process works on
    Nobody,         \* the write lock is free
    Closings,       \* the resolutions with which commands are closed
    MaxEvents       \* bound on the number of events ever created

Procs == Recorders \cup Clients

ASSUME SessionOfAssumption == SessionOf \in [Procs -> Sessions]
ASSUME NobodyAssumption == Nobody \notin Procs
ASSUME ClosingsAssumption ==
    Closings \subseteq {"pgrp", "shell-hook", "session-end", "builtin-instant"}
ASSUME MaxEventsAssumption == MaxEvents \in Nat

VARIABLES
    sessions,       \* the rows of table sessions
    events,         \* table events, by id
    nextId,         \* the next id (AUTOINCREMENT never reuses one)
    indexed,        \* table events_fts: session and event of each row
    notes,          \* table notes: session and event of each row
    bookmarks,      \* table bookmarks: session and target of each row
    writeLock,      \* the process whose transaction holds the write lock
    op,             \* the storage operation each process is in
    open,           \* Shared.open_command_id of each recorder
    chunk           \* the output thread has read output of command `command`

tables == <<sessions, events, nextId, indexed, notes, bookmarks>>
vars == <<tables, writeLock, op, open, chunk>>

----------------------------------------------------------------------------
(* The tables *)

NoEvent == 0
EventIds == 1 .. MaxEvents
EventIdsOrNone == 0 .. MaxEvents
BookmarkTypes == {"BOOKMARK", "UNNAMED BOOKMARK"}   \* with and without a name
Types == {"SESSION", "COMMAND", "OUTPUT", "NOTE"} \cup BookmarkTypes

\* searchable_text: what append_event puts in the full-text index.
\* Mutant: output is left out.
SearchableNoOutput(type) == type \in {"COMMAND", "NOTE", "BOOKMARK"}
Searchable(type) == type \in {"COMMAND", "OUTPUT", "NOTE", "BOOKMARK"}

EventsOf(s) == {id \in DOMAIN events : events[id].session = s}
Sequences(s) == {events[id].seq : id \in EventsOf(s)}

\* SELECT COALESCE(MAX(sequence), 0) .. WHERE session_id.
MaxSequence(s) ==
    LET seqs == Sequences(s)
    IN IF seqs = {} THEN 0 ELSE CHOOSE m \in seqs : \A n \in seqs : n <= m
\* Mutant: the + 1 of the SELECT is missing.
NextSequenceIsMax(s) == MaxSequence(s)
NextSequence(s) == MaxSequence(s) + 1

\* latest_event_id: the id of the event at the end of the timeline.
LatestEvent(s) ==
    IF EventsOf(s) = {} THEN NoEvent
    ELSE CHOOSE id \in EventsOf(s) : events[id].seq = MaxSequence(s)

\* search: an index row is a hit when its session joins.  These are the rows that
\* MATCH and LIMIT then choose from; neither is modelled.
Hits(s) == {row.event : row \in {i \in indexed : i.session = s /\ s \in sessions}}

\* PRAGMA foreign_keys = ON, for a row of notes or bookmarks.  Mutant: OFF.
ReferencesUnchecked(s, id) == TRUE
ReferencesExist(s, id) == s \in sessions /\ id \in DOMAIN events

----------------------------------------------------------------------------
Idle == [step |-> "idle", type |-> "SESSION", ref |-> NoEvent, seq |-> 0]
Operation(step, type, ref) ==
    [step |-> step, type |-> type, ref |-> ref, seq |-> 0]
NoChunk == [full |-> FALSE, command |-> NoEvent]

Free(p) == op[p].step = "idle"
Becomes(p, o) == op' = [op EXCEPT ![p] = o]

Init ==
    /\ sessions = Sessions
    /\ events = [id \in {} |-> 0] /\ nextId = 1
    /\ indexed = {} /\ notes = {} /\ bookmarks = {}
    /\ writeLock = Nobody
    /\ op = [p \in Procs |-> Idle]
    /\ open = [p \in Recorders |-> NoEvent]
    /\ chunk = [p \in Recorders |-> NoChunk]

----------------------------------------------------------------------------
(* append_event: BEGIN IMMEDIATE, SELECT MAX(sequence), INSERTs, COMMIT *)

\* Mutant: a deferred transaction reads before it has the lock.
BeginsDeferred(p, type, ref) ==
    /\ nextId <= MaxEvents
    /\ writeLock' = p
    /\ Becomes(p, [step |-> "insert", type |-> type, ref |-> ref,
                   seq |-> NextSequence(SessionOf[p])])

\* append_event takes the write lock up front and then reads the maximum.  A
\* caller that waits for the lock is not in the model until it has it; if it
\* gives up, the event is never appended.
Begins(p, type, ref) ==
    /\ writeLock = Nobody /\ nextId <= MaxEvents        \* bound
    /\ writeLock' = p
    /\ Becomes(p, [step |-> "insert", type |-> type, ref |-> ref,
                   seq |-> NextSequence(SessionOf[p])])

NewEvent(p) ==
    [session |-> SessionOf[p], seq |-> op[p].seq, type |-> op[p].type,
     ref |-> op[p].ref, resolution |-> "none"]
WithNewEvent(p) ==
    [id \in DOMAIN events \cup {nextId} |->
        IF id = nextId THEN NewEvent(p) ELSE events[id]]

\* The event_id of the row to come: the note's own event, but the bookmark's
\* target.
RowEvent(p) == IF op[p].type = "NOTE" THEN nextId ELSE op[p].ref

\* INSERT into events and events_fts, COMMIT, and what the caller does with
\* the id: open_command remembers it, create_note and create_bookmark insert
\* their row.  The session may be gone: the foreign key fails and the
\* transaction rolls back; UNIQUE(session_id, sequence) never does, which is
\* what GaplessTimeline shows.  (open_command stores the id a moment later; an
\* output chunk read in between is one read just before the COMMIT.)
Commit(p) ==
    /\ op[p].step = "insert"
    /\ writeLock' = Nobody
    /\ LET type == op[p].type IN
       IF SessionOf[p] \in sessions
       THEN /\ events' = WithNewEvent(p)
            /\ nextId' = nextId + 1
            /\ indexed' = IF Searchable(type)
                  THEN indexed \cup {[session |-> SessionOf[p], event |-> nextId]}
                  ELSE indexed
            /\ open' = IF type = "COMMAND" THEN [open EXCEPT ![p] = nextId] ELSE open
            /\ Becomes(p, IF type = "NOTE" \/ type \in BookmarkTypes
                          THEN Operation("row", type, RowEvent(p)) ELSE Idle)
       ELSE UNCHANGED <<events, nextId, indexed, open>> /\ Becomes(p, Idle)
    /\ UNCHANGED <<sessions, notes, bookmarks, chunk>>

\* The second statement of create_note and create_bookmark, on its own.
InsertRow(p) ==
    /\ op[p].step = "row" /\ writeLock = Nobody
    /\ LET row == [session |-> SessionOf[p], event |-> op[p].ref]
           ok == ReferencesExist(SessionOf[p], op[p].ref)
           isNote == op[p].type = "NOTE"
       IN /\ notes' = IF ok /\ isNote THEN notes \cup {row} ELSE notes
          /\ bookmarks' = IF ok /\ ~isNote THEN bookmarks \cup {row} ELSE bookmarks
    /\ Becomes(p, Idle)
    /\ UNCHANGED <<sessions, events, nextId, indexed, writeLock, open, chunk>>

----------------------------------------------------------------------------
(* The recorder *)

\* SESSION_START, SESSION_ATTACH, SESSION_DETACH.
LogLifecycle(p) ==
    /\ Free(p) /\ Begins(p, "SESSION", NoEvent)
    /\ UNCHANGED <<tables, open, chunk>>

\* The output thread has read a chunk and looks up the open command ...
ReadOutput(p) ==
    /\ ~chunk[p].full
    /\ chunk' = [chunk EXCEPT ![p] = [full |-> TRUE, command |-> open[p]]]
    /\ UNCHANGED <<tables, writeLock, op, open>>

\* ... and later appends the OUTPUT event.
LogOutput(p) ==
    /\ chunk[p].full
    /\ Free(p) /\ Begins(p, "OUTPUT", chunk[p].command)
    /\ chunk' = [chunk EXCEPT ![p] = NoChunk]
    /\ UNCHANGED <<tables, open>>

\* open_command, when the poller sees a job take the foreground; a builtin
\* that is recorded as instantaneous is opened and closed in a row.
OpenCommand(p) ==
    /\ open[p] = NoEvent
    /\ Free(p) /\ Begins(p, "COMMAND", NoEvent)
    /\ UNCHANGED <<tables, open, chunk>>

\* close_command, from the poller or at the end of run: reads the payload
\* (the row may have been deleted) ...
CloseReads(p) ==
    /\ Free(p) /\ open[p] # NoEvent
    /\ IF open[p] \in DOMAIN events
       THEN Becomes(p, Operation("close", "COMMAND", open[p])) /\ open' = open
       ELSE op' = op /\ open' = [open EXCEPT ![p] = NoEvent]
    /\ UNCHANGED <<tables, writeLock, chunk>>

\* Mutant: the recorder does not forget the command, and closes it again.
CloseWritesRemembers(p) ==
    /\ op[p].step = "close" /\ writeLock = Nobody
    /\ \E how \in Closings :
          events' = IF op[p].ref \in DOMAIN events
                    THEN [events EXCEPT ![op[p].ref].resolution = how] ELSE events
    /\ Becomes(p, Idle)
    /\ UNCHANGED <<sessions, nextId, indexed, notes, bookmarks, writeLock, open,
                   chunk>>

\* ... and writes it back with its resolution; the UPDATE of a deleted row
\* changes nothing.  Whatever the outcome the recorder forgets the command
\* (the close at the end of run is the last thing it does with it).
CloseWrites(p) ==
    /\ op[p].step = "close" /\ writeLock = Nobody
    /\ \E how \in Closings :
          events' = IF op[p].ref \in DOMAIN events
                    THEN [events EXCEPT ![op[p].ref].resolution = how] ELSE events
    /\ open' = [open EXCEPT ![p] = NoEvent]
    /\ Becomes(p, Idle)
    /\ UNCHANGED <<sessions, nextId, indexed, notes, bookmarks, writeLock, chunk>>

----------------------------------------------------------------------------
(* The commands *)

\* cmd_note, once the editor has saved; create_note.
WriteNote(p) ==
    /\ Free(p) /\ Begins(p, "NOTE", NoEvent)
    /\ UNCHANGED <<tables, open, chunk>>

\* cmd_bookmark reads the latest event; there must be one ...
PickTarget(p) ==
    /\ Free(p) /\ LatestEvent(SessionOf[p]) # NoEvent
    /\ Becomes(p, Operation("target", "BOOKMARK", LatestEvent(SessionOf[p])))
    /\ UNCHANGED <<tables, writeLock, open, chunk>>

\* ... and create_bookmark appends the BOOKMARK event for it.
WriteBookmark(p) ==
    /\ op[p].step = "target"
    /\ \E type \in BookmarkTypes : Begins(p, type, op[p].ref)
    /\ UNCHANGED <<tables, open, chunk>>

\* Mutant: foreign keys not enforced, so nothing cascades.
DeleteRowOnly(s) ==
    /\ s \in sessions /\ writeLock = Nobody
    /\ sessions' = sessions \ {s}
    /\ UNCHANGED <<events, nextId, indexed, notes, bookmarks, writeLock, op,
                   open, chunk>>

\* cmd_delete: DELETE FROM sessions, with ON DELETE CASCADE for events, notes
\* and bookmarks.  The full-text index has no foreign key and keeps its rows.
DeleteSession(s) ==
    /\ s \in sessions /\ writeLock = Nobody
    /\ sessions' = sessions \ {s}
    /\ events' = [id \in DOMAIN events \ EventsOf(s) |-> events[id]]
    /\ notes' = {row \in notes : row.session # s}
    /\ bookmarks' = {row \in bookmarks : row.session # s}
    /\ UNCHANGED <<nextId, indexed, writeLock, op, open, chunk>>

----------------------------------------------------------------------------
(* Failures *)

\* SQLITE_BUSY after busy_timeout.  A command exits with the error, and leaves
\* a NOTE or BOOKMARK event without its row if it got that far; a recorder logs
\* a warning and forgets the command it failed to close ...
GivesUp(p) ==
    /\ op[p].step \in {"target", "row", "close"}
    /\ writeLock # Nobody
    /\ open' = IF op[p].step = "close" THEN [open EXCEPT ![p] = NoEvent] ELSE open
    /\ Becomes(p, Idle)
    /\ UNCHANGED <<tables, writeLock, chunk>>

\* ... or drops the output that it failed to append.
LosesOutput(p) ==
    /\ chunk[p].full /\ writeLock \notin {Nobody, p}
    /\ chunk' = [chunk EXCEPT ![p] = NoChunk]
    /\ UNCHANGED <<tables, writeLock, op, open>>

\* A process is killed: its transaction rolls back, its memory is gone.
Crash(p) ==
    /\ \/ ~Free(p)
       \/ p \in Recorders /\ open[p] # NoEvent
       \/ p \in Recorders /\ chunk[p].full
    /\ writeLock' = IF writeLock = p THEN Nobody ELSE writeLock
    /\ Becomes(p, Idle)
    /\ open' = [q \in Recorders |-> IF q = p THEN NoEvent ELSE open[q]]
    /\ chunk' = [q \in Recorders |-> IF q = p THEN NoChunk ELSE chunk[q]]
    /\ UNCHANGED tables

----------------------------------------------------------------------------
Stores(p) == Commit(p) \/ InsertRow(p) \/ GivesUp(p) \/ Crash(p)
Records(p) ==
    \/ LogLifecycle(p) \/ ReadOutput(p) \/ LogOutput(p) \/ LosesOutput(p)
    \/ OpenCommand(p) \/ CloseReads(p) \/ CloseWrites(p)
Annotates(p) == WriteNote(p) \/ PickTarget(p) \/ WriteBookmark(p)
Next ==
    \/ \E p \in Procs : Stores(p)
    \/ \E p \in Recorders : Records(p)
    \/ \E p \in Clients : Annotates(p)
    \/ \E s \in Sessions : DeleteSession(s)

Spec == Init /\ [][Next]_vars

----------------------------------------------------------------------------
(* Properties *)

\* Every variable stays in its type.
EventType == [session : Sessions, seq : 1 .. MaxEvents, type : Types,
              ref : EventIdsOrNone, resolution : Closings \cup {"none"}]
RowType == [session : Sessions, event : EventIds]
OpType == [step : {"idle", "insert", "target", "row", "close"}, type : Types,
           ref : EventIdsOrNone, seq : 0 .. MaxEvents]
TypeOK ==
    /\ sessions \subseteq Sessions
    /\ nextId \in 1 .. MaxEvents + 1
    /\ DOMAIN events \subseteq 1 .. nextId - 1
    /\ \A id \in DOMAIN events : events[id] \in EventType
    /\ indexed \subseteq RowType
    /\ notes \subseteq RowType /\ bookmarks \subseteq RowType
    /\ writeLock \in Procs \cup {Nobody}
    /\ op \in [Procs -> OpType]
    /\ open \in [Recorders -> EventIdsOrNone]
    /\ chunk \in [Recorders -> [full : BOOLEAN, command : EventIdsOrNone]]

\* The timeline of a session is numbered 1, 2, 3, ... without a gap and
\* without a number given twice, and in the order of the ids, whichever
\* processes append to it (events.rs append_event, PRD section 75).
GaplessTimeline ==
    \A s \in Sessions :
        /\ Sequences(s) = 1 .. MaxSequence(s)
        /\ \A a, b \in EventsOf(s) : a < b => events[a].seq < events[b].seq

\* What BEGIN IMMEDIATE is for: the maximum a transaction has read is still the
\* maximum when it inserts, for no other transaction is open meanwhile.
MaximumStaysRead ==
    \A p \in Procs : op[p].step = "insert" =>
        writeLock = p /\ op[p].seq = NextSequence(SessionOf[p])

\* What points into a timeline points backwards into the same timeline, also
\* when the session is deleted under a two-step operation: an OUTPUT event at
\* its COMMAND, a BOOKMARK event at its target; and each row of notes and
\* bookmarks has its event.
PointersStayInTimeline ==
    /\ \A id \in DOMAIN events :
          LET e == events[id] IN
          (e.type = "OUTPUT" /\ e.ref # NoEvent) \/ e.type \in BookmarkTypes =>
              /\ e.ref \in EventsOf(e.session) /\ events[e.ref].seq < e.seq
              /\ e.type = "OUTPUT" => events[e.ref].type = "COMMAND"
    /\ \A row \in notes :
          row.event \in EventsOf(row.session) /\ events[row.event].type = "NOTE"
    /\ \A row \in bookmarks :
          /\ row.event \in EventsOf(row.session)
          /\ \E id \in EventsOf(row.session) :
                events[id].type \in BookmarkTypes /\ events[id].ref = row.event

\* Searching a session finds exactly what its timeline holds of commands,
\* output, notes and named bookmarks, and a deleted session is never found
\* although its text stays in the index (PRD section 43).
SearchMatchesTimeline ==
    \A s \in Sessions :
        Hits(s) = {id \in EventsOf(s) :
                      events[id].type \notin {"SESSION", "UNNAMED BOOKMARK"}}

\* An open command belongs to one recorder, which is the only one to close it:
\* two recorders on one session never share it, and until then it is open.
OpenCommandIsPrivate ==
    \A p \in Recorders : open[p] # NoEvent =>
        /\ \A q \in Recorders : open[q] = open[p] => q = p
        /\ open[p] \in DOMAIN events =>
              /\ open[p] \in EventsOf(SessionOf[p])
              /\ events[open[p]].type = "COMMAND"
              /\ events[open[p]].resolution = "none"

\* No event is ever changed, but for an open command that is closed; a closed
\* one never is (close_command's comment, PRD section 76).
AppendOnly ==
    [][\A id \in DOMAIN events \cap DOMAIN events' :
          \/ events'[id] = events[id]
          \/ /\ events[id].type = "COMMAND" /\ events[id].resolution = "none"
             /\ events'[id] = [events[id] EXCEPT
                                  !.resolution = events'[id].resolution]]_vars

\* The storage operations implement the abstract timelines: in the timeline of
\* s the event with sequence n comes n-th.
TimelineOf(s) ==
    [n \in 1 .. MaxSequence(s) |->
        LET id == CHOOSE i \in EventsOf(s) : events[i].seq = n
        IN [id |-> id, type |-> events[id].type]]
Abstract == INSTANCE Timeline
    WITH live <- sessions, log <- [s \in Sessions |-> TimelineOf(s)]
TimelineSpec == Abstract!Spec
=============================================================================
