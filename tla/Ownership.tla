----------------------------- MODULE Ownership -----------------------------
(***************************************************************************)
(* The single-terminal-ownership protocol of termnote.  One sessions row   *)
(* of the SQLite database is shared by processes that have no other link:  *)
(* each `termnote new` or `termnote attach` claims the row, runs the       *)
(* recorder (main input loop, watchdog, heartbeat, poller and PTY-output   *)
(* threads) and shuts down; `termnote detach`, `archive`, `restore` and    *)
(* `delete` update the same row from other processes.                      *)
(*                                                                         *)
(* Every SQL statement is atomic (SQLite serialises them); everything      *)
(* between two statements interleaves with the other processes.            *)
(*                                                                         *)
(* A statement that writes a time writes a clock reading made before it,   *)
(* so a reading and the UPDATE that uses it are apart.                     *)
(*                                                                         *)
(* Time is relative: row.age is now - heartbeat_at, timer[p] and           *)
(* pending[p] are the ages of clock readings of p, all in abstract ticks,  *)
(* so no clock value grows without bound.                                  *)
(***************************************************************************)
EXTENDS Integers

CONSTANTS
    Procs,            \* termnote processes: each runs one `new` or `attach`
    Nobody,           \* SQL NULL in active_pid
    RowIds, NoId,     \* session ids (UUIDs) still to be created; no such id
    HeartbeatPeriod,  \* HEARTBEAT_INTERVAL_SECS, in ticks
    StaleAfter,       \* STALE_AFTER_SECS, in ticks
    MaxDelay,         \* bound on how long a live process can be late
    MaxBeat,          \* bound on how long a beat can be under way
    Detachers,        \* bound: those in whose shells `termnote detach` is typed
    Commands          \* what users (and the outside world) do in the instance

ASSUME NobodyAssumption == Nobody \notin Procs
ASSUME NoIdAssumption == NoId \notin RowIds
ASSUME TimingAssumption ==
    /\ HeartbeatPeriod \in Nat \ {0}
    /\ StaleAfter \in Nat
    /\ MaxDelay \in Nat
    /\ MaxBeat \in Nat
    /\ HeartbeatPeriod <= MaxDelay
    /\ HeartbeatPeriod <= StaleAfter

VARIABLES
    row,          \* the row of sessions with the name all commands use
    usedIds,      \* ids given to a row so far
    pc,           \* where the main thread of each process is
    sid,          \* the session id the process works on
    holder,       \* the owner shown in the takeover prompt
    shellUp,      \* the shell (or a child of it) holds the PTY slave open
    shellExited,  \* Shared.shell_exited
    revoked,      \* Shared.ownership_revoked
    reason,       \* the StopReason main_input_loop returned
    timer,        \* age of the clock reading p claims with or last wrote
    pending,      \* age of the reading in p's unfinished beat, if it is in one
    detaching,    \* the session a `termnote detach` run in p's shell has read
    admin,        \* a `termnote archive` or `restore` that has read the row
    lateBy        \* history: by how much a beat of another process has made the
                  \* owner's heartbeat look older than the one the owner wrote

vars == <<row, usedIds, pc, sid, holder, shellUp, shellExited, revoked,
          reason, timer, pending, detaching, admin, lateBy>>
flags == <<shellUp, shellExited, revoked, reason>>
memory == <<sid, holder, timer, pending, flags>>    \* what dies with a process

----------------------------------------------------------------------------
(* The row *)

Statuses == {"NEW", "ACTIVE", "DETACHED", "ARCHIVED"}
AgeCap == StaleAfter + MaxDelay + 1     \* older ages are not told apart

Absent == [id |-> NoId, status |-> "NEW", archived |-> FALSE,
           owner |-> Nobody, age |-> 0]

RowPresent == row.id # NoId

\* Mutant: an INSERT OR REPLACE in place of UPDATE .. WHERE id.
RowOfUpsert(id) == id # NoId
RowOf(id) == RowPresent /\ row.id = id

\* try_claim_ownership, force_claim_ownership: the UPDATE.
OwnedRow(p, age) ==
    [row EXCEPT !.owner = p, !.age = age, !.status = "ACTIVE"]

\* release_ownership: the UPDATE names no owner, so it clears anybody's.
UnownedRow(status) ==
    [row EXCEPT !.owner = Nobody, !.age = 0, !.status = status]

\* set_status: the archived column follows ARCHIVED and ACTIVE only.
RowWithStatus(status) ==
    [row EXCEPT !.status = status,
                !.archived = CASE status = "ARCHIVED" -> TRUE
                               [] status = "ACTIVE" -> FALSE
                               [] OTHER -> @]

\* Mutants: a heartbeat that is just STALE_AFTER_SECS old counts as stale; no
\* heartbeat ever does.
ClaimableTooEarly(lag) == row.owner = Nobody \/ row.age - lag >= StaleAfter
ClaimableUnownedOnly(lag) == row.owner = Nobody

\* The WHERE clause of try_claim_ownership, for a caller whose clock reading
\* is already `lag` ticks old.
Claimable(lag) == row.owner = Nobody \/ row.age - lag > StaleAfter

----------------------------------------------------------------------------
(* Processes *)

\* From the claim to the end of the process: it believes it owns the session.
HeartbeatPhases == {"running", "stopWatchdog", "joinPoller", "joinOutput",
                    "stopHeartbeat"}
OwningPhases == {"killing", "claimed", "releasing"} \cup HeartbeatPhases
ShutdownPhases == (HeartbeatPhases \ {"running"}) \cup {"releasing"}
Finished == {"done", "crashed", "panicked"}
Phases == {"idle", "forceNew", "trying", "reread", "prompt", "forcing"}
            \cup OwningPhases \cup Finished

\* The heartbeat thread between two beats.
Asleep == -1

Owning(p) == pc[p] \in OwningPhases
Timed(p) == Owning(p) \/ pc[p] \in {"forceNew", "trying", "forcing"}
Forwarding(p) == pc[p] = "running"
WatchdogOn(p) == pc[p] \in {"running", "stopWatchdog"} /\ ~revoked[p]
HeartbeatOn(p) == pc[p] \in HeartbeatPhases
ShouldStop(p) == shellExited[p] \/ revoked[p]

Reasons == {"none", "ShellExited", "TerminalClosed", "OwnershipRevoked"}

\* A session that earlier commands left unowned.
LeftRow(id, status) ==
    [Absent EXCEPT !.id = id, !.status = status,
                   !.archived = (status = "ARCHIVED")]

Init ==
    /\ \/ row = Absent
       \/ \E id \in RowIds, s \in Statuses \ {"ACTIVE"} : row = LeftRow(id, s)
    /\ usedIds = {row.id} \ {NoId}
    /\ pc = [p \in Procs |-> "idle"]
    /\ sid = [p \in Procs |-> NoId]
    /\ holder = [p \in Procs |-> Nobody]
    /\ shellUp = [p \in Procs |-> FALSE]
    /\ shellExited = [p \in Procs |-> FALSE]
    /\ revoked = [p \in Procs |-> FALSE]
    /\ reason = [p \in Procs |-> "none"]
    /\ timer = [p \in Procs |-> 0]
    /\ pending = [p \in Procs |-> Asleep]
    /\ detaching = [p \in Procs |-> NoId]
    /\ admin = [op |-> "none", id |-> NoId]
    /\ lateBy = 0

Goto(p, phase) == pc' = [pc EXCEPT ![p] = phase]

\* Process q ends; what it kept in memory is forgotten, and closing its PTY
\* master hangs up its shell.
Forget(q) ==
    /\ sid' = [sid EXCEPT ![q] = NoId]
    /\ holder' = [holder EXCEPT ![q] = Nobody]
    /\ timer' = [timer EXCEPT ![q] = 0]
    /\ pending' = [pending EXCEPT ![q] = Asleep]
    /\ shellUp' = [shellUp EXCEPT ![q] = FALSE]
    /\ shellExited' = [shellExited EXCEPT ![q] = FALSE]
    /\ revoked' = [revoked EXCEPT ![q] = FALSE]
    /\ reason' = [reason EXCEPT ![q] = "none"]
Exit(p, how) == Goto(p, how) /\ Forget(p)

----------------------------------------------------------------------------
(* `termnote new`: manager.rs new_session *)

\* create_session: the name must be free; INSERT with status NEW.
CreateSession(p) ==
    /\ pc[p] = "idle" /\ "new" \in Commands
    /\ ~RowPresent
    /\ \E id \in RowIds \ usedIds :
          /\ row' = [Absent EXCEPT !.id = id]
          /\ usedIds' = usedIds \cup {id}
          /\ sid' = [sid EXCEPT ![p] = id]
    /\ Goto(p, "forceNew")
    /\ UNCHANGED <<holder, timer, detaching, admin, pending, flags, lateBy>>

\* force_claim_ownership reads the clock and runs an UPDATE that may have to
\* wait for SQLite's lock.
ForceOwner(p) ==
    \E lag \in 0 .. timer[p] :
        /\ timer' = [timer EXCEPT ![p] = lag]
        /\ IF RowOf(sid[p]) THEN row' = OwnedRow(p, lag) /\ lateBy' = 0
                            ELSE UNCHANGED <<row, lateBy>>

\* force_claim straight after the INSERT, whoever may own the row by now.
ForceClaimNew(p) ==
    /\ pc[p] = "forceNew"
    /\ ForceOwner(p)
    /\ Goto(p, "claimed")
    /\ UNCHANGED <<usedIds, sid, holder, detaching, admin, pending, flags>>

----------------------------------------------------------------------------
(* `termnote attach`: manager.rs attach_session, ownership.rs try_claim *)

\* require_by_name and the archived check; then try_claim reads the clock.
ReadSession(p) ==
    /\ pc[p] = "idle" /\ "attach" \in Commands
    /\ RowPresent /\ row.status # "ARCHIVED"
    /\ sid' = [sid EXCEPT ![p] = row.id]
    /\ timer' = [timer EXCEPT ![p] = 0]
    /\ Goto(p, "trying")
    /\ UNCHANGED <<row, usedIds, lateBy, holder, detaching, admin, pending,
                   flags>>

\* Mutant: the UPDATE without its WHERE clause on the heartbeat.
TryClaimAnyway(p) ==
    /\ pc[p] = "trying" /\ RowOf(sid[p])
    /\ row' = OwnedRow(p, timer[p])
    /\ lateBy' = 0
    /\ Goto(p, "claimed")
    /\ UNCHANGED <<usedIds, sid, holder, timer, detaching, admin, pending,
                   flags>>

\* The conditional UPDATE that claims an unowned or stale row.
TryClaim(p) ==
    /\ pc[p] = "trying"
    /\ IF RowOf(sid[p]) /\ Claimable(timer[p])
       THEN /\ row' = OwnedRow(p, timer[p]) /\ Goto(p, "claimed")
            /\ timer' = timer /\ lateBy' = 0
       ELSE /\ row' = row /\ Goto(p, "reread")
            /\ timer' = [timer EXCEPT ![p] = 0] /\ lateBy' = lateBy
    /\ UNCHANGED <<usedIds, sid, holder, detaching, admin, pending, flags>>

\* After a failed UPDATE: re-read the row; both `expect`s can fail.
RereadOwner(p) ==
    /\ pc[p] = "reread"
    /\ IF RowOf(sid[p]) /\ row.owner # Nobody
       THEN /\ holder' = [holder EXCEPT ![p] = row.owner]
            /\ Goto(p, "prompt")
            /\ UNCHANGED <<sid, timer, pending, flags>>
       ELSE Exit(p, "panicked")
    /\ UNCHANGED <<row, usedIds, lateBy, detaching, admin>>

\* prompt_takeover: continue in the previous terminal, or cancel.
DeclineTakeover(p) ==
    /\ pc[p] = "prompt"
    /\ Exit(p, "done")
    /\ UNCHANGED <<row, usedIds, lateBy, detaching, admin>>

\* prompt_takeover: continue here.
AcceptTakeover(p) ==
    /\ pc[p] = "prompt" /\ "takeover" \in Commands
    /\ Goto(p, "forcing")
    /\ UNCHANGED <<row, usedIds, lateBy, memory, detaching, admin>>

ForceClaim(p) ==
    /\ pc[p] = "forcing"
    /\ ForceOwner(p)
    /\ Goto(p, "killing")
    /\ UNCHANGED <<usedIds, sid, holder, detaching, admin, pending, flags>>

\* SIGTERM for the owner the prompt showed, if it is on this host and still
\* runs.  termnote installs no handler, so the signal kills it outright.
KillPrevious(p) ==
    /\ pc[p] = "killing"
    /\ pc[holder[p]] \notin Finished
    /\ pc' = [pc EXCEPT ![p] = "claimed", ![holder[p]] = "crashed"]
    /\ Forget(holder[p])
    /\ UNCHANGED <<row, usedIds, lateBy, detaching, admin>>

\* The previous owner is on another host, or already gone.
SparePrevious(p) ==
    /\ pc[p] = "killing"
    /\ Goto(p, "claimed")
    /\ holder' = [holder EXCEPT ![p] = Nobody]
    /\ UNCHANGED <<row, usedIds, lateBy, sid, timer, detaching, admin, pending,
                   flags>>

----------------------------------------------------------------------------
(* recorder.rs run *)

\* get_by_id(..).expect, spawn_shell, raw mode, then the threads.  The
\* heartbeat thread reads the clock for its first beat at once.
StartRecorder(p) ==
    /\ pc[p] = "claimed" /\ RowOf(sid[p])
    /\ shellUp' = [shellUp EXCEPT ![p] = TRUE]
    /\ pending' = [pending EXCEPT ![p] = 0]
    /\ Goto(p, "running")
    /\ UNCHANGED <<row, usedIds, lateBy, sid, holder, shellExited, revoked,
                   reason, timer, detaching, admin>>

\* The row was deleted since the claim: the `expect` on get_by_id panics.
StartPanics(p) ==
    /\ pc[p] = "claimed" /\ ~RowOf(sid[p])
    /\ Exit(p, "panicked")
    /\ UNCHANGED <<row, usedIds, lateBy, detaching, admin>>

\* spawn_shell or raw mode fails: `?` returns and nothing releases the row.
StartFails(p) ==
    /\ pc[p] = "claimed" /\ RowOf(sid[p])
    /\ Exit(p, "done")
    /\ UNCHANGED <<row, usedIds, lateBy, detaching, admin>>

\* The heartbeat thread reads the clock, HEARTBEAT_INTERVAL_SECS after its
\* last beat ...
BeatReads(p) ==
    /\ HeartbeatOn(p) /\ pending[p] = Asleep /\ timer[p] >= HeartbeatPeriod
    /\ pending' = [pending EXCEPT ![p] = 0]
    /\ UNCHANGED <<row, usedIds, lateBy, pc, sid, holder, timer, detaching,
                   admin, flags>>

\* Mutant: the heartbeat UPDATE matches no row (a wrong key).
BeatMissesRow(p) ==
    /\ pending[p] >= 0
    /\ timer' = [timer EXCEPT ![p] = pending[p]]
    /\ pending' = [pending EXCEPT ![p] = Asleep]
    /\ UNCHANGED <<row, usedIds, lateBy, pc, sid, holder, detaching, admin,
                   flags>>

\* By how much a heartbeat of this age is behind the last one that q wrote.
Setback(q, age) == IF Owning(q) /\ age > timer[q] THEN age - timer[q] ELSE 0

\* ... waits for the connection and for SQLite's lock, and refreshes whatever
\* owner the row has by then, with the time it had read.
BeatWrites(p) ==
    /\ pending[p] >= 0
    /\ IF RowOf(sid[p]) /\ row.owner # Nobody
       THEN /\ row' = [row EXCEPT !.age = pending[p]]
            /\ lateBy' = Setback(row.owner, pending[p])
       ELSE UNCHANGED <<row, lateBy>>
    /\ timer' = [timer EXCEPT ![p] = pending[p]]
    /\ pending' = [pending EXCEPT ![p] = Asleep]
    /\ UNCHANGED <<usedIds, pc, sid, holder, detaching, admin, flags>>

\* The UPDATE fails (SQLITE_BUSY after busy_timeout); nobody looks at that.
BeatFails(p) ==
    /\ pending[p] >= 0
    /\ pending' = [pending EXCEPT ![p] = Asleep]
    /\ UNCHANGED <<row, usedIds, lateBy, pc, sid, holder, timer, detaching,
                   admin, flags>>

\* Mutant: the watchdog looks for a missing owner only.
WatchdogMissesTakeover(p) ==
    /\ WatchdogOn(p)
    /\ RowOf(sid[p]) /\ row.owner = Nobody
    /\ revoked' = [revoked EXCEPT ![p] = TRUE]
    /\ UNCHANGED <<row, usedIds, lateBy, pc, sid, holder, shellUp, shellExited,
                   reason, timer, pending, detaching, admin>>

\* The watchdog thread: the row exists and names somebody else, or nobody.
WatchdogRevokes(p) ==
    /\ WatchdogOn(p)
    /\ RowOf(sid[p]) /\ row.owner # p
    /\ revoked' = [revoked EXCEPT ![p] = TRUE]
    /\ UNCHANGED <<row, usedIds, lateBy, pc, sid, holder, shellUp, shellExited,
                   reason, timer, pending, detaching, admin>>

\* The shell exits (exit, Ctrl-D, killed) ...
ShellExits(p) ==
    /\ shellUp[p]
    /\ shellUp' = [shellUp EXCEPT ![p] = FALSE]
    /\ UNCHANGED <<row, usedIds, lateBy, pc, sid, holder, shellExited, revoked,
                   reason, timer, pending, detaching, admin>>

\* ... and the PTY-output thread, blocked in read until then, sees EOF.
OutputEof(p) ==
    /\ HeartbeatOn(p) /\ ~shellUp[p] /\ ~shellExited[p]
    /\ shellExited' = [shellExited EXCEPT ![p] = TRUE]
    /\ UNCHANGED <<row, usedIds, lateBy, pc, sid, holder, shellUp, revoked,
                   reason, timer, pending, detaching, admin>>

InputLoopReturns(p, r) ==
    /\ pc[p] = "running"
    /\ reason' = [reason EXCEPT ![p] = r]
    /\ Goto(p, "stopWatchdog")
    /\ UNCHANGED <<row, usedIds, lateBy, sid, holder, shellUp, shellExited,
                   revoked, timer, pending, detaching, admin>>

\* main_input_loop tests shell_exited before ownership_revoked, and a write to
\* the PTY of a dead shell fails.
InputLoopStops(p) ==
    \/ (shellExited[p] \/ ~shellUp[p]) /\ InputLoopReturns(p, "ShellExited")
    \/ revoked[p] /\ ~shellExited[p] /\ InputLoopReturns(p, "OwnershipRevoked")

\* read(0) meets the end of stdin, or fails, after the two flags were tested.
StdinEof(p) == "eof" \in Commands /\ InputLoopReturns(p, "TerminalClosed")

----------------------------------------------------------------------------
(* recorder.rs run: graceful shutdown, one join after the other *)

StopWatchdog(p) ==
    /\ pc[p] = "stopWatchdog"
    /\ Goto(p, "joinPoller")
    /\ UNCHANGED <<row, usedIds, lateBy, memory, detaching, admin>>

\* The poller leaves its loop only when should_stop() holds.
JoinPoller(p) ==
    /\ pc[p] = "joinPoller" /\ ShouldStop(p)
    /\ Goto(p, "joinOutput")
    /\ UNCHANGED <<row, usedIds, lateBy, memory, detaching, admin>>

\* The output thread leaves its loop only at EOF.
JoinOutput(p) ==
    /\ pc[p] = "joinOutput" /\ shellExited[p]
    /\ Goto(p, "stopHeartbeat")
    /\ UNCHANGED <<row, usedIds, lateBy, memory, detaching, admin>>

\* Stop the heartbeat, which ends the beat it is in first, and close the open
\* command; a revoked process ends here.
StopHeartbeat(p) ==
    /\ pc[p] = "stopHeartbeat" /\ pending[p] = Asleep
    /\ IF reason[p] = "OwnershipRevoked"
       THEN Exit(p, "done")
       ELSE Goto(p, "releasing") /\ UNCHANGED memory
    /\ UNCHANGED <<row, usedIds, lateBy, detaching, admin>>

\* release_ownership(Detached).
Disown(id) ==
    IF RowOf(id) THEN row' = UnownedRow("DETACHED") /\ lateBy' = 0
                 ELSE UNCHANGED <<row, lateBy>>

\* SESSION_DETACH, shell and cwd, then release_ownership.
Release(p) ==
    /\ pc[p] = "releasing"
    /\ Disown(sid[p])
    /\ Exit(p, "done")
    /\ UNCHANGED <<usedIds, detaching, admin>>

\* SIGKILL, SIGTERM, SIGHUP of a closed terminal window, power loss.
Crash(p) ==
    /\ "crash" \in Commands
    /\ pc[p] \notin Finished \cup {"idle"}
    /\ Exit(p, "crashed")
    /\ UNCHANGED <<row, usedIds, lateBy, detaching, admin>>

----------------------------------------------------------------------------
(* Other commands on the same row *)

\* cmd_detach, run inside p's shell (TERMNOTE_SESSION_ID): the check ...
DetachReads(p) ==
    /\ "detach" \in Commands /\ p \in Detachers     \* bound
    /\ shellUp[p] /\ detaching[p] = NoId
    /\ RowOf(sid[p]) /\ row.status = "ACTIVE" /\ row.owner # Nobody
    /\ detaching' = [detaching EXCEPT ![p] = sid[p]]
    /\ UNCHANGED <<row, usedIds, lateBy, pc, memory, admin>>

\* ... and, once its SESSION_DETACH is appended, release_ownership.
DetachReleases(p) ==
    /\ detaching[p] # NoId
    /\ Disown(detaching[p])
    /\ detaching' = [detaching EXCEPT ![p] = NoId]
    /\ UNCHANGED <<usedIds, pc, memory, admin>>

\* archive, restore: require_by_name, then set_status by id.
AdminReads ==
    /\ admin.op = "none" /\ RowPresent
    /\ \E op \in {"archive", "restore"} \cap Commands :
          admin' = [op |-> op, id |-> row.id]
    /\ UNCHANGED <<row, usedIds, lateBy, pc, memory, detaching>>

AdminWrites ==
    /\ admin.op # "none"
    /\ row' = IF RowOf(admin.id)
              THEN RowWithStatus(IF admin.op = "archive" THEN "ARCHIVED"
                                                         ELSE "DETACHED")
              ELSE row
    /\ admin' = [op |-> "none", id |-> NoId]
    /\ UNCHANGED <<usedIds, lateBy, pc, memory, detaching>>

DeleteSession ==
    /\ "delete" \in Commands /\ RowPresent
    /\ row' = Absent
    /\ UNCHANGED <<usedIds, lateBy, pc, memory, detaching, admin>>

\* A tick of the wall clock.  No live process is ever more than MaxDelay late.
Tick ==
    /\ \A p \in Procs : Timed(p) => timer[p] < MaxDelay
    /\ \A p \in Procs : pending[p] < MaxBeat     \* bound
    /\ row' = IF row.owner # Nobody /\ row.age < AgeCap
              THEN [row EXCEPT !.age = @ + 1] ELSE row
    /\ timer' = [p \in Procs |-> IF Timed(p) THEN timer[p] + 1 ELSE timer[p]]
    /\ pending' = [p \in Procs |-> IF pending[p] >= 0 THEN pending[p] + 1
                                                     ELSE pending[p]]
    /\ UNCHANGED <<usedIds, lateBy, pc, sid, holder, detaching, admin, flags>>

----------------------------------------------------------------------------
Claims(p) ==
    \/ CreateSession(p) \/ ForceClaimNew(p)
    \/ ReadSession(p) \/ TryClaim(p) \/ RereadOwner(p)
    \/ DeclineTakeover(p) \/ AcceptTakeover(p) \/ ForceClaim(p)
    \/ KillPrevious(p) \/ SparePrevious(p)
Records(p) ==
    \/ StartRecorder(p) \/ StartPanics(p) \/ StartFails(p)
    \/ BeatReads(p) \/ BeatWrites(p) \/ BeatFails(p) \/ WatchdogRevokes(p)
    \/ ShellExits(p) \/ OutputEof(p) \/ InputLoopStops(p) \/ StdinEof(p)
Stops(p) ==
    \/ StopWatchdog(p) \/ JoinPoller(p) \/ JoinOutput(p)
    \/ StopHeartbeat(p) \/ Release(p) \/ Crash(p)
Detaches(p) == DetachReads(p) \/ DetachReleases(p)

Next ==
    \/ \E p \in Procs : Claims(p) \/ Records(p) \/ Stops(p) \/ Detaches(p)
    \/ AdminReads \/ AdminWrites \/ DeleteSession \/ Tick

Spec == Init /\ [][Next]_vars

\* The operating system keeps scheduling the threads of a live process and
\* the clock keeps ticking.  Nothing is assumed of users: they may leave a
\* prompt open, and a shell running, for ever.
MainThread(p) ==
    \/ ForceClaimNew(p) \/ TryClaim(p) \/ RereadOwner(p) \/ ForceClaim(p)
    \/ KillPrevious(p) \/ SparePrevious(p) \/ StartRecorder(p) \/ StartPanics(p)
    \/ InputLoopStops(p) \/ StopWatchdog(p) \/ JoinPoller(p) \/ JoinOutput(p)
    \/ StopHeartbeat(p) \/ Release(p)
Fairness ==
    /\ WF_vars(Tick)
    /\ \A p \in Procs : WF_vars(MainThread(p)) /\ WF_vars(WatchdogRevokes(p))
FairSpec == Spec /\ Fairness

\* With the threads that a shutdown waits for: each UPDATE of the heartbeat
\* ends in one way or the other, and the thread tests its stop flag between
\* two beats.
AllFairSpec ==
    /\ FairSpec
    /\ \A p \in Procs : /\ WF_vars(OutputEof(p)) /\ WF_vars(BeatReads(p))
                        /\ WF_vars(BeatWrites(p) \/ BeatFails(p))
                        /\ SF_vars(StopHeartbeat(p))

----------------------------------------------------------------------------
(* Properties *)

RowType == [id : RowIds \cup {NoId}, status : Statuses, archived : BOOLEAN,
            owner : Procs \cup {Nobody}, age : 0 .. AgeCap]
Types ==
    /\ row \in RowType
    /\ ~RowPresent => row = Absent
    /\ usedIds \subseteq RowIds
    /\ pc \in [Procs -> Phases]
    /\ sid \in [Procs -> RowIds \cup {NoId}]
    /\ holder \in [Procs -> Procs \cup {Nobody}]
    /\ shellUp \in [Procs -> BOOLEAN]
    /\ shellExited \in [Procs -> BOOLEAN]
    /\ revoked \in [Procs -> BOOLEAN]
    /\ reason \in [Procs -> Reasons]
    /\ timer \in [Procs -> 0 .. MaxDelay]
    /\ pending \in [Procs -> Asleep .. MaxDelay]
    /\ lateBy \in 0 .. MaxDelay
    /\ detaching \in [Procs -> RowIds \cup {NoId}]
    /\ admin \in [op : {"none", "archive", "restore"},
                  id : RowIds \cup {NoId}]
BeatsOK ==
    \A p \in Procs : pending[p] # Asleep => /\ HeartbeatOn(p)
                                           /\ pending[p] <= timer[p]

\* Every variable stays in its type; an absent row is blank, and only a
\* running heartbeat thread is in a beat, with a clock reading that is no older
\* than the one it last wrote.
TypeOK == Types /\ BeatsOK

\* The conditions under which the row is a lock.
NeverForced ==
    /\ Commands \cap {"new", "takeover", "detach"} = {}
    /\ MaxDelay <= StaleAfter

\* As long as nobody chooses "continue here", detaches, deletes or creates
\* the session, and no live process is later than the staleness threshold,
\* at most one process ever works in the session: the conditional UPDATE of
\* try_claim_ownership and the heartbeat are enough of a lock.
SingleOwner == \A p, q \in Procs : Owning(p) /\ Owning(q) => p = q

\* Why it holds: no unconditional claim and no detach is under way, a row that
\* still exists names the process that works in the session, and no beat but
\* the owner's is in it.
WorkerIsOwner ==
    /\ \A p \in Procs :
          /\ pc[p] \notin {"forceNew", "forcing", "killing"}
          /\ detaching[p] = NoId
          /\ Owning(p) /\ RowPresent => row.owner = p
    /\ lateBy = 0
    /\ SingleOwner

\* What keeps the row trustworthy.  It names only processes that claimed it;
\* while one of them still works in the session the row is the one it works
\* on, and its heartbeat is no older than the last that process wrote, except
\* for what a beat of another process has set it back by, which had read the
\* clock before.
ClaimedPhases == OwningPhases \cup Finished
OwnerStaysFresh ==
    \A p \in Procs : row.owner = p =>
        /\ pc[p] \in ClaimedPhases
        /\ Owning(p) => RowOf(sid[p]) /\ row.age <= timer[p] + lateBy

\* A session is taken from a live process without its user's consent only if,
\* counted back from the moment the taker read the clock, that process has
\* missed its heartbeat for longer than STALE_AFTER_SECS less what a beat of
\* another process, written over its own, has set the heartbeat back by.
NoLiveSteal ==
    [][\A p, q \in Procs :
          TryClaim(p) /\ row'.owner = p /\ row.owner = q /\ Owning(q)
             => timer[q] + lateBy - timer[p] > StaleAfter]_vars

\* PRD section 63 and the comment on STALE_AFTER_SECS have it without the other
\* process: a live session is not stolen unless its own heartbeat stayed away
\* for longer than the threshold.
NotStolenFromPunctual ==
    [][\A p, q \in Procs :
          TryClaim(p) /\ row'.owner = p /\ row.owner = q /\ Owning(q)
             => timer[q] - timer[p] > StaleAfter]_vars

\* A session whose owner was killed, or failed to start after its claim, can be
\* recovered in the end: its heartbeat goes stale unless another process claims
\* it, or another process that lost it is still beating, since the heartbeat
\* UPDATE does not look whose row it refreshes (PRD sections 61 to 63).
DeadOwner == \E p \in Procs : row.owner = p /\ pc[p] \in Finished
DeadOwnerIsReplaceable ==
    DeadOwner ~> ~DeadOwner \/ Claimable(0) \/ \E q \in Procs : HeartbeatOn(q)

\* Whatever mixture of takeovers, stale claims, detaches and late releases
\* happens, in the end only the owner named by the row forwards keystrokes to
\* a shell of that session: the watchdog stops every other process.
SettlesOnOwner ==
    <>[](\A p \in Procs : Forwarding(p) /\ RowOf(sid[p]) => row.owner = p)

\* A process that was told to stop finishes its graceful shutdown.
ShutdownCompletes ==
    \A p \in Procs : pc[p] \in ShutdownPhases ~> pc[p] \in Finished

\* The end of a graceful shutdown never hands back the lock of another live
\* process, one that has taken the session over meanwhile (AC8, AC10).
ReleasedByOwnerOnly ==
    [][\A p, q \in Procs : Release(p) /\ row.owner = q /\ Owning(q)
          => p = q]_vars

\* No process dies of a failed `expect` on the row it has just read or claimed
\* (ownership.rs: a failed claim means that the row has an owner).
RereadFindsOwner == \A p \in Procs : pc[p] # "panicked"

\* Ownership implements the abstract lock, with the processes that believe
\* they own the session as its holders.
Lock == INSTANCE SessionLock WITH holders <- {p \in Procs : Owning(p)}
LockSpec == Lock!Spec
=============================================================================
