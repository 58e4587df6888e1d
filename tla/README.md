# TLA+ models of termnote

termnote records a terminal session. `termnote new` and `termnote attach` run a
shell under a pseudo-terminal and write what happens to an event log in a SQLite
database that all termnote processes of a user share. The processes have no
other link than that database. This directory holds TLA+ specifications of the
parts of termnote where the order of steps matters, TLC configurations that check
them on small instances, and TLAPS proofs of the main properties for every
instance.

Paths below are relative to `src/`; `session/` stands for
`crates/termnote-session/src/`, `storage/` for `crates/termnote-storage/src/`,
`cli/` for `crates/termnote-cli/src/`, `core/` for `crates/termnote-core/src/`,
`tui/` for `crates/termnote-tui/src/`, `export/` for `crates/termnote-export/src/`.

    tlc -workers 2 -config commands.cfg CommandTracker     # one run
    tlapm CommandTrackerProofs.tla                         # one proof module

`PROJECT.json` lists the components, the runs, which lines each definition
models, the hazards and the properties that cover them, the disagreements between
code and documentation, the theorems, and for each property a mutation of the
code that TLC detects with it.

## 1. Inventory

| Component | State | Operations | What makes it correct |
|---|---|---|---|
| **Session ownership** (`session/ownership.rs`, `manager.rs`, `heartbeat.rs`, `storage/sessions.rs`) | the `sessions` row: status, archived, active_pid/host, heartbeat_at; the flags of `Shared` | `new`, `attach`, takeover prompt, `detach`, `archive`, `restore`, `delete`; heartbeat, watchdog | at most one terminal works in a session; nobody loses it because of a short delay; a crashed owner can be replaced; a displaced one stops |
| **Recorder life cycle** (`session/recorder.rs` `run`) | six threads, `StopReason`, the order of the joins | start, main input loop, graceful shutdown | shutdown completes, closes the open command, releases what it owns and nothing else |
| **Command detection** (`session/recorder.rs`, `shared.rs`, `shell_integration.rs`) | `pending_command`, `open_command_id`, `is_shell_foreground`, `last_pgrp`, the FIFO and channel of exit reports | capture, open, close, instantaneous builtins, report, session-end | a command is opened once, closed once, in typing order, with its own exit code |
| **Event log storage** (`storage/events.rs`, `notes.rs`, `bookmarks.rs`, `search.rs`, `migrations/`) | tables events, events_fts, notes, bookmarks | append_event, close_command, create_note, create_bookmark, search, delete | gapless numbering per session, append-only, no dangling pointer, index in step with the timeline |
| **Database, migrations** (`storage/db.rs`) | connection mutex, pragmas, `schema_migrations` | open, run_migrations | whoever gets a connection finds the whole schema, however openers race and fail |
| **Settings** (`core/settings.rs`, `cli/config.rs`, `cli/commands.rs`) | config file, session settings JSON | resolve_logging, set, show | precedence CLI > session > global; a set changes its own key only; what is lost when sets overlap is no more than an update |
| **Types** (`core/`) | none | parse, format, UUIDs | every form that is written can be read |
| **Pseudo-terminal** (`termnote-pty`) | PTY master, child pid | spawn, read, write, foreground_pgrp, resize | the shell is a session leader; its pgid is its pid |
| **Editor** (`termnote-editor`) | a temporary file | edit | what was saved is returned |
| **Export** (`termnote-export`) | none | Markdown, CSV, ANSI stripping | each event appears once, outputs under their command, no escape sequence left |
| **Terminal UI** (`termnote-tui`) | a copy of the table of sessions, a snapshot of a timeline, mode, selection, filter | session manager, timeline browser | what is shown is there; a key acts on the highlighted line; every mode has a way out |
| **Command line** (`cli/`) | none | dispatch | see the components it calls |

How they interact. Processes share the database: one row per session for
ownership, and the event tables. Within a recorder the main thread, the poller,
the PTY-output thread, the heartbeat, the watchdog and the resize thread share
`Shared` (atomics and mutexes) and one database connection behind a mutex. The
shell talks to the recorder through the PTY, the kernel's foreground process
group, and a FIFO that its prompt hook writes to. `termnote note`, `bookmark` and
`detach`, typed inside the session, are separate processes. Every command opens
the database first, and brings its schema up to date; the settings come from a
file, from the session's row and from the command line. The two screens and the
exports only meet the others in the tables they read and change.

What is hard. Statements of different processes interleave, and several operations
take more than one statement (claim and re-read, INSERT and forced claim, append and
INSERT of the note's row, SELECT and UPDATE of a payload, the SQL of a migration and
the INSERT that records it, read and write of a layer of settings). Clocks, lists
and previews are read before they are used. Processes crash with the row owned, a
command open or a two-step operation half done. Three sources (process group, hook
report, settle time) announce the same command in any order, and each is seen late.
Threads wait for each other at shutdown. `hazards` in `PROJECT.json` gives each with
its line.

## 2. Modules

| Module | Role |
|---|---|
| `SessionLock` | abstract: a session is a lock |
| `Ownership` | the protocol over the `sessions` row; implements `SessionLock` |
| `MCOwnership` | symmetry for TLC |
| `OwnershipProofs` | theorems about `Ownership` |
| `Timeline` | abstract: one append-only timeline per session |
| `EventLog` | the storage operations, statement by statement; implements `Timeline` |
| `MCEventLog` | session of each process, symmetry |
| `EventLogProofs` | theorems about `EventLog` |
| `CommandTracker` | the threads that turn typed lines into COMMAND events |
| `CommandTrackerProofs` | theorems about `CommandTracker` |
| `EventLogRefsProofs` | theorems about what refers to events in `EventLog`, and that it implements `Timeline` |
| `Migrations` | opening the database |
| `Settings` | the layers of settings and the commands that use them; composed with `Migrations` |
| `MCSettings` | the constants of the instance |
| `SettingsProofs` | theorems about `Migrations` and `Settings` |
| `Selection` | the elements of a sequence that are in a set: a WHERE clause, a filter |
| `SessionManager` | the session manager screen over the table of sessions |
| `TimelineScreen` | the timeline browser |
| `Export` | strip_ansi, the Markdown and the CSV, as functions |
| `Screens` | composes the three with the commands that run them |
| `MCScreens` | the timelines of the instance |
| `SequenceLemmas` | what Select, FlattenSeq and recursions over a sequence return |
| `ScreensProofs` | theorems about the session manager and the timeline browser in `Screens` |
| `ExportProofs` | theorems about the exports in `Screens` |

### 2.1 Ownership

*State.* `row` is the row whose name all commands use. `row.owner` is
(active_pid, active_host) and `row.age` is now - heartbeat_at. `pc[p]` is where
the main thread of process `p` is, from `idle` through the claim and the recorder
to the joins of the shutdown, one phase per step between which another process
can act. `shellExited` and `revoked` are the flags of `Shared`, `reason` the
`StopReason`, `holder` the owner that the prompt showed. `timer[p]` is how old the clock
reading is that `p` claims with or last wrote, `pending[p]` how old the one is in its
unfinished beat. `detaching` and `admin` are the `detach`, `archive` and
`restore` processes between their read and their write. `lateBy` is history: by
how much the beat of another process that the row holds made the owner's heartbeat
look older than the last one that the owner wrote.

*Steps.* Each SQL statement is one step. `attach` is ReadSession (require_by_name,
clock), TryClaim (the conditional UPDATE), RereadOwner, the prompt, ForceClaim, and
the SIGTERM to the previous owner (KillPrevious on the same host, SparePrevious
otherwise). `new` is CreateSession and ForceClaimNew. BeatReads is the clock reading of
the heartbeat thread, BeatWrites its UPDATE, which waits for the mutex of the
connection and for SQLite's lock and names no process, BeatFails one that gives up
(SQLITE_BUSY). WatchdogRevokes is the watchdog; InputLoopStops and StdinEof the three ways in which
main_input_loop returns; StopWatchdog, JoinPoller, JoinOutput, StopHeartbeat and
Release the shutdown in the order of `run`.

*Abstractions.* A process runs one command and pids are not reused. There is one
session name (rename is in SessionManager). Every statement that writes a time is apart
from the reading of the clock that it writes. The sleep between two beats is counted
from the reading last written, not from the end of the last UPDATE, so that a beat may
come sooner than in the code: this adds behaviours and takes none away. Two
constants are bounds of the instances: `MaxBeat` on how long a beat can be under way
(in the code `busy_timeout` bounds the wait for SQLite's lock), `Detachers` on the
processes in whose shells `detach` is typed. SIGTERM has no handler, so it is
a crash. SESSION_* events and the close of the open command change nothing that
ownership looks at (EventLog and CommandTracker have them).

*Time.* `Tick` advances all ages. `MaxDelay` bounds how late a live process can be:
with `MaxDelay <= StaleAfter` every live owner beats in time, with a larger
`MaxDelay` it can be suspended, or wait for the database, past the threshold. Ages beyond
`StaleAfter + MaxDelay + 1` are not told apart; no guard distinguishes them.

### 2.2 EventLog

*State.* `events` is the table by id, with AUTOINCREMENT's `nextId`; `indexed`,
`notes` and `bookmarks` are the other tables as sets of (session, event).
`writeLock` is SQLite's write lock; `op[p]` the storage operation a process is in,
one at a time because the connection is behind a mutex. `open[p]` is
`open_command_id`, `chunk[p]` output that the output thread has read but not yet
appended.

*Steps.* Begins is BEGIN IMMEDIATE and the SELECT of the maximum; Commit the INSERTs
and COMMIT with what the caller does with the id; InsertRow the second,
separate statement of create_note and create_bookmark; CloseReads and CloseWrites
the two statements of close_command; PickTarget and WriteBookmark the two of
cmd_bookmark; DeleteSession the DELETE with its cascade, which does not reach
events_fts. GivesUp and LosesOutput are SQLITE_BUSY; Crash can come at any step.

*Abstractions.* A process that waits for the write lock is not in the model until
it has it. Timestamps, payload text, `updated_at` and the ranking of search are
left out, and so are the MATCH and the LIMIT of search: Hits are the rows that they
choose from. Commit does not model the failure of UNIQUE(session_id, sequence):
GaplessTimeline shows that it never happens. `open_command_id` is set in the same
step as the COMMIT; a chunk read in between is one read just before the COMMIT.
`MaxEvents` bounds the ids (guard of Begins).

### 2.3 CommandTracker

*State.* The terminal (external): `lines` typed, `input` unread in the PTY,
`foreground`, what the `shell` does, `status` = whose exit status `$?` is, `fifo`.
The recorder: `main`, `pendingCommand` with `settled` (older than
BUILTIN_SETTLE_TIMEOUT), `openCommand`, `shellForeground`, `reports` (the channel),
`poller` (the stage of its tick), `lastPgrp`, `batch` (hook_reports), and `log`, the
COMMAND events. A line is its number and an exit code is the line it belongs
to, so that a wrong attribution is visible.

*Steps.* Forward writes to the PTY and Capture then looks at
`is_shell_foreground`: two steps, as in the code. A tick of the poller is
PollerChecks (should_stop, sleep), PollerDrains (the channel), PollerReadsPgrp
(tcgetpgrp and what it opens or closes), PollerStores (`is_shell_foreground`),
PollerApplies once per report, PollerFallsBack (without a hook). Finish is the end
of `run`. Four kinds of shell: hook before each prompt (bash, zsh), after each
command (fish), hook whose FIFO could not be made ("broken": has_hook is true but
no report ever comes), no hook.

*Abstractions.* Lines are typed and read whole: line editing, partial lines and
pastes of several lines in one read are left out, as are background jobs,
pipelines, the `cd` line on resume and working directories. Commands are logged;
`logging.exit_codes = false` is the shell without a hook. Storage does not fail
here. When the shell is gone tcgetpgrp gives a group that is not the shell's, so
an `exit` that is pending can still be opened, and is closed as "session-end".
SettleElapses may happen at any time after a line became pending: the
250 ms have no fixed relation to the shell's speed.

### 2.4 Migrations and Settings

*State.* `catalog`, `schema` and `recorded` are the file: does `schema_migrations`
exist, which statements have been executed, which versions are in the table.
`opener[p]` is `run_migrations` in process `p`: the versions it read as applied, the
version it is at and how much of its SQL has run. `config` is what `load` finds in
`config.toml`, `session` the settings column of the row that all commands name,
`job[p]` the command that `p` runs after it has opened the database, with the
layers it has read. `intended` and `overlapped` are history: what the layers would be
if sets came one after the other, and which layers saw two sets overlap or a save
cut off.

*Steps.* There is no transaction around a migration, so every statement of its SQL
and the INSERT that records it are steps, between which another process or a fault
can come; the INSERT fails on the primary key for the second of two. `config set` is
load, the truncation by `std::fs::write`, and the write; `settings set` is
require_by_name and save_settings; `attach` reads the file and then the row, `note`
the row and then the file, each resolves what it read. A process that dies loses
its command, and what it truncated stays truncated.

*Abstractions.* A migration is a number of statements; each is `IF NOT EXISTS`, so
running one again changes nothing. The write of `config.toml` is one step that leaves
the whole text: the mixture that two writers of texts of different length can leave is
not modelled. A layer is a function from keys to values or
Unset; keys with the same kind of value behave alike. `ui.theme` and the storage
section are never read and left out. `MaxFaults` bounds the faults; `NoteCalls` are the options and the values of $VISUAL and
$EDITOR with which `note` is called. Only one
process at a time runs `attach` or `note` (MayRead): they change nothing that
another process sees.

### 2.5 SessionManager, TimelineScreen, Export, Screens

*State.* `rows` is the table of sessions in the order of `list` (the latest update
first). `mode`, `cache`, `index` and `target` are event_loop of `tui/app.rs`, with the
session manager's command after it (`cmd_session_manager`); `asked` is the session
that `termnote delete` asks about in another terminal. `stale` is history: which of the
three copies (the list, the preview, the other preview) were made before somebody
else changed the table. `viewing`, `lines`, `visible`, `at` and `query` are event_loop of
`tui/timeline.rs`; `opening` and `exported` are a `timeline` or `export` command between
require_by_name and list_all, and the timeline an export writes.

*Steps.* One per key, and one per SQL statement of a key that takes several:
`r` is require_by_name, the UPDATE by id, the list; `d` and `y` are the preview, the
DELETE by name, the list. Any of them may fail, as SQLite may be busy or the disk full:
a failed change is a message (KeyFails, WriteFails; the model tells SessionNotFound
from the other errors, as the text on the screen does), a failed preview does
nothing, and a failed list ends the screen (ListFails). Enter and `n` end the screen and run cmd_attach and cmd_new.
OtherCreates, OtherRenames, OtherUpdates, OtherAsks and OtherDeletes are other
terminals.

*Functions.* `Strip` is the loop of strip_ansi with its two inner loops, `Outputs` the
fold over OUTPUT events into a map, `Markdown` and `Csv` what the exporters write,
without formatting. `Stream` is the reference: a terminal that reads character by
character. It knows CSI and OSC sequences and those of two characters; where a
terminal reads something else again (ESC ( B is three characters, a control within a
sequence ends it) the reference gives up, in the state "other", and nothing is
claimed. DCS, APC and the like are among these. `Select` is what a WHERE clause or an iterator's filter leaves. They are
recursive functions, or folds written as such, so that they can be proved about.
`IsTimeline` says what an export or the browser can be given: what the storage has of
a session, in which an output names a command before it or none.

*Abstractions.* The counts of a preview are only shown, and its five SELECTs are
one step with the first of them, the one that finds the session. A session is id, name and archived; the claim and the recorder behind
an attach are in Ownership. Texts are sequences over ten classes of characters,
those that strip_ansi, trim_end and a query tell apart. An event's id is its place in
the timeline. Drawing, colours, column widths, times and durations are left out.

## 3. Runs

| Run | Result | Question |
|---|---|---|
| `ownership_exclusive` | holds | is the row a lock when nobody forces? |
| `ownership_takeover` | holds | takeovers, lateness, detaches, crashes: who is displaced when, and does it settle? |
| `eventlog` | holds | do the timelines, the index and the rows stay consistent? |
| `commands` | holds | is each command opened and closed once and in order? |
| `settings` | holds | does every opener find the schema, does a set lose more than it must, which layer wins? |
| `screens` | holds | do the screens show and act on what is there, and do exports keep a timeline whole? |
| `ownership_shutdown_hangs`, `ownership_late_release`, `ownership_reread`, `ownership_late_beat`, `commands_exit_codes`, `commands_job_input` | violated | section 6 |

**`ownership_exclusive`**: three processes, one id, HeartbeatPeriod 1, StaleAfter 2,
MaxDelay 2; attach, archive, restore, delete, EOF, crash. TypeOK; SingleOwner;
WorkerIsOwner (its inductive form: a row that exists names the process that works
in the session, and no beat but the owner's is in it); LockSpec
(refinement of `SessionLock`). Three processes are an owner, one that claims while
the owner dies, and one more that competes for it; StaleAfter 2 distinguishes
"just stale" from "not yet" for a claimer whose clock is one tick old.

**`ownership_takeover`**: two processes, StaleAfter 1 < MaxDelay 2, so a live process
may be late; new, attach, takeover, detach, crash. OwnerStaysFresh (the heartbeat in
the row is no older than the last its live owner wrote, plus what a beat of another
process, written over it, has set it back by); NoLiveSteal (a live owner is displaced
without consent only if it had been silent, when the taker read the clock, for longer
than STALE_AFTER_SECS less that setback); SettlesOnOwner (in the end only
the row's owner forwards keystrokes); DeadOwnerIsReplaceable. Without symmetry,
because two of these are liveness properties. A beat may be one tick under way, which is
enough for a displaced process to set the new owner's heartbeat back, and `detach` is typed
in one of the two shells. That a third process then profits from the setback needs three
processes: `ownership_late_beat` reaches it, and NoLiveStealHolds covers NoLiveSteal for any
number.

**`ownership_late_beat`** shows that the allowance for other processes is needed: three
processes, all punctual (MaxDelay 2 < StaleAfter 3). A beat is under way while its
process is displaced, and the third process finds the row stale although its owner has
beaten in time. Two processes do not suffice, since the displaced one must not be the
one that claims.

**`eventlog`**: two recorders and one client on one session, a client on another,
three events. Three events are enough for a command with output or a bookmark of
it, and for two appends that compete after a first one; two recorders are
what a takeover produces. GaplessTimeline, MaximumStaysRead, PointersStayInTimeline,
SearchMatchesTimeline, OpenCommandIsPrivate, AppendOnly, and TimelineSpec
(refinement of `Timeline`).

**`commands`**: all four kinds of shell, all four kinds of line, two lines, death of
the shell and takeover at any point. Two lines are what it takes for a report,
a process group or a captured line to meet the wrong command.
The state space with three lines, two kinds of line and two of shell (3.5 million
states) has been explored for the safety properties as well. NoneLeftOpen,
OpenOnlyWhileRunning, RecordedOnceInOrder, ClosedForGood, EndIsNoticed,
ShutdownFinishes.

**`settings`**: two processes, two migrations of two and one statements, one fault
anywhere, two logging keys and the editor, one assignment to a logging key and one
to the editor; `note` with and without its option, and with every combination of
$VISUAL and $EDITOR being set, blank and unset. Two processes are a race, the fault is a try that fails half-way; two
statements are the least with something between them, two migrations the least
with one that builds on another. Two sets of different keys are what it takes to
lose one. TypeOK, OpenFindsSchema, RecordedIsApplied, SerialSetsAreExact,
OnlySetValuesAppear, MostSpecificLayerWins, InsistingOpens.

**`screens`**: two names and at most two sessions, so that a session can be deleted and
another created or renamed to its name while a copy still shows the first. One
terminal runs the screens, others act between its statements. The browser looks at
two timelines (matches for one query, two queries or none), the exports write
every way to split a stream of up to two characters of all ten classes, up to three of
ESC, `(` and `B` (an escape sequence the reference gives up on), or up
to four of ESC, BEL, `[`, `]` and `\`, over two chunks (an OSC sequence that ends
in ESC `\` has four), and timelines with two commands and three chunks that belong
to either or to none. Two bounds keep these apart: a timeline is read only when
there is one session (Requires), and others rest while a snapshot is on the screen
or exported, which they could not change (OthersAct). TypeOK, CacheIsCurrent,
MissingMeansInterference, HighlightIsOnAMatch, StripsLikeATerminal,
ChunksStripLikeTheWhole, MarkdownKeepsTheTimeline, TogglesSelectedOnly,
DeletesWhatWasPreviewed, EscLeadsOut.

All runs set `CHECK_DEADLOCK FALSE`: processes finish, shells stay dead, and the
bounds (MaxEvents, MaxLines, used ids) end the behaviours.

## 4. Fairness

`Ownership!Fairness`: weak fairness of the clock and of the main thread and the
watchdog of each live process. The operating system schedules threads, and none of
these steps is one a user or a shell decides. Nothing is assumed about users: prompts
may stay open and shells may run for ever, and crashes are not forced. SettlesOnOwner and
DeadOwnerIsReplaceable need no more; in particular no beat is assumed to come.
AllFairSpec, for ShutdownCompletes, adds what a shutdown waits for: the output thread,
and the heartbeat thread, which begins its beats and ends each in one way or the other,
and tests its stop flag between two of them (strong fairness of StopHeartbeat). Under
less the counterexample could be a thread that never runs.

`CommandTracker!Fairness`: weak fairness of the main thread, the poller and the
end of `run`. The poller's loop sleeps 60 ms and the main loop polls stdin, so both
come back on their own. Nothing is assumed of the shell, its jobs, the hook or
the FIFO's reader: EndIsNoticed holds although a report may never arrive.
It leaves out a revoked recorder: the poller stops at a takeover and the command
is closed only when the shell exits.

`Settings!Fairness`: weak fairness of a process that is opening the database. No
command is forced to run or to end. InsistingOpens adds the user as a premise:
weak fairness of Retries, for somebody who repeats a command that failed.

`Screens!Fairness`: weak fairness of what the process does without a key (OnItsOwn).
EscLeadsOut adds the user as a premise: from some point on the only key is Esc, and
it is pressed whenever it does something.

`EventLog` has safety properties only; waiting for SQLite's lock is not fair (there
is a timeout), so no append is promised.

## 5. Proofs

Assumptions are the ASSUMEs of the modules: Nobody is no process, ids and
timing constants have their types, HeartbeatPeriod <= MaxDelay and
HeartbeatPeriod <= StaleAfter (2 s and 10 s in the code), bounds are naturals.
Nothing else is assumed; the sets of processes, sessions and commands are
arbitrary.

**OwnershipProofs.** TypeCorrect; TypeOK contains BeatsOK, that only a running heartbeat
thread is in a beat, whose reading is no older than the one last written: without it a
beat could take its own row back in time. FreshHeartbeat: OwnerStaysFresh is inductive
with TypeOK; the two non-obvious cases are TryClaim, whose old clock reading makes the
row look `timer[p]` old and no older, and the beat of somebody else, after which the
row is older than the owner's last beat by what `lateBy` says. NoLiveStealHolds follows at once: the guard gives
`row.age - lag > StaleAfter` and the invariant `row.age <= timer[q] + lateBy`.
MutualExclusion is stated under NeverForced (no new, takeover or detach, and
MaxDelay <= StaleAfter): SingleOwner is not inductive, because it does not say
that the row names the worker; WorkerIsOwner adds that, that no forced claim is
under way, and `lateBy = 0`: whoever beats is the worker, and so beats in its own
row. A second claimer would need `row.age > StaleAfter` although
`row.age <= timer <= MaxDelay`. ImplementsLock maps the processes that believe to
own the session to the holders of `SessionLock`: a TryClaim that succeeds is
Enter, every exit or crash of an owner is Leave, all else stutters.

**EventLogProofs.** IInv is TypeOK, MaximumStaysRead, WithinBounds and Numbered, where
Numbered says of each session that for some n its sequence numbers are 1 .. n, in
the order of the ids. GaplessTimeline says the same with MaxSequence for n; the
existential form avoids the CHOOSE in MaxSequence, and MaxIsLength connects the two.
MaximumStaysRead is needed at Commit (the number inserted is n + 1) and is
itself kept because whoever holds the write lock is alone: every other step that
changes `events` needs the lock, and a closed command keeps its number. WithinBounds
(a sequence number is never above its id) keeps numbers in their type.

**CommandTrackerProofs.** IInv adds to TypeOK: Tracked (an event is open exactly if
openCommand names it), Ticking (at each stage of its tick, what the poller knows of an
open command: a job was seen, or the shell was and a report of this tick will
close it), Over, Batched, Alive, and the order log < pending line < line in the
main thread's hand. NoneLeftOpen and OpenOnlyWhileRunning are not inductive without
the middle stages of Ticking; RecordedOnceInOrder is not without the order of the
line that has been typed and not yet captured. ClosedForGood follows because
every step opens a new event, changes only the open one, or leaves the log alone.

**EventLogRefsProofs.** RefInv says what may be referred to. Its core is Known: an id
that a process holds (in `op`, `open` or `chunk`) is below `nextId` and, as long as the
session exists, is an event of that session and of the right type; when the session
is gone, so is the event. It is kept because AUTOINCREMENT never gives an id twice,
because a timeline loses events only as a whole, and because events keep session, type
and ref (TablesStep). With it, IndexExact (the index has a row for each searchable
event, and for sessions that exist no other) and the two halves of OpenInv are
inductive. The theorems are PointersHold, SearchIsExact, OpenCommandsArePrivate and
EventsAreKept: the UPDATE of close_command is the only change of an event, and
what it changes is the private open command.

In the same module, LogImplementsTimeline: Shaped says that TimelineOf(s) has the
event with sequence n at place n, which follows from Numbered. A COMMIT in a session
that exists makes it one longer (AddsAppends), a DELETE empties it (LosesErases), all
else keeps session, number and type of every event (KeepsStutters).

**SettingsProofs**, on opening the database. OpenInv adds to RecordedIsApplied what
each opener knows: the versions before the one it is at are recorded, the statements
it has done are in the schema, and nothing it took for applied is missing. It is
inductive because neither table ever shrinks. OpenIsMigrated (whoever is through has
seen every version) follows for any number of processes, migrations, statements and
faults. Assumed is that every statement is `IF NOT EXISTS`, which the SQL files
show.

**SettingsProofs**, on the settings. The invariant adds to TypeOK: the file is what was intended, or
truncated by the only one who saves it, and a job's copy of it is current as long as
nothing overlapped (FileExact, RowExact); layers hold defaults or assigned values,
in files, rows and jobs; and what a job has resolved is what its layers say (JobOK).
SerialSetsHold, NothingIsMadeUp and MostSpecificWins follow (the last from what
ApplyOverride and ResolveEditor return, ResolveLoggingIs and ResolveEditorIs), and CommandsFindSchema
carries the theorems of Migrations over to the composition.

**SequenceLemmas.** The installed provers cannot instantiate the library's
induction theorems, whose hypothesis is an operator, so the induction is done with
sets: NaturalInduction takes the set of numbers for which something holds, and
follows from the well-foundedness of `<`. RecursionExists gives the function that a
recursion over 0 .. n defines. From these follow what Select returns (its places are
those of the chosen elements, in their order; it is shorter exactly if something was
left out) and how Select, FlattenSeq and the image under a function go through
concatenation. Cat, Put and Part are names for `\o`, Append and SubSeq, which the SMT
solver would otherwise take apart element by element.

**ScreensProofs.** ManagerInv adds to CacheIsCurrent and MissingMeansInterference that the
session of an open confirmation exists unless the table has changed since, and that the
list is still the table before the UPDATE of `r` (TogglingUnchanged), which may fail and
leave the screen with the list it has. It is
inductive without a type invariant. TableInv, which needs ManagerInv, is the table
(ids and names are unique, and no id is one that has yet to be given) and what the screen knows of it
between the statements of one key: TogglingKnows (after the SELECT of `r`, the row in
hand is the selected line), ToggledOne (after its UPDATE, the list differs from the
table at the selected line only), PreviewKnows and AskedKnows (the row of a
confirmation is still there), each unless the copy is stale. TogglesSelectedOnly is
not inductive without the middle two statements of `r`; DeletesWhatWasPreviewed is not
without unique names, because the DELETE goes by name and the preview by id.
ReadInv is the browser: `visible` is what the query matches, or everything when it
matches nothing, and the selection is a place of it. The theorems are TypeCorrect,
ScreenIsCurrent, AloneFindsSessions, ScreenToggles, ScreenDeletes and HighlightMatches,
for any sessions, names, timelines and queries.

**ExportProofs.** The theorems hold for every timeline, not only those that an
instance exports. strip_ansi goes from place to place and jumps
behind an escape sequence, the reference reads every character. Between them stands
`Dialect`, a reader that goes character by character but has strip_ansi's idea of an
escape sequence. What it prints
from place i on satisfies the recursion of strip_ansi (TerminalStrips), because a
reader that has read an escape sequence up to where strip_ansi goes on has printed
nothing and is on the ground (SkipsCsi, SkipsOsc, SkipsShort, which also cover
sequences that never end); and only one function satisfies it, because every jump
goes forward (AfterEscapeGoesOn, StripsAlike): StripIsDialect holds for every text. And
the dialect takes the terminal's steps as long as the terminal does not give up
(StepsAgree, DialectAgrees). ExportStrips is the two for each event.
ExportStripsChunks: a reader that ends a chunk on the ground reads the next as if it
began there (DialectCat), so the premise of ChunksStripLikeTheWhole makes the chunks
independent. ExportKeepsTimeline: the fold over the OUTPUT events leaves with each
command the flattened texts of its rows (OutputsAre, by induction over the
timeline), trimming takes only blanks away (TrimKeepsPrinted), and the sections are
those of the rendered rows in their order (RowsShown, EventSections). A command's
output cannot be shown without it, because an output names a COMMAND before it
(IsTimeline), which PointersHold proves of the storage.

Assumed of the timelines is IsTimeline alone (TimelinesAssumption), of `MaxSessions` that
it is positive, and that NoRow is no row, a query is a character and NoQuery is none.

Only model-checked: liveness (SettlesOnOwner, DeadOwnerIsReplaceable, EndIsNoticed,
ShutdownFinishes, InsistingOpens, EscLeadsOut), which is out of the prover's reach.
Every invariant, every other action property and every refinement that the passing
runs check is proved. (`WorkersOwnTheRow` is WorkerIsOwner, under NeverForced like
MutualExclusion.)

## 6. Where code and documents part

Each has a run of its own with a counterexample; `findings` quotes the documents.

1. **Shutdown may never complete** (`ownership_shutdown_hangs`). When stdin ends while
   the shell lives, `run` joins the poller and the output thread, but neither
   flag is set, so both go on. The heartbeat keeps the session owned. After a
   takeover, too, the old process stays until its shell exits.
2. **A late release** (`ownership_late_release`). `release_ownership` names no owner:
   a shutdown that was decided before a takeover clears the new owner, whose
   watchdog then stops it.
3. **A panic in try_claim** (`ownership_reread`). The owner detaches between the
   failed claim and the re-read.
4. **A late beat** (`ownership_late_beat`). The heartbeat thread reads the clock, waits
   for the connection and for SQLite's lock, and its UPDATE names no process: one that
   has lost the session meanwhile replaces the new owner's heartbeat by its own old
   reading. A third process then claims the session of a punctual owner as stale,
   without a prompt.
5. **Exit codes** (`commands_exit_codes`). A hook report carries no command; one that
   is drained a tick late, or that of the first prompt, gives its code to the
   next command.
6. **Input of jobs** (`commands_job_input`). `is_shell_foreground` is a copy that is
   up to a tick old: a line typed to a job in that time is recorded as a command.

Smaller ones, met while modelling and without a run of their own:

- `new` claims with force and displaces an attach that came between its two
  statements, without a prompt (`session/manager.rs:39`).
- `restore` leaves `archived = 1`, and nothing ever clears it: `set_status` does so only for
  ACTIVE, which no caller passes (`storage/sessions.rs:153`). `README.md:93` has restore
  un-archive a session; it is never listed again without `--all`, also when it
  is attached. The model has the step (`Ownership!RowWithStatus`).
- `note` asks the global configuration before `$VISUAL` and `$EDITOR`, for cmd_note hands
  its editor on as the session's (`cli/commands.rs:172-175`). The chain of `PRD.md`
  section 31 (lines 1132-1144) and of `termnote-editor/src/lib.rs:3-4` is command line,
  session, `$VISUAL`, `$EDITOR`, vim, without the global configuration.
  MostSpecificLayerWins states the order of the code.
- `export/ansi.rs:39` names ESC ( B as an example of what is skipped, with "one more
  char": that is the `(`, and the `B` stays in the Markdown (StripsLikeATerminal is about
  the other sequences).
- `storage/db.rs:21` says that a migration is applied at most once; two openers both run
  its SQL, and the slower one fails (`Migrations!Records`).
- A comment at `storage/sessions.rs:165` has archive rely on the owner having been
  released first; no caller sees to that.
- Escape sequences that a read splits over two chunks leave their rest in the
  Markdown, for strip_ansi works chunk by chunk (the premise of
  ChunksStripLikeTheWhole).
- `settings set` and `config set` lose one of two concurrent changes, and a `config
  set` that loads a truncated file saves the defaults (the exceptions of
  SerialSetsAreExact).
- `termnote bookmark show 0` shows the same bookmark as `show 1` (`cli/commands.rs`).

## 7. What is left

Modelled: the concurrent components (ownership, event log, command detection), the
opening of the database, settings, exports and both screens. Everything that changes
state shared by two processes is an action of one of the modules.

Still worth doing, in this order:

1. `Recorder`, a composition of CommandTracker with EventLog (the appends of the
   poller and of the output thread share one connection and can fail) and with the
   shutdown of Ownership: what is in the table is what CommandTracker's log says,
   except where an append failed. Today each of the three modules lets the others
   act in any order on what they share (the stop flags, `open_command_id`), which is
   more than they do.
2. `Bookmarks`: the numbering of bookmarks by created_at (`storage/bookmarks.rs:20`)
   against the order in which they were shown; the numbers are stored nowhere, so
   that a property needs the user's reading and typing as part of the model.

Not modelled, and not planned: fork, exec, setsid, window sizes, raw mode and the
resize thread (system calls and terminal I/O without shared state), argument
parsing, printing and listing, UUIDs and time formatting, temporary files of the
editor, the ranking of search, drawing in the terminal UI.
