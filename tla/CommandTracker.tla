---------------------------- MODULE CommandTracker -----------------------------
(***************************************************************************)
(* Command detection in the recorder (recorder.rs): how the lines a user   *)
(* types become COMMAND events.  Three threads and the shell interleave:   *)
(*                                                                         *)
(*   - the main thread writes a line to the PTY and then captures it in    *)
(*     pending_command, if it takes the shell to be in the foreground;     *)
(*   - the shell runs what it reads, puts each job in the foreground of    *)
(*     the terminal, and after it reports $? through its hook and a FIFO;  *)
(*   - the hook's reader moves reports from the FIFO to a channel;         *)
(*   - the poller wakes up every 60 ms and opens and closes COMMAND events *)
(*     from the foreground process group and the reports it finds.         *)
(*                                                                         *)
(* A line is its number; an exit code is the line whose $? it is.          *)
(* Storage never fails here: EventLog has its failures.                    *)
(***************************************************************************)
EXTENDS Integers, Sequences

CONSTANTS
    Hooks,      \* the kinds of shell: "prompt" reports before each prompt (bash,
                \* zsh), "postexec" after each command (fish), "broken" is one of
                \* them whose FIFO could not be made, "none" has no hook
    Kinds,      \* the kinds of line
    MaxLines    \* bound on the lines typed

ASSUME HooksAssumption ==
    Hooks # {} /\ Hooks \subseteq {"prompt", "postexec", "broken", "none"}
ASSUME KindsAssumption ==
    Kinds \subseteq {"external", "builtin", "empty", "exit"}
ASSUME MaxLinesAssumption == MaxLines \in Nat

VARIABLES
    hook,               \* the kind of shell
    \* the terminal
    lines,              \* the kind of each line typed so far
    input,              \* lines in the PTY that nobody has read
    foreground,         \* the foreground process group
    shell,              \* what the shell does
    status,             \* the line whose exit status $? is
    exited,             \* the shell is gone and the output thread has seen EOF
    fifo,               \* reports in the FIFO
    readByJob,          \* history: the lines that a job has read
    \* the recorder
    main,               \* the main thread
    revoked,            \* Shared.ownership_revoked
    pendingCommand,     \* Shared.pending_command
    settled,            \* .. and it is older than BUILTIN_SETTLE_TIMEOUT
    openCommand,        \* Shared.open_command_id
    shellForeground,    \* Shared.is_shell_foreground
    reports,            \* the channel of exit reports
    poller, lastPgrp,   \* the poller thread, its last_pgrp ..
    batch,              \* .. and its hook_reports
    log                 \* the COMMAND events

terminal == <<lines, input, foreground, shell, status, exited, readByJob>>
tracker == <<openCommand, log>>
vars == <<hook, terminal, fifo, main, revoked, pendingCommand, settled,
          shellForeground, reports, poller, lastPgrp, batch, tracker>>

----------------------------------------------------------------------------
NoLine == 0         \* also the $? of the rc files, before any line
NoExit == -1        \* exit_code: null
NoCommand == 0
Shell == 0          \* the process group of the shell; a job's is its line ..
HungUp == -1        \* .. and when the shell is gone tcgetpgrp has none of them
Lines == 1 .. MaxLines

HasHook == hook # "none"                \* detect_shell and logging.exit_codes
Reporting == hook \in {"prompt", "postexec"}
\* Mutant: the exit of the shell is not looked at.
StopsIfRevoked == revoked
ShouldStop == exited \/ revoked

Init ==
    /\ hook \in Hooks
    /\ lines = <<>> /\ input = <<>> /\ fifo = <<>> /\ readByJob = {}
    /\ foreground = Shell /\ status = NoLine /\ exited = FALSE
    /\ shell = IF hook = "prompt" THEN "report" ELSE "prompt"
    /\ main = "polling" /\ revoked = FALSE
    /\ pendingCommand = NoLine /\ settled = FALSE
    /\ openCommand = NoCommand /\ log = <<>>
    /\ shellForeground = TRUE /\ lastPgrp = Shell
    /\ reports = <<>> /\ batch = <<>> /\ poller = "top"

----------------------------------------------------------------------------
(* The terminal: external, but for the hooks *)

Dies ==
    /\ exited' = TRUE /\ foreground' = HungUp
    /\ UNCHANGED <<lines, status, fifo, readByJob>>

\* The shell at its prompt reads a line: a builtin is over at once, an external
\* command becomes the foreground job, an empty line only redraws the prompt.
ShellReads ==
    /\ ~exited /\ shell = "prompt" /\ input # <<>>
    /\ LET line == Head(input) IN
       \/ /\ lines[line] = "builtin"
          /\ status' = line /\ shell' = "report"
          /\ UNCHANGED <<lines, foreground, exited, fifo, readByJob>>
       \/ /\ lines[line] = "external"
          /\ foreground' = line /\ shell' = "waiting"
          /\ UNCHANGED <<lines, status, exited, fifo, readByJob>>
       \/ /\ lines[line] = "empty"
          /\ shell' = IF hook = "prompt" THEN "report" ELSE "prompt"
          /\ UNCHANGED <<lines, foreground, status, exited, fifo, readByJob>>
       \/ lines[line] = "exit" /\ shell' = shell /\ Dies
    /\ input' = Tail(input)

\* The job reads what was meant for it.
JobReads ==
    /\ ~exited /\ shell = "waiting" /\ input # <<>>
    /\ input' = Tail(input) /\ readByJob' = readByJob \cup {Head(input)}
    /\ UNCHANGED <<lines, foreground, shell, status, exited, fifo>>

\* The job is over: the shell takes the terminal back.
JobEnds ==
    /\ ~exited /\ shell = "waiting"
    /\ status' = foreground /\ foreground' = Shell /\ shell' = "report"
    /\ UNCHANGED <<lines, input, exited, fifo, readByJob>>

\* The snippet's printf into the FIFO, then the prompt.
ShellReports ==
    /\ ~exited /\ shell = "report"
    /\ fifo' = IF Reporting THEN Append(fifo, status) ELSE fifo
    /\ shell' = "prompt"
    /\ UNCHANGED <<lines, input, foreground, status, exited, readByJob>>

\* Killed or hung up, whatever it does.
ShellDies == ~exited /\ Dies /\ UNCHANGED <<input, shell>>

Terminal ==
    /\ ShellReads \/ JobReads \/ JobEnds \/ ShellReports \/ ShellDies
    /\ UNCHANGED <<hook, main, revoked, pendingCommand, settled, shellForeground,
                   reports, poller, lastPgrp, batch, tracker>>

----------------------------------------------------------------------------
(* The main thread, the watchdog and the hook's reader *)

\* main_input_loop: a line read from stdin goes to the PTY first ...
Forward ==
    /\ main = "polling" /\ ~exited /\ Len(lines) < MaxLines      \* bound
    /\ \E kind \in Kinds : lines' = Append(lines, kind)
    /\ input' = Append(input, Len(lines) + 1)
    /\ main' = "capturing"
    /\ UNCHANGED <<hook, foreground, shell, status, exited, readByJob, fifo, revoked,
                   pendingCommand, settled, shellForeground, reports, poller,
                   lastPgrp, batch, tracker>>

\* ... and then to capture_input_for_command_detection, which replaces whatever
\* line is pending.
Capture ==
    /\ main = "capturing" /\ main' = "polling"
    /\ IF shellForeground /\ lines[Len(lines)] # "empty"
       THEN pendingCommand' = Len(lines) /\ settled' = FALSE
       ELSE UNCHANGED <<pendingCommand, settled>>
    /\ UNCHANGED <<hook, terminal, fifo, revoked, shellForeground, reports, poller,
                   lastPgrp, batch, tracker>>

MainReturns ==
    /\ main = "polling" /\ ShouldStop /\ main' = "joining"
    /\ UNCHANGED <<hook, terminal, fifo, revoked, pendingCommand, settled,
                   shellForeground, reports, poller, lastPgrp, batch, tracker>>

\* Another terminal takes the session over (Ownership has the details).
WatchdogRevokes ==
    /\ ~revoked /\ main # "done" /\ revoked' = TRUE
    /\ UNCHANGED <<hook, terminal, fifo, main, pendingCommand, settled,
                   shellForeground, reports, poller, lastPgrp, batch, tracker>>

\* spawn_fifo_reader.
ReaderForwards ==
    /\ fifo # <<>> /\ main # "done"
    /\ fifo' = Tail(fifo) /\ reports' = Append(reports, Head(fifo))
    /\ UNCHANGED <<hook, terminal, main, revoked, pendingCommand, settled,
                   shellForeground, poller, lastPgrp, batch, tracker>>

SettleElapses ==
    /\ pendingCommand # NoLine /\ ~HasHook /\ ~settled /\ settled' = TRUE
    /\ UNCHANGED <<hook, terminal, fifo, main, revoked, pendingCommand,
                   shellForeground, reports, poller, lastPgrp, batch, tracker>>

----------------------------------------------------------------------------
(* The poller *)

Command(line, exit, how) == [line |-> line, exit |-> exit, how |-> how]

\* open_command, for the pending line.
Opens ==
    /\ log' = Append(log, Command(pendingCommand, NoExit, "open"))
    /\ openCommand' = Len(log) + 1

\* close_command.  Mutant: it forgets to reset open_command_id.
ClosesOnly(exit, how) ==
    /\ log' = [log EXCEPT ![openCommand] = Command(@.line, exit, how)]
    /\ UNCHANGED openCommand
Closes(exit, how) ==
    /\ log' = [log EXCEPT ![openCommand] = Command(@.line, exit, how)]
    /\ openCommand' = NoCommand

\* A command that was over before anyone saw it run.
Synthesizes(exit, how) ==
    /\ log' = Append(log, Command(pendingCommand, exit, how))
    /\ UNCHANGED openCommand

\* Mutant: .clone() for .take().
PeekPending == UNCHANGED <<pendingCommand, settled>>
TakePending == pendingCommand' = NoLine /\ settled' = FALSE

\* What the poller does next, with the reports b still to apply.
Stage(b) ==
    IF b # <<>> THEN "apply" ELSE IF HasHook THEN "top" ELSE "fallback"

\* should_stop, at the top of the loop; then the sleep.
PollerChecks ==
    /\ poller = "top" /\ poller' = IF ShouldStop THEN "stopped" ELSE "sleep"
    /\ UNCHANGED <<pendingCommand, settled, shellForeground, reports, lastPgrp, batch,
                   tracker>>

\* 1) Drain the channel.
PollerDrains ==
    /\ poller = "sleep" /\ poller' = "pgrp"
    /\ batch' = reports /\ reports' = <<>>
    /\ UNCHANGED <<pendingCommand, settled, shellForeground, lastPgrp, tracker>>

\* 2) Foreground process-group transition.  A report of this tick closes the
\* command instead.  Mutant: any report, of this tick or a later one, does.
LeavesToHook == HasHook
ReportedThisTick == batch # <<>>
ClosesAtReturn == openCommand # NoCommand /\ ~ReportedThisTick

PollerReadsPgrp ==
    /\ poller = "pgrp"
    /\ lastPgrp' = foreground
    /\ poller' = IF foreground # lastPgrp THEN "store" ELSE Stage(batch)
    /\ \/ /\ foreground # Shell /\ lastPgrp = Shell /\ pendingCommand # NoLine
          /\ Opens /\ TakePending
       \/ /\ foreground = Shell /\ lastPgrp # Shell /\ ClosesAtReturn
          /\ Closes(NoExit, "pgrp") /\ UNCHANGED <<pendingCommand, settled>>
       \/ /\ ~(foreground # Shell /\ lastPgrp = Shell /\ pendingCommand # NoLine)
          /\ ~(foreground = Shell /\ lastPgrp # Shell /\ ClosesAtReturn)
          /\ UNCHANGED <<tracker, pendingCommand, settled>>
    /\ UNCHANGED <<shellForeground, reports, batch>>

\* .. and only after that the main thread is told.
PollerStores ==
    /\ poller = "store" /\ poller' = Stage(batch)
    /\ shellForeground' = (lastPgrp = Shell)
    /\ UNCHANGED <<pendingCommand, settled, reports, lastPgrp, batch, tracker>>

\* 3) Apply a hook report: to the open command, or to the pending line.
PollerApplies ==
    /\ poller = "apply"
    /\ batch' = Tail(batch) /\ poller' = Stage(Tail(batch))
    /\ \/ /\ openCommand # NoCommand
          /\ Closes(Head(batch), "shell-hook") /\ UNCHANGED <<pendingCommand, settled>>
       \/ /\ openCommand = NoCommand /\ pendingCommand # NoLine
          /\ Synthesizes(Head(batch), "shell-hook") /\ TakePending
       \/ /\ openCommand = NoCommand /\ pendingCommand = NoLine
          /\ UNCHANGED <<tracker, pendingCommand, settled>>
    /\ UNCHANGED <<shellForeground, reports, lastPgrp>>

\* Mutant: without the check that a line is pending and settled.
FallsBackUnsettled ==
    /\ poller = "fallback" /\ poller' = "top"
    /\ IF openCommand = NoCommand /\ lastPgrp = Shell
       THEN Synthesizes(NoExit, "builtin-instant") /\ TakePending
       ELSE UNCHANGED <<tracker, pendingCommand, settled>>
    /\ UNCHANGED <<shellForeground, reports, lastPgrp, batch>>

\* 4) Without a hook: a line that has been pending for long was a builtin.
PollerFallsBack ==
    /\ poller = "fallback" /\ poller' = "top"
    /\ IF settled /\ openCommand = NoCommand /\ lastPgrp = Shell
       THEN Synthesizes(NoExit, "builtin-instant") /\ TakePending
       ELSE UNCHANGED <<tracker, pendingCommand, settled>>
    /\ UNCHANGED <<shellForeground, reports, lastPgrp, batch>>

Poller ==
    /\ \/ PollerChecks \/ PollerDrains \/ PollerReadsPgrp
       \/ PollerStores \/ PollerApplies \/ PollerFallsBack
    /\ UNCHANGED <<hook, terminal, fifo, main, revoked>>

\* The end of run, once the poller and the output thread have been joined.
Finish ==
    /\ main = "joining" /\ poller = "stopped" /\ exited /\ main' = "done"
    /\ IF openCommand # NoCommand THEN Closes(NoExit, "session-end")
       ELSE UNCHANGED tracker
    /\ UNCHANGED <<hook, terminal, fifo, revoked, pendingCommand, settled,
                   shellForeground, reports, poller, lastPgrp, batch>>

----------------------------------------------------------------------------
Next ==
    \/ Terminal \/ Forward \/ Capture \/ MainReturns \/ WatchdogRevokes
    \/ ReaderForwards \/ SettleElapses \/ Poller \/ Finish

\* The recorder's threads are scheduled; of the user, the shell and its jobs
\* nothing is assumed.
Fairness ==
    /\ WF_vars(Capture \/ MainReturns) /\ WF_vars(Poller) /\ WF_vars(Finish)

Spec == Init /\ [][Next]_vars
FairSpec == Spec /\ Fairness

----------------------------------------------------------------------------
(* Properties *)

\* Every variable stays in its type.
CommandType ==
    [line : Lines, exit : {NoExit, NoLine} \cup Lines,
     how : {"open", "pgrp", "shell-hook", "builtin-instant", "session-end"}]
TypeOK ==
    /\ hook \in Hooks
    /\ lines \in Seq(Kinds) /\ Len(lines) <= MaxLines
    /\ input \in Seq(Lines) /\ readByJob \subseteq Lines
    /\ foreground \in {Shell, HungUp} \cup Lines
    /\ shell \in {"prompt", "waiting", "report"}
    /\ status \in {NoLine} \cup Lines
    /\ fifo \in Seq({NoLine} \cup Lines) /\ reports \in Seq({NoLine} \cup Lines)
    /\ batch \in Seq({NoLine} \cup Lines)
    /\ main \in {"polling", "capturing", "joining", "done"}
    /\ poller \in {"top", "sleep", "pgrp", "store", "apply", "fallback", "stopped"}
    /\ lastPgrp \in {Shell, HungUp} \cup Lines
    /\ pendingCommand \in {NoLine} \cup Lines
    /\ log \in Seq(CommandType) /\ openCommand \in {NoCommand} \cup DOMAIN log
    /\ exited \in BOOLEAN /\ revoked \in BOOLEAN
    /\ settled \in BOOLEAN /\ shellForeground \in BOOLEAN

\* No command is left open: the only open COMMAND event is the one the recorder
\* knows as open, also when jobs follow one another between two polls and
\* reports come late or never; and when the recorder is done there is none.
NoneLeftOpen ==
    /\ {i \in DOMAIN log : log[i].how = "open"} =
           IF openCommand = NoCommand THEN {} ELSE {openCommand}
    /\ main = "done" => openCommand = NoCommand

\* Between two ticks a command is open only while its job, or one that came
\* right after it, was last seen in the foreground; no line is captured then.
OpenOnlyWhileRunning ==
    poller \in {"top", "sleep", "stopped"} /\ openCommand # NoCommand =>
        lastPgrp # Shell /\ ~shellForeground

\* Commands are recorded in the order they were typed and none is recorded
\* twice, whether the process group, a report or the settle time reveals it.
RecordedOnceInOrder ==
    \A i, j \in DOMAIN log : i < j => log[i].line < log[j].line

\* The end of a command is recorded once: the poller, a report and the shutdown
\* never close a command that is closed, or change one.
ClosedForGood ==
    [][\A i \in DOMAIN log :
          /\ i \in DOMAIN log' /\ log'[i].line = log[i].line
          /\ log[i].how # "open" => log'[i] = log[i]]_vars

\* A job that ends has its command closed, whether or not a report comes, as
\* long as the terminal keeps the session and the shell the foreground: when the
\* next job takes it before the poller has looked, nothing is promised of the first.
EndIsNoticed ==
    (openCommand # NoCommand /\ foreground = Shell /\ ~revoked)
        ~> (openCommand = NoCommand \/ foreground # Shell \/ revoked)

\* When the shell has exited the recorder finishes.
ShutdownFinishes == exited ~> main = "done"

\* README.md:164-165: the hook "gives external commands exact codes too".  The
\* code of a command is its own.
ExitCodesAreExact ==
    \A i \in DOMAIN log : log[i].exit # NoExit => log[i].exit = log[i].line

\* README.md:147-148: input is "only captured while the shell is in the
\* foreground -- so keystrokes going to vim or ssh are never mistaken for a
\* new command".
JobInputIsNoCommand == \A i \in DOMAIN log : log[i].line \notin readByJob
=============================================================================
