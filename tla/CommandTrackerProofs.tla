------------------------- MODULE CommandTrackerProofs --------------------------
(***************************************************************************)
(* Proofs about CommandTracker, for any number of lines and any kinds of   *)
(* shell and line.  The inductive invariant IInv adds to the types         *)
(*                                                                         *)
(*   Tracked   an event is open exactly if open_command_id names it;       *)
(*   Ticking   what each stage of the poller knows of an open command;     *)
(*   Ordered   the log is in typing order, before the pending line, which  *)
(*             is before the line the main thread has in hand;             *)
(*   Over      when run ends, the poller has stopped and nothing is open.  *)
(***************************************************************************)
EXTENDS CommandTracker, TLAPS

Tracked == \A i \in DOMAIN log : log[i].how = "open" <=> i = openCommand

Ticking ==
    openCommand # NoCommand =>
        /\ poller \notin {"store", "apply"} => lastPgrp # Shell /\ ~shellForeground
        /\ poller = "store" /\ lastPgrp = Shell => batch # <<>>

LogOrdered ==
    /\ \A i, j \in DOMAIN log : i < j => log[i].line < log[j].line
    /\ \A i \in DOMAIN log : log[i].line <= Len(lines)

PendingOrdered ==
    /\ pendingCommand <= Len(lines)
    /\ pendingCommand # NoLine => \A i \in DOMAIN log : log[i].line < pendingCommand
    /\ settled => pendingCommand # NoLine

InHandOrdered ==
    main = "capturing" =>
        /\ Len(lines) \in Lines /\ pendingCommand < Len(lines)
        /\ \A i \in DOMAIN log : log[i].line < Len(lines)

Over == main = "done" => poller = "stopped" /\ openCommand = NoCommand

Batched == poller = "apply" => batch # <<>>

Alive == foreground = HungUp => exited

IInv == /\ TypeOK /\ Tracked /\ Ticking /\ Over /\ Batched /\ Alive
        /\ LogOrdered /\ PendingOrdered /\ InHandOrdered

\* What every step does to the log; ClosedForGood boxes it.
LogStep ==
    \A i \in DOMAIN log :
        /\ i \in DOMAIN log' /\ log'[i].line = log[i].line
        /\ log[i].how # "open" => log'[i] = log[i]

\* The recorder starts with nothing open, pending or recorded.
LEMMA InitIInv == Init => IInv
<1> SUFFICES ASSUME Init PROVE IInv
  OBVIOUS
<1> USE DEF NoLine, NoCommand, Shell, HungUp
<1>1. TypeOK
  <2>1. /\ hook \in Hooks /\ shell \in {"prompt", "waiting", "report"}
        /\ main \in {"polling", "capturing", "joining", "done"}
        /\ poller \in {"top", "sleep", "pgrp", "store", "apply", "fallback", "stopped"}
    BY DEF Init
  <2>2. /\ lines \in Seq(Kinds) /\ Len(lines) <= MaxLines
        /\ input \in Seq(Lines) /\ readByJob \subseteq Lines
        /\ fifo \in Seq({NoLine} \cup Lines) /\ reports \in Seq({NoLine} \cup Lines)
        /\ batch \in Seq({NoLine} \cup Lines) /\ log \in Seq(CommandType)
    BY MaxLinesAssumption DEF Init
  <2>3. /\ exited \in BOOLEAN /\ revoked \in BOOLEAN
        /\ settled \in BOOLEAN /\ shellForeground \in BOOLEAN
    BY DEF Init
  <2> QED
    BY <2>1, <2>2, <2>3 DEF Init, TypeOK
<1>2. DOMAIN log = {} /\ Len(lines) = 0
  BY DEF Init
<1> QED
  BY <1>1, <1>2 DEF Init, IInv, Tracked, Ticking, Over, Batched, Alive, LogOrdered,
     PendingOrdered, InHandOrdered

----------------------------------------------------------------------------
(* What each change of the log does to it *)

\* A step that leaves the log and open_command_id alone.
LEMMA UnchangedLog ==
    ASSUME IInv, UNCHANGED tracker
    PROVE  /\ log' \in Seq(CommandType) /\ openCommand' \in {NoCommand} \cup DOMAIN log'
           /\ Tracked' /\ LogStep
BY DEF IInv, TypeOK, Tracked, LogStep, tracker

\* The step from the log to one with a further event for the pending line.
LEMMA AppendedLog ==
    ASSUME IInv, openCommand = NoCommand, pendingCommand # NoLine,
           NEW exit \in {NoExit, NoLine} \cup Lines,
           NEW how \in {"open", "pgrp", "shell-hook", "builtin-instant", "session-end"},
           log' = Append(log, Command(pendingCommand, exit, how)),
           lines' = lines
    PROVE  /\ log' \in Seq(CommandType) /\ LogStep
           /\ DOMAIN log' = DOMAIN log \cup {Len(log) + 1} /\ Len(log) + 1 \notin DOMAIN log
           /\ Len(log) \in Nat
           /\ \A i \in DOMAIN log : log'[i] = log[i] /\ log[i].how # "open"
           /\ log'[Len(log) + 1] = Command(pendingCommand, exit, how)
           /\ \A i \in DOMAIN log' : log'[i].line <= pendingCommand
           /\ LogOrdered'
<1> DEFINE new == Command(pendingCommand, exit, how)
<1>1. pendingCommand \in Lines /\ log \in Seq(CommandType)
  BY DEF IInv, TypeOK
<1>2. new \in CommandType
  BY <1>1 DEF Command, CommandType
<1>3. /\ log' \in Seq(CommandType) /\ Len(log) \in Nat /\ Len(log') = Len(log) + 1
      /\ \A i \in 1 .. Len(log) : log'[i] = log[i]
      /\ log'[Len(log) + 1] = new
      /\ DOMAIN log = 1 .. Len(log) /\ DOMAIN log' = 1 .. Len(log) + 1
  BY <1>1, <1>2
<1>4. \A i \in DOMAIN log : log[i].how # "open"
  BY <1>3 DEF IInv, Tracked, NoCommand
<1>a. \A i \in DOMAIN log : log[i] \in CommandType
  BY <1>1
<1>5. \A i \in DOMAIN log : log[i].line \in Nat /\ log[i].line < pendingCommand
  BY <1>1, <1>a DEF IInv, PendingOrdered, CommandType, Lines
<1>6. new.line = pendingCommand
  BY DEF Command
<1>7. \A i \in DOMAIN log' : log'[i].line <= pendingCommand
  BY <1>1, <1>3, <1>5, <1>6 DEF Lines
<1>8. LogOrdered'
  <2>1. \A i, j \in DOMAIN log' : i < j => log'[i].line < log'[j].line
    <3> SUFFICES ASSUME NEW i \in DOMAIN log', NEW j \in DOMAIN log', i < j
                 PROVE  log'[i].line < log'[j].line
      OBVIOUS
    <3>1. i \in DOMAIN log
      BY <1>3
    <3>2. CASE j \in DOMAIN log
      BY <1>3, <3>1, <3>2 DEF IInv, LogOrdered
    <3>3. CASE j = Len(log) + 1
      BY <1>3, <1>5, <1>6, <3>1, <3>3
    <3> QED
      BY <1>3, <3>2, <3>3
  <2>2. \A i \in DOMAIN log' : log'[i].line <= Len(lines)
    <3>1. pendingCommand <= Len(lines) /\ Len(lines) \in Nat /\ pendingCommand \in Nat
      BY <1>1 DEF IInv, PendingOrdered, TypeOK, Lines
    <3>2. \A i \in DOMAIN log' : log'[i].line \in Nat
      <4>1. \A i \in DOMAIN log' : log'[i] \in CommandType
        BY <1>3
      <4> QED
        BY <4>1 DEF CommandType, Lines
    <3> QED
      BY <1>7, <3>1, <3>2
  <2> QED
    BY <2>1, <2>2 DEF LogOrdered
<1>9. LogStep
  BY <1>3, <1>4 DEF LogStep
<1> QED
  BY <1>3, <1>4, <1>7, <1>8, <1>9

\* Opens and Synthesizes.
LEMMA OpensLog ==
    ASSUME IInv, openCommand = NoCommand, pendingCommand # NoLine, Opens,
           lines' = lines
    PROVE  /\ log' \in Seq(CommandType) /\ openCommand' \in {NoCommand} \cup DOMAIN log'
           /\ Tracked' /\ LogStep /\ LogOrdered' /\ openCommand' # NoCommand
           /\ \A i \in DOMAIN log' : log'[i].line <= pendingCommand
<1>1. /\ log' \in Seq(CommandType) /\ LogStep /\ LogOrdered' /\ Len(log) \in Nat
      /\ DOMAIN log' = DOMAIN log \cup {Len(log) + 1} /\ Len(log) + 1 \notin DOMAIN log
      /\ \A i \in DOMAIN log : log'[i] = log[i] /\ log[i].how # "open"
      /\ log'[Len(log) + 1] = Command(pendingCommand, NoExit, "open")
      /\ \A i \in DOMAIN log' : log'[i].line <= pendingCommand
  BY AppendedLog DEF Opens
<1>2. Tracked'
  BY <1>1 DEF Tracked, Opens, Command
<1> QED
  BY <1>1, <1>2 DEF Opens, NoCommand

\* A builtin is recorded as over at once (PollerApplies, PollerFallsBack).
LEMMA SynthesizesLog ==
    ASSUME IInv, openCommand = NoCommand, pendingCommand # NoLine,
           NEW exit \in {NoExit, NoLine} \cup Lines,
           NEW how \in {"shell-hook", "builtin-instant"},
           Synthesizes(exit, how), lines' = lines
    PROVE  /\ log' \in Seq(CommandType) /\ openCommand' \in {NoCommand} \cup DOMAIN log'
           /\ Tracked' /\ LogStep /\ LogOrdered' /\ openCommand' = NoCommand
           /\ \A i \in DOMAIN log' : log'[i].line <= pendingCommand
<1>1. /\ log' \in Seq(CommandType) /\ LogStep /\ LogOrdered' /\ Len(log) \in Nat
      /\ DOMAIN log' = DOMAIN log \cup {Len(log) + 1}
      /\ \A i \in DOMAIN log : log'[i] = log[i] /\ log[i].how # "open"
      /\ log'[Len(log) + 1] = Command(pendingCommand, exit, how)
      /\ \A i \in DOMAIN log' : log'[i].line <= pendingCommand
  BY AppendedLog DEF Synthesizes
<1>2. openCommand' = NoCommand /\ NoCommand \notin DOMAIN log'
  BY <1>1 DEF Synthesizes, NoCommand
<1>3. Tracked'
  BY <1>1, <1>2 DEF Tracked, Command
<1> QED
  BY <1>1, <1>2, <1>3

\* close_command changes the open command and no other event.
LEMMA ClosesLog ==
    ASSUME IInv, openCommand # NoCommand,
           NEW exit \in {NoExit, NoLine} \cup Lines,
           NEW how \in {"pgrp", "shell-hook", "session-end"},
           Closes(exit, how), lines' = lines
    PROVE  /\ log' \in Seq(CommandType) /\ openCommand' = NoCommand
           /\ Tracked' /\ LogStep /\ LogOrdered' /\ DOMAIN log' = DOMAIN log
           /\ \A i \in DOMAIN log : log'[i].line = log[i].line
<1>1. log \in Seq(CommandType) /\ openCommand \in DOMAIN log
  BY DEF IInv, TypeOK
<1> DEFINE closed == Command(log[openCommand].line, exit, how)
<1>2. closed \in CommandType
  <2>1. log[openCommand] \in CommandType
    BY <1>1
  <2> QED
    BY <2>1 DEF Command, CommandType
<1>3. log' = [log EXCEPT ![openCommand] = closed]
  BY DEF Closes
<1>4. /\ log' \in Seq(CommandType) /\ DOMAIN log' = DOMAIN log
      /\ log'[openCommand] = closed
      /\ \A i \in DOMAIN log : i # openCommand => log'[i] = log[i]
  BY <1>1, <1>2, <1>3
<1>5. \A i \in DOMAIN log : log'[i].line = log[i].line
  BY <1>4 DEF Command
<1>6. openCommand' = NoCommand /\ NoCommand \notin DOMAIN log
  BY <1>1 DEF Closes, NoCommand
<1>7. Tracked'
  BY <1>4, <1>6 DEF Tracked, IInv, Command
<1>8. LogStep
  BY <1>4, <1>5 DEF LogStep, IInv, Tracked
<1>9. LogOrdered'
  BY <1>4, <1>5 DEF LogOrdered, IInv
<1> QED
  BY <1>4, <1>5, <1>6, <1>7, <1>8, <1>9

----------------------------------------------------------------------------
(* The steps *)

\* Steps that leave the log, the lines and what is pending alone.
LEMMA QuietOrder ==
    ASSUME IInv, UNCHANGED <<tracker, lines, pendingCommand, settled>>,
           main' = "capturing" => main = "capturing"
    PROVE  LogOrdered' /\ PendingOrdered' /\ InHandOrdered'
BY DEF IInv, LogOrdered, PendingOrdered, InHandOrdered, tracker

\* The shell and its jobs do not touch what the recorder keeps.
LEMMA TerminalStep == ASSUME IInv, Terminal PROVE IInv' /\ LogStep
<1>t. /\ input \in Seq(Lines) /\ fifo \in Seq({NoLine} \cup Lines)
      /\ readByJob \subseteq Lines /\ status \in {NoLine} \cup Lines
      /\ foreground \in {Shell, HungUp} \cup Lines
      /\ shell \in {"prompt", "waiting", "report"}
      /\ ~exited => foreground # HungUp
  BY DEF IInv, TypeOK, Alive
<1>u. UNCHANGED <<hook, main, revoked, pendingCommand, settled, shellForeground,
                  reports, poller, lastPgrp, batch, tracker>>
  BY DEF Terminal
<1>h. input # <<>> => Head(input) \in Lines /\ Tail(input) \in Seq(Lines)
  BY <1>t
<1>1. /\ lines' = lines /\ input' \in Seq(Lines) /\ readByJob' \subseteq Lines
      /\ foreground' \in {Shell, HungUp} \cup Lines
      /\ shell' \in {"prompt", "waiting", "report"}
      /\ status' \in {NoLine} \cup Lines
      /\ fifo' \in Seq({NoLine} \cup Lines)
  <2>1. CASE ShellReads
    BY <1>t, <1>h, <2>1 DEF ShellReads, Dies
  <2>2. CASE JobReads
    BY <1>t, <1>h, <2>2 DEF JobReads
  <2>3. CASE JobEnds
    BY <1>t, <2>3 DEF JobEnds, Shell, NoLine
  <2>4. CASE ShellReports
    BY <1>t, <2>4 DEF ShellReports
  <2>5. CASE ShellDies
    BY <1>t, <2>5 DEF ShellDies, Dies
  <2> QED
    BY <2>1, <2>2, <2>3, <2>4, <2>5 DEF Terminal
<1>2. exited' \in BOOLEAN /\ Alive'
  <2>1. CASE Dies
    BY <2>1 DEF Dies, Alive
  <2>2. CASE exited' = exited /\ (foreground' = foreground \/ foreground' \in Lines
                                  \/ foreground' = Shell)
    BY <2>2 DEF IInv, TypeOK, Alive, Lines, HungUp, Shell
  <2> QED
    BY <1>h, <2>1, <2>2
    DEF Terminal, ShellReads, JobReads, JobEnds, ShellReports, ShellDies
<1>3. TypeOK'
  BY <1>u, <1>1, <1>2 DEF IInv, TypeOK, tracker
<1>4. Tracked' /\ LogStep
  BY <1>u, UnchangedLog
<1>5. Ticking' /\ Over' /\ Batched'
  BY <1>u DEF IInv, Ticking, Over, Batched, tracker
<1> QED
  BY <1>u, <1>1, <1>2, <1>3, <1>4, <1>5, QuietOrder DEF IInv

\* main_input_loop: the line in hand is the newest one.
LEMMA ForwardStep == ASSUME IInv, Forward PROVE IInv' /\ LogStep
<1>u. UNCHANGED <<hook, foreground, shell, status, exited, readByJob, fifo, revoked,
                  pendingCommand, settled, shellForeground, reports, poller,
                  lastPgrp, batch, tracker>>
  BY DEF Forward
<1>1. PICK kind \in Kinds : lines' = Append(lines, kind)
  BY DEF Forward
<1>t. lines \in Seq(Kinds) /\ input \in Seq(Lines) /\ Len(lines) \in Nat
      /\ MaxLines \in Nat /\ Len(lines) < MaxLines
  BY MaxLinesAssumption DEF IInv, TypeOK, Forward
<1>2. lines' \in Seq(Kinds) /\ Len(lines') = Len(lines) + 1
  BY <1>1, <1>t
<1>3. Len(lines') \in Lines /\ Len(lines') <= MaxLines
  BY <1>2, <1>t DEF Lines
<1>4. input' \in Seq(Lines) /\ main' = "capturing"
  BY <1>2, <1>3, <1>t DEF Forward
<1>5. TypeOK'
  BY <1>u, <1>2, <1>3, <1>4 DEF IInv, TypeOK, tracker
<1>6. Tracked' /\ LogStep
  BY <1>u, UnchangedLog
<1>7. Ticking' /\ Over' /\ Batched' /\ Alive'
  BY <1>u, <1>4 DEF IInv, Ticking, Over, Batched, Alive, tracker
<1>8. \A i \in DOMAIN log : log[i].line \in Nat
  <2>1. \A i \in DOMAIN log : log[i] \in CommandType
    BY DEF IInv, TypeOK
  <2> QED
    BY <2>1 DEF CommandType, Lines
<1>9. pendingCommand \in Nat
  BY DEF IInv, TypeOK, NoLine, Lines
<1>10. LogOrdered' /\ PendingOrdered' /\ InHandOrdered'
  BY <1>u, <1>t, <1>2, <1>3, <1>8, <1>9
  DEF IInv, LogOrdered, PendingOrdered, InHandOrdered, tracker
<1> QED
  BY <1>5, <1>6, <1>7, <1>10 DEF IInv

\* capture_input_for_command_detection: the newest line becomes pending.
LEMMA CaptureStep == ASSUME IInv, Capture PROVE IInv' /\ LogStep
<1>u. UNCHANGED <<hook, terminal, fifo, revoked, shellForeground, reports, poller,
                  lastPgrp, batch, tracker>> /\ main = "capturing" /\ main' = "polling"
  BY DEF Capture
<1>1. Len(lines) \in Lines /\ \A i \in DOMAIN log : log[i].line < Len(lines)
  BY <1>u DEF IInv, InHandOrdered
<1>2. \/ pendingCommand' = Len(lines) /\ settled' = FALSE
      \/ pendingCommand' = pendingCommand /\ settled' = settled
  BY DEF Capture
<1>b. settled' \in BOOLEAN
  BY <1>2 DEF IInv, TypeOK
<1>c. pendingCommand' \in {NoLine} \cup Lines
  BY <1>1, <1>2 DEF IInv, TypeOK
<1>3. TypeOK'
  BY <1>u, <1>b, <1>c DEF IInv, TypeOK, tracker, terminal
<1>4. Tracked' /\ LogStep
  BY <1>u, UnchangedLog
<1>5. Ticking' /\ Over' /\ Batched' /\ Alive'
  BY <1>u DEF IInv, Ticking, Over, Batched, Alive, tracker, terminal
<1>6. LogOrdered' /\ InHandOrdered'
  BY <1>u DEF IInv, LogOrdered, InHandOrdered, tracker, terminal
<1>7. PendingOrdered'
  <2>1. CASE pendingCommand' = Len(lines) /\ settled' = FALSE
    BY <1>u, <1>1, <2>1 DEF PendingOrdered, tracker, terminal, NoLine, Lines
  <2>2. CASE pendingCommand' = pendingCommand /\ settled' = settled
    BY <1>u, <2>2 DEF IInv, PendingOrdered, tracker, terminal
  <2> QED
    BY <1>2, <2>1, <2>2
<1> QED
  BY <1>3, <1>4, <1>5, <1>6, <1>7 DEF IInv

\* MainReturns, WatchdogRevokes, ReaderForwards and SettleElapses.
LEMMA OtherThreadsStep ==
    ASSUME IInv, MainReturns \/ WatchdogRevokes \/ ReaderForwards \/ SettleElapses
    PROVE  IInv' /\ LogStep
<1>u. UNCHANGED <<hook, terminal, pendingCommand, shellForeground, poller, lastPgrp,
                  batch, tracker>>
  BY DEF MainReturns, WatchdogRevokes, ReaderForwards, SettleElapses
<1>1. /\ main' = main \/ main' = "joining"
      /\ revoked' \in BOOLEAN
      /\ settled' = settled \/ (settled' = TRUE /\ pendingCommand # NoLine)
  BY DEF MainReturns, WatchdogRevokes, ReaderForwards, SettleElapses, IInv, TypeOK
<1>2. /\ fifo' \in Seq({NoLine} \cup Lines) /\ reports' \in Seq({NoLine} \cup Lines)
  <2> DEFINE T == {NoLine} \cup Lines
  <2>1. fifo \in Seq(T) /\ reports \in Seq(T)
    BY DEF IInv, TypeOK
  <2>2. CASE ReaderForwards
    <3>1. Head(fifo) \in T /\ Tail(fifo) \in Seq(T)
      BY <2>1, <2>2 DEF ReaderForwards
    <3> QED
      BY <2>1, <2>2, <3>1 DEF ReaderForwards
  <2>3. CASE fifo' = fifo /\ reports' = reports
    BY <2>1, <2>3
  <2> QED
    BY <2>2, <2>3 DEF MainReturns, WatchdogRevokes, SettleElapses
<1>b. settled' \in BOOLEAN
  BY <1>1 DEF IInv, TypeOK
<1>c. /\ main' \in {"polling", "capturing", "joining", "done"} /\ revoked' \in BOOLEAN
      /\ fifo' \in Seq({NoLine} \cup Lines) /\ reports' \in Seq({NoLine} \cup Lines)
  BY <1>1, <1>2 DEF IInv, TypeOK
<1>3. TypeOK'
  BY <1>u, <1>b, <1>c DEF IInv, TypeOK, tracker, terminal
<1>4. Tracked' /\ LogStep
  BY <1>u, UnchangedLog
<1>5. Ticking' /\ Over' /\ Batched' /\ Alive'
  BY <1>u, <1>1 DEF IInv, Ticking, Over, Batched, Alive, tracker, terminal
<1>6. LogOrdered' /\ PendingOrdered' /\ InHandOrdered'
  BY <1>u, <1>1 DEF IInv, LogOrdered, PendingOrdered, InHandOrdered, tracker, terminal
<1> QED
  BY <1>3, <1>4, <1>5, <1>6 DEF IInv

\* The end of run closes the open command.
LEMMA FinishStep == ASSUME IInv, Finish PROVE IInv' /\ LogStep
<1>u. UNCHANGED <<hook, terminal, fifo, revoked, pendingCommand, settled,
                  shellForeground, reports, poller, lastPgrp, batch>>
      /\ poller = "stopped" /\ main' = "done"
  BY DEF Finish
<1>1. /\ log' \in Seq(CommandType) /\ openCommand' = NoCommand /\ Tracked' /\ LogStep
      /\ LogOrdered' /\ \A i \in DOMAIN log' : i \in DOMAIN log /\ log'[i].line = log[i].line
  <2>1. CASE openCommand # NoCommand /\ Closes(NoExit, "session-end")
    BY <1>u, <2>1, ClosesLog DEF terminal
  <2>2. CASE openCommand = NoCommand /\ UNCHANGED tracker
    BY <1>u, <2>2, UnchangedLog DEF tracker, IInv, LogOrdered, terminal
  <2> QED
    BY <2>1, <2>2 DEF Finish
<1>2. TypeOK'
  BY <1>u, <1>1 DEF IInv, TypeOK, terminal
<1>3. Ticking' /\ Over' /\ Batched' /\ Alive'
  BY <1>u, <1>1 DEF IInv, Ticking, Over, Batched, Alive, terminal
<1>4. PendingOrdered' /\ InHandOrdered'
  BY <1>u, <1>1 DEF IInv, PendingOrdered, InHandOrdered, terminal
<1> QED
  BY <1>1, <1>2, <1>3, <1>4 DEF IInv

\* What a step of the poller leaves to show, whatever it does to the log.
LEMMA PollerFrame ==
    ASSUME IInv, UNCHANGED <<hook, terminal, fifo, main, revoked>>,
           poller # "stopped",
           poller' \in {"top", "sleep", "pgrp", "store", "apply", "fallback", "stopped"},
           lastPgrp' \in {Shell, HungUp} \cup Lines,
           reports' \in Seq({NoLine} \cup Lines), batch' \in Seq({NoLine} \cup Lines),
           shellForeground' \in BOOLEAN,
           log' \in Seq(CommandType), openCommand' \in {NoCommand} \cup DOMAIN log',
           Tracked', LogOrdered',
           \/ /\ UNCHANGED <<pendingCommand, settled>>
              /\ \A i \in DOMAIN log' : i \in DOMAIN log /\ log'[i].line = log[i].line
           \/ /\ TakePending
              /\ \A i \in DOMAIN log' : log'[i].line <= pendingCommand,
           Ticking', Batched'
    PROVE  IInv'
<1>t. /\ pendingCommand \in Nat /\ Len(lines) \in Nat
      /\ \A i \in DOMAIN log' : log'[i].line \in Nat
  <2>1. \A i \in DOMAIN log' : log'[i] \in CommandType
    OBVIOUS
  <2> QED
    BY <2>1 DEF IInv, TypeOK, NoLine, Lines, CommandType
<1>1. settled' \in BOOLEAN /\ pendingCommand' \in {NoLine} \cup Lines
  BY DEF IInv, TypeOK, TakePending
<1>2. TypeOK'
  BY <1>1 DEF IInv, TypeOK, terminal
<1>3. PendingOrdered'
  BY <1>t DEF IInv, PendingOrdered, TakePending, terminal, NoLine
<1>4. InHandOrdered'
  <2>1. CASE UNCHANGED <<pendingCommand, settled>>
             /\ \A i \in DOMAIN log' : i \in DOMAIN log /\ log'[i].line = log[i].line
    BY <2>1 DEF IInv, InHandOrdered, terminal
  <2>2. CASE TakePending /\ \A i \in DOMAIN log' : log'[i].line <= pendingCommand
    BY <1>t, <2>2 DEF IInv, InHandOrdered, TakePending, terminal, Lines, NoLine
  <2> QED
    BY <2>1, <2>2
<1>5. Over' /\ Alive'
  BY DEF IInv, Over, Alive, terminal
<1> QED
  BY <1>2, <1>3, <1>4, <1>5 DEF IInv

\* Where a tick of the poller can go on.
LEMMA StageType ==
    ASSUME NEW b
    PROVE  /\ Stage(b) \in {"top", "apply", "fallback"}
           /\ Stage(b) = "apply" => b # <<>>
BY DEF Stage

\* One tick of spawn_pgrp_poller, stage by stage.
LEMMA PollerStep == ASSUME IInv, Poller PROVE IInv' /\ LogStep
<1>u. UNCHANGED <<hook, terminal, fifo, main, revoked>> /\ lines' = lines
  BY DEF Poller, terminal
<1>t. /\ lastPgrp \in {Shell, HungUp} \cup Lines
      /\ foreground \in {Shell, HungUp} \cup Lines
      /\ reports \in Seq({NoLine} \cup Lines) /\ batch \in Seq({NoLine} \cup Lines)
      /\ shellForeground \in BOOLEAN
  BY DEF IInv, TypeOK
<1>q. ASSUME UNCHANGED tracker
      PROVE  /\ log' \in Seq(CommandType)
             /\ openCommand' \in {NoCommand} \cup DOMAIN log'
             /\ Tracked' /\ LogStep /\ LogOrdered'
             /\ \A i \in DOMAIN log' : i \in DOMAIN log /\ log'[i].line = log[i].line
  BY <1>u, <1>q, UnchangedLog DEF tracker, IInv, LogOrdered
<1>1. CASE PollerChecks
  <2>1. /\ poller = "top" /\ poller' \in {"stopped", "sleep"}
        /\ UNCHANGED <<pendingCommand, settled, shellForeground, reports, lastPgrp,
                       batch, tracker>>
    BY <1>1 DEF PollerChecks
  <2>2. Ticking' /\ Batched'
    BY <2>1 DEF IInv, Ticking, Batched, tracker
  <2> QED
    BY <1>u, <1>t, <1>q, <2>1, <2>2, PollerFrame
<1>2. CASE PollerDrains
  <2>1. /\ poller = "sleep" /\ poller' = "pgrp" /\ batch' = reports /\ reports' = <<>>
        /\ UNCHANGED <<pendingCommand, settled, shellForeground, lastPgrp, tracker>>
    BY <1>2 DEF PollerDrains
  <2>2. Ticking' /\ Batched'
    BY <2>1 DEF IInv, Ticking, Batched, tracker
  <2>3. reports' \in Seq({NoLine} \cup Lines)
    BY <2>1
  <2> QED
    BY <1>u, <1>t, <1>q, <2>1, <2>2, <2>3, PollerFrame
<1>3. CASE PollerReadsPgrp
  <2>1. /\ poller = "pgrp" /\ lastPgrp' = foreground
        /\ poller' = IF foreground # lastPgrp THEN "store" ELSE Stage(batch)
        /\ UNCHANGED <<shellForeground, reports, batch>>
    BY <1>3 DEF PollerReadsPgrp
  <2>2. poller' \in {"top", "store", "apply", "fallback"}
        /\ (poller' = "apply" => batch # <<>>)
    BY <2>1, StageType
  <2>3. openCommand # NoCommand => lastPgrp # Shell /\ ~shellForeground
    BY <2>1 DEF IInv, Ticking
  <2>4. CASE /\ foreground # Shell /\ lastPgrp = Shell /\ pendingCommand # NoLine
             /\ Opens /\ TakePending
    <3>1. openCommand = NoCommand
      BY <2>3, <2>4
    <3>2. /\ log' \in Seq(CommandType) /\ openCommand' \in {NoCommand} \cup DOMAIN log'
          /\ Tracked' /\ LogStep /\ LogOrdered'
          /\ \A i \in DOMAIN log' : log'[i].line <= pendingCommand
      BY <1>u, <2>4, <3>1, OpensLog
    <3>3. Ticking' /\ Batched'
      BY <2>1, <2>4 DEF Ticking, Batched
    <3> QED
      BY <1>u, <1>t, <2>1, <2>2, <2>4, <3>2, <3>3, PollerFrame
  <2>5. CASE /\ foreground = Shell /\ lastPgrp # Shell /\ ClosesAtReturn
             /\ Closes(NoExit, "pgrp") /\ UNCHANGED <<pendingCommand, settled>>
    <3>1. openCommand # NoCommand
      BY <2>5 DEF ClosesAtReturn
    <3>2. /\ log' \in Seq(CommandType) /\ openCommand' = NoCommand
          /\ Tracked' /\ LogStep /\ LogOrdered' /\ DOMAIN log' = DOMAIN log
          /\ \A i \in DOMAIN log : log'[i].line = log[i].line
      BY <1>u, <2>5, <3>1, ClosesLog
    <3>3. Ticking' /\ Batched'
      BY <2>1, <2>2, <3>2 DEF Ticking, Batched
    <3> QED
      BY <1>u, <1>t, <2>1, <2>2, <2>5, <3>2, <3>3, PollerFrame
  <2>6. CASE /\ ~(foreground = Shell /\ lastPgrp # Shell /\ ClosesAtReturn)
             /\ UNCHANGED <<tracker, pendingCommand, settled>>
    <3>1. Ticking' /\ Batched'
      BY <2>1, <2>2, <2>3, <2>6
      DEF Ticking, Batched, tracker, ClosesAtReturn, ReportedThisTick
    <3> QED
      BY <1>u, <1>t, <1>q, <2>1, <2>2, <2>6, <3>1, PollerFrame
  <2> QED
    BY <1>3, <2>4, <2>5, <2>6 DEF PollerReadsPgrp
<1>4. CASE PollerStores
  <2>1. /\ poller = "store" /\ poller' = Stage(batch)
        /\ shellForeground' = (lastPgrp = Shell)
        /\ UNCHANGED <<pendingCommand, settled, reports, lastPgrp, batch, tracker>>
    BY <1>4 DEF PollerStores
  <2>2. Ticking' /\ Batched'
    BY <2>1, StageType DEF IInv, Ticking, Batched, tracker, Stage
  <2> QED
    BY <1>u, <1>t, <1>q, <2>1, <2>2, StageType, PollerFrame
<1>5. CASE PollerApplies
  <2>1. /\ poller = "apply" /\ batch' = Tail(batch) /\ poller' = Stage(Tail(batch))
        /\ UNCHANGED <<shellForeground, reports, lastPgrp>> /\ batch # <<>>
    BY <1>5 DEF PollerApplies, IInv, Batched
  <2>2. Head(batch) \in {NoLine} \cup Lines /\ batch' \in Seq({NoLine} \cup Lines)
    BY <1>t, <2>1
  <2>3. poller' \in {"top", "apply", "fallback"} /\ Batched'
    BY <2>1, StageType DEF Batched
  <2>4. CASE /\ openCommand # NoCommand
             /\ Closes(Head(batch), "shell-hook") /\ UNCHANGED <<pendingCommand, settled>>
    <3>1. /\ log' \in Seq(CommandType) /\ openCommand' = NoCommand
          /\ Tracked' /\ LogStep /\ LogOrdered' /\ DOMAIN log' = DOMAIN log
          /\ \A i \in DOMAIN log : log'[i].line = log[i].line
      BY <1>u, <2>2, <2>4, ClosesLog
    <3>2. Ticking'
      BY <3>1 DEF Ticking
    <3> QED
      BY <1>u, <1>t, <2>1, <2>2, <2>3, <2>4, <3>1, <3>2, PollerFrame
  <2>5. CASE /\ openCommand = NoCommand /\ pendingCommand # NoLine
             /\ Synthesizes(Head(batch), "shell-hook") /\ TakePending
    <3>1. /\ log' \in Seq(CommandType) /\ openCommand' \in {NoCommand} \cup DOMAIN log'
          /\ Tracked' /\ LogStep /\ LogOrdered' /\ openCommand' = NoCommand
          /\ \A i \in DOMAIN log' : log'[i].line <= pendingCommand
      BY <1>u, <2>2, <2>5, SynthesizesLog
    <3>2. Ticking'
      BY <3>1 DEF Ticking
    <3> QED
      BY <1>u, <1>t, <2>1, <2>2, <2>3, <2>5, <3>1, <3>2, PollerFrame
  <2>6. CASE /\ openCommand = NoCommand
             /\ UNCHANGED <<tracker, pendingCommand, settled>>
    <3>1. Ticking'
      BY <2>6 DEF Ticking, tracker
    <3> QED
      BY <1>u, <1>t, <1>q, <2>1, <2>2, <2>3, <2>6, <3>1, PollerFrame
  <2> QED
    BY <1>5, <2>4, <2>5, <2>6 DEF PollerApplies
<1>6. CASE PollerFallsBack
  <2>1. /\ poller = "fallback" /\ poller' = "top"
        /\ UNCHANGED <<shellForeground, reports, lastPgrp, batch>>
    BY <1>6 DEF PollerFallsBack
  <2>2. CASE /\ settled /\ openCommand = NoCommand
             /\ Synthesizes(NoExit, "builtin-instant") /\ TakePending
    <3>1. pendingCommand # NoLine
      BY <2>2 DEF IInv, PendingOrdered
    <3>2. /\ log' \in Seq(CommandType) /\ openCommand' \in {NoCommand} \cup DOMAIN log'
          /\ Tracked' /\ LogStep /\ LogOrdered' /\ openCommand' = NoCommand
          /\ \A i \in DOMAIN log' : log'[i].line <= pendingCommand
      BY <1>u, <2>2, <3>1, SynthesizesLog
    <3>3. Ticking' /\ Batched'
      BY <2>1, <3>2 DEF Ticking, Batched
    <3> QED
      BY <1>u, <1>t, <2>1, <2>2, <3>2, <3>3, PollerFrame
  <2>3. CASE UNCHANGED <<tracker, pendingCommand, settled>>
    <3>1. Ticking' /\ Batched'
      BY <2>1, <2>3 DEF IInv, Ticking, Batched, tracker
    <3> QED
      BY <1>u, <1>t, <1>q, <2>1, <2>3, <3>1, PollerFrame
  <2> QED
    BY <1>6, <2>2, <2>3 DEF PollerFallsBack
<1> QED
  BY <1>1, <1>2, <1>3, <1>4, <1>5, <1>6 DEF Poller

----------------------------------------------------------------------------
(* The theorems *)

\* IInv is inductive, and no step changes a closed event.
LEMMA NextIInv == IInv /\ [Next]_vars => IInv' /\ LogStep
<1> SUFFICES ASSUME IInv, [Next]_vars PROVE IInv' /\ LogStep
  OBVIOUS
<1>1. CASE UNCHANGED vars
  BY <1>1, UnchangedLog
  DEF vars, terminal, tracker, IInv, TypeOK, Tracked, Ticking, Over, Batched, Alive,
      LogOrdered, PendingOrdered, InHandOrdered
<1>2. CASE MainReturns \/ WatchdogRevokes \/ ReaderForwards \/ SettleElapses
  BY <1>2, OtherThreadsStep
<1> QED
  BY <1>1, <1>2, TerminalStep, ForwardStep, CaptureStep, PollerStep, FinishStep DEF Next

\* What every state of the tracker satisfies: an event is open exactly if
\* open_command_id names it, each stage of the poller knows whether a job runs,
\* and log, pending line and line in hand are in typing order.
THEOREM Invariance == Spec => []IInv
BY InitIInv, NextIInv, PTL DEF Spec

\* Every variable of the tracker stays in its type.
THEOREM TypeCorrect == Spec => []TypeOK
<1>1. IInv => TypeOK
  BY DEF IInv
<1> QED
  BY <1>1, Invariance, PTL

\* The poller never loses sight of a command it has opened, and leaves none
\* open behind (recorder.rs: open_command, close_command, the end of run).
THEOREM CommandsAreTracked == Spec => []NoneLeftOpen
<1>1. IInv => NoneLeftOpen
  BY DEF IInv, TypeOK, Tracked, Over, NoneLeftOpen, NoCommand
<1> QED
  BY <1>1, Invariance, PTL

\* Between two ticks of the poller an open command's job has the foreground.
THEOREM OpenCommandsRun == Spec => []OpenOnlyWhileRunning
<1>1. IInv => OpenOnlyWhileRunning
  BY DEF IInv, Ticking, OpenOnlyWhileRunning
<1> QED
  BY <1>1, Invariance, PTL

\* Lines become commands in the order they were typed, each at most once.
THEOREM LogIsInTypingOrder == Spec => []RecordedOnceInOrder
<1>1. IInv => RecordedOnceInOrder
  BY DEF IInv, LogOrdered, RecordedOnceInOrder
<1> QED
  BY <1>1, Invariance, PTL

\* A closed command is never closed again or changed.
THEOREM ClosingIsFinal == Spec => ClosedForGood
<1>1. IInv /\ [Next]_vars =>
        [\A i \in DOMAIN log :
            /\ i \in DOMAIN log' /\ log'[i].line = log[i].line
            /\ log[i].how # "open" => log'[i] = log[i]]_vars
  BY NextIInv DEF LogStep
<1> QED
  BY <1>1, Invariance, PTL DEF Spec, ClosedForGood
=============================================================================
