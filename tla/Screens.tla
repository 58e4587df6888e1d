------------------------------- MODULE Screens -------------------------------
(***************************************************************************)
(* What a terminal runs on the database without recording: bare `termnote` *)
(* (SessionManager), `termnote timeline` (TimelineScreen) and `termnote    *)
(* export` (Export), one after the other (cli/main.rs, commands.rs), while *)
(* other terminals change the sessions.                                    *)
(***************************************************************************)
EXTENDS SessionManager, TimelineScreen, Export

CONSTANTS
    Viewed,     \* the timelines that are looked at,
    Exported,   \* and those that are exported, in the instance
    NoExport    \* nothing exported

EventTypes == {"SESSION_START", "SESSION_ATTACH", "SESSION_DETACH", "SESSION_END",
               "COMMAND", "OUTPUT", "NOTE", "BOOKMARK", "SETTING_CHANGE"}

\* What the storage has of a session: an output names a command before it, or
\* none (0), as EventLog!PointersStayInTimeline says.
IsTimeline(t) ==
    /\ t \in Seq([type : EventTypes, text : Seq(Chars), command : Nat])
    /\ \A i \in DOMAIN t :
          t[i].type = "OUTPUT" /\ t[i].command # 0 =>
              t[i].command \in 1 .. i - 1 /\ t[t[i].command].type = "COMMAND"

ASSUME TimelinesAssumption == \A t \in Viewed \cup Exported : IsTimeline(t)

VARIABLES
    opening,    \* the session a command is about to read, and its timeline
    exported    \* the timeline that an export writes as Markdown or CSV

commandVars == <<opening, exported>>
vars == <<managerVars, viewVars, commandVars>>


NoSession == [by |-> "nobody", id |-> 0, timeline |-> <<>>]

Init ==
    /\ ManagerInit /\ TimelineInit
    /\ opening = NoSession /\ exported = NoExport

\* The terminal's prompt: no command runs.
AtPrompt ==
    /\ mode = "closed" /\ viewing = "closed"
    /\ opening.by = "nobody" /\ exported = NoExport

----------------------------------------------------------------------------
\* run_timeline, export_markdown, export_csv: require_by_name ...
Requires(what, n, t) ==
    /\ Has(n)
    /\ created = 1 /\ ~Row(n).archived /\ asked = NoRow    \* bound
    /\ opening' = [by |-> what, id |-> Row(n).id, timeline |-> t]
    /\ UNCHANGED <<managerVars, viewVars, exported>>

\* ... and list_all by id: nothing is left of a session that was deleted.
Recorded == IF opening.id \in Ids(rows) THEN opening.timeline ELSE <<>>

ReadsForScreen ==
    /\ opening.by = "timeline"
    /\ Shows(Recorded)
    /\ opening' = NoSession
    /\ UNCHANGED <<managerVars, exported>>

ReadsForExport ==
    /\ opening.by = "export"
    /\ exported' = Recorded
    /\ opening' = NoSession
    /\ UNCHANGED <<managerVars, viewVars>>

Ends ==
    /\ exported # NoExport
    /\ exported' = NoExport
    /\ UNCHANGED <<managerVars, viewVars, opening>>

----------------------------------------------------------------------------
Manages ==
    \/ AtPrompt /\ Starts
    \/ ManagerKeys \/ Continues

\* What a screen shows of a timeline, and a file, is a copy: nothing that other
\* terminals do meanwhile reaches it.  An export reads like the browser does.
OthersAct ==
    /\ viewing = "closed" /\ opening.by # "export" /\ exported = NoExport      \* bound
    /\ OtherTerminals

Commands ==
    \/ /\ AtPrompt
       /\ \E n \in Names : \/ \E t \in Viewed : Requires("timeline", n, t)
                          \/ \E t \in Exported : Requires("export", n, t)
    \/ ReadsForScreen \/ ReadsForExport \/ Ends

Next ==
    \/ (Manages \/ Escape \/ OthersAct) /\ UNCHANGED <<viewVars, commandVars>>
    \/ (TimelineKeys \/ LeavesView) /\ UNCHANGED <<managerVars, commandVars>>
    \/ Commands

\* The steps of the process on its own, and its key Esc.
OnItsOwn ==
    \/ Continues /\ UNCHANGED <<viewVars, commandVars>>
    \/ ReadsForScreen \/ ReadsForExport \/ Ends
Esc ==
    \/ Escape /\ UNCHANGED <<viewVars, commandVars>>
    \/ LeavesView /\ UNCHANGED <<managerVars, commandVars>>

\* A process goes on until it waits for a key.
Fairness == WF_vars(OnItsOwn)
Spec == Init /\ [][Next]_vars /\ Fairness

----------------------------------------------------------------------------
(* Properties *)

\* Every variable stays in its type.
TypeOK ==
    /\ ManagerTypeOK /\ TimelineTypeOK
    /\ opening.by \in {"nobody", "timeline", "export"}
    /\ opening.id \in 0 .. MaxSessions
    /\ IsTimeline(opening.timeline)
    /\ exported # NoExport => IsTimeline(exported)

\* Esc leads out: from wherever a user is, pressing nothing but Esc from then on
\* ends the screen, whatever other terminals change meanwhile (the four modes of
\* the session manager, the two of the timeline browser).
EscLeadsOut ==
    <>[][Esc \/ OnItsOwn \/ (OthersAct /\ UNCHANGED <<viewVars, commandVars>>)]_vars
        /\ WF_vars(Esc) => <>[]AtPrompt

\* Of a stream of CSI, OSC and two-character sequences strip_ansi leaves what is left
\* when a terminal has read them: nothing of a sequence, and no other character but
\* CR is missing (strip_ansi, against a reader that goes character by character and
\* gives up at other sequences: of ESC ( B, which ansi.rs:39 names, the B stays).
StripsLikeATerminal ==
    exported # NoExport =>
        \A i \in DOMAIN exported :
            LET s == exported[i].text
            IN Stream(s).state # "other" => Strip(s) = Stream(s).out

\* Outputs are recorded in chunks of whatever a read returned, and stripped chunk
\* by chunk.  As long as no chunk ends within a sequence, the parts in sum are the
\* text of the whole (otherwise the rest of the sequence shows up as text).
ChunksStripLikeTheWhole ==
    exported # NoExport =>
        LET outputs == Select(exported, {e \in Range(exported) : e.type = "OUTPUT"})
            texts == [i \in DOMAIN outputs |-> outputs[i].text]
        IN (\A i \in DOMAIN texts : Stream(texts[i]).state = "ground")
              => FlattenSeq([i \in DOMAIN texts |-> Strip(texts[i])])
                    = Strip(FlattenSeq(texts))

Printed(s) == Select(s, Chars \ Blank)

\* The Markdown loses and doubles nothing of what the CSV has: it shows the rows
\* it renders in their order, each command's output beneath it and what belongs
\* to no command before them (export_markdown gathers the outputs first, in a
\* map that render_event looks commands up in).
MarkdownKeepsTheTimeline ==
    exported # NoExport =>
        LET csv == Csv(exported)
            markdown == Markdown(exported)
            rendered == Select(csv, {r \in Range(csv) : r.event_type \in Rendered})
            sections == Select(markdown, {s \in Range(markdown) : s.event # 0})
            OutputOf(c) ==
                LET chunks == Select(csv, {r \in Range(csv) : r.event_type = "OUTPUT"
                                              /\ exported[r.sequence].command = c})
                IN Printed(FlattenSeq([k \in DOMAIN chunks |-> Strip(chunks[k].text)]))
        IN /\ [k \in DOMAIN sections |-> sections[k].event]
                 = [k \in DOMAIN rendered |-> rendered[k].sequence]
           /\ \A k \in DOMAIN markdown :
                 Printed(markdown[k].output) = OutputOf(markdown[k].event)
           /\ OutputOf(0) # <<>> => markdown[1].event = 0
=============================================================================
