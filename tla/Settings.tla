------------------------------- MODULE Settings -------------------------------
(***************************************************************************)
(* The layers of settings and the commands that change them.  The global   *)
(* layer is a TOML file (cli/config.rs), the session layer a JSON column   *)
(* of the session's row.  Both are changed by reading everything, setting  *)
(* one key and writing everything back, without a lock, so that `config    *)
(* set` and `settings set` of several processes overlap; a file is written *)
(* by truncating it first.  `attach` and `note` read the layers, each      *)
(* layer once, and resolve them (core/settings.rs, termnote-editor).       *)
(*                                                                         *)
(* A process runs one command after it has opened the database; then a new *)
(* one may run in its place.                                               *)
(***************************************************************************)
EXTENDS Migrations

CONSTANTS
    LoggingKeys, EditorKey,   \* the keys of a layer
    LoggingValues, Editors,   \* their values
    Unset,                    \* an Option that is None: inherit
    Blank,                    \* an editor that is set to an empty string
    Vim,                      \* the editor of last resort
    Defaults,                 \* LoggingSettings::default()
    Assignments,              \* the <<key, value>> that users set in the instance
    Overrides,                \* the logging options they give to attach,
    NoteCalls                 \* and what they call note with: its option,
                              \* $VISUAL and $EDITOR

Keys == LoggingKeys \cup {EditorKey}
Values == LoggingValues \cup Editors
ValuesOf(k) == IF k = EditorKey THEN Editors ELSE LoggingValues

ASSUME KeyAssumption == EditorKey \notin LoggingKeys
ASSUME UnsetAssumption == Unset \notin Values
ASSUME EditorAssumption == {Blank, Vim} \subseteq Editors /\ Blank # Vim
ASSUME DefaultsAssumption == Defaults \in [LoggingKeys -> LoggingValues]

ASSUME AssignmentsAssumption ==
    Assignments \subseteq {a \in Keys \X Values : a[2] \in ValuesOf(a[1])}

ASSUME OverridesAssumption ==
    Overrides \subseteq [LoggingKeys -> LoggingValues \cup {Unset}]

EditorChoices == Editors \cup {Unset}

ASSUME NoteCallsAssumption ==
    NoteCalls \subseteq EditorChoices \X EditorChoices \X EditorChoices

VARIABLES
    config,     \* what load finds in config.toml
    session,    \* the settings column of the session all commands name
    job,        \* job[p]: the command that p runs
    intended,   \* history: what each layer is after the sets that finished
    overlapped  \* history: the layers on which two sets overlapped, or a save
                \* was cut off

settingsVars == <<config, session, job, intended, overlapped>>
vars == <<openVars, settingsVars>>

----------------------------------------------------------------------------
(* Layers *)

DefaultConfig == [k \in Keys |-> IF k = EditorKey THEN Unset ELSE Defaults[k]]
Nothing == [k \in Keys |-> Unset]
Layer == [Keys -> Values \cup {Unset}]

\* load reads the defaults from a file that is not there, and also from one
\* that save has truncated: no text is a TOML document without any key.
NoFile == DefaultConfig
Truncated == DefaultConfig

\* Mutant: the arm of one key assigns to its neighbour as well.
SetKeyAndNeighbour(l, k, v) ==
    [j \in Keys |-> IF ValuesOf(j) = ValuesOf(k) THEN v ELSE l[j]]

\* Mutant: the other keys are not carried over.
SetKeyOnly(l, k, v) == [Nothing EXCEPT ![k] = v]

\* set_key, set_session_key, for a key that exists and a value that parses;
\* otherwise the command ends before it writes.
SetKey(l, k, v) == [l EXCEPT ![k] = v]

\* apply_override: `Some` wins, `None` inherits.
ApplyOverride(s, o) == [k \in LoggingKeys |-> IF o[k] # Unset THEN o[k] ELSE s[k]]

ResolveLogging(global, own, cli) == ApplyOverride(ApplyOverride(global, own), cli)

\* Mutant: the global file comes after the environment.
ResolveEditorGlobalLast(cli, own, global, visual, editor) ==
    LET choices == <<cli, own, visual, editor, global>>
        isSet == {i \in 1 .. 5 :
                     choices[i] # Unset /\ (i \notin {3, 4} \/ choices[i] # Blank)}
        chosen == IF isSet = {} THEN Vim
                  ELSE choices[CHOOSE i \in isSet : \A j \in isSet : i <= j]
    IN IF chosen = Blank THEN Vim ELSE chosen

\* resolve_editor for what cmd_note passes it; a blank environment variable is
\* no editor, but a blank setting is one, and edit_markdown runs vim for it.
ResolveEditor(cli, own, global, visual, editor) ==
    LET choices == <<cli, own, global, visual, editor>>
        isSet == {i \in 1 .. 5 : choices[i] # Unset /\ (i < 4 \/ choices[i] # Blank)}
        chosen == IF isSet = {} THEN Vim
                  ELSE choices[CHOOSE i \in isSet : \A j \in isSet : i <= j]
    IN IF chosen = Blank THEN Vim ELSE chosen

----------------------------------------------------------------------------
(* Commands *)

NoJob == [kind |-> "none", step |-> "idle", key |-> EditorKey, value |-> Vim,
          global |-> Nothing, own |-> Nothing, cli |-> Nothing,
          visual |-> Unset, editor |-> Unset, result |-> Nothing]
Becomes(p, j) == job' = [job EXCEPT ![p] = j]
Free(p) == Opened(p) /\ job[p] = NoJob

SettingsInit ==
    /\ config = NoFile /\ session = Nothing
    /\ job = [p \in Procs |-> NoJob]
    /\ intended = [file |-> DefaultConfig, row |-> Nothing]
    /\ overlapped = {}

Setting(p, what) == job[p].kind = what
Alone(p, what) == \A q \in Procs \ {p} : ~Setting(q, what)

\* `termnote config set`: load.
ConfigSetLoads(p, k, v) ==
    /\ Free(p)
    /\ Becomes(p, [NoJob EXCEPT !.kind = "config set", !.step = "loaded",
                      !.key = k, !.value = v, !.global = config])
    /\ overlapped' = IF Alone(p, "config set") THEN overlapped
                     ELSE overlapped \cup {"file"}
    /\ UNCHANGED <<config, session, intended>>

\* Mutant: the command goes on as if its file were written already.
ConfigSetTruncatesOnly(p) ==
    /\ Setting(p, "config set") /\ job[p].step = "loaded"
    /\ config' = Truncated
    /\ Becomes(p, [job[p] EXCEPT !.step = "written"])
    /\ UNCHANGED <<session, intended, overlapped>>

\* save: std::fs::write truncates the file ...
ConfigSetTruncates(p) ==
    /\ Setting(p, "config set") /\ job[p].step = "loaded"
    /\ config' = Truncated
    /\ Becomes(p, [job[p] EXCEPT !.step = "saving"])
    /\ UNCHANGED <<session, intended, overlapped>>

\* ... and then writes the text.  Of two writers that have both truncated the file
\* the last one's text stands: texts that differ in length, of which the file would
\* keep the tail of the longer one, are not modelled.
ConfigSetWrites(p) ==
    /\ Setting(p, "config set") /\ job[p].step = "saving"
    /\ config' = SetKey(job[p].global, job[p].key, job[p].value)
    /\ intended' = [intended EXCEPT !.file[job[p].key] = job[p].value]
    /\ Becomes(p, NoJob)
    /\ UNCHANGED <<session, overlapped>>

\* `termnote settings <name> set`: require_by_name ...
SettingsSetReads(p, k, v) ==
    /\ Free(p)
    /\ Becomes(p, [NoJob EXCEPT !.kind = "settings set", !.step = "loaded",
                      !.key = k, !.value = v, !.own = session])
    /\ overlapped' = IF Alone(p, "settings set") THEN overlapped
                     ELSE overlapped \cup {"row"}
    /\ UNCHANGED <<config, session, intended>>

\* ... and save_settings.
SettingsSetSaves(p) ==
    /\ Setting(p, "settings set")
    /\ session' = SetKey(job[p].own, job[p].key, job[p].value)
    /\ intended' = [intended EXCEPT !.row[job[p].key] = job[p].value]
    /\ Becomes(p, NoJob)
    /\ UNCHANGED <<config, overlapped>>

\* Those that only read change nothing that others see; one at a time will do.
MayRead(p) == Free(p) /\ Alone(p, "attach") /\ Alone(p, "note")     \* bound

\* `termnote attach`: the global file, then the session's row.
AttachLoads(p) ==
    /\ MayRead(p)
    /\ Becomes(p, [NoJob EXCEPT !.kind = "attach", !.step = "loaded",
                                !.global = config])
    /\ UNCHANGED <<config, session, intended, overlapped>>

\* The options of the command line are the third layer.
AttachResolves(p, cli) ==
    /\ Setting(p, "attach") /\ job[p].step = "loaded"
    /\ Becomes(p, [job[p] EXCEPT !.step = "resolved", !.own = session,
                      !.cli = cli,
                      !.result = ResolveLogging(job[p].global, session, cli)])
    /\ UNCHANGED <<config, session, intended, overlapped>>

\* `termnote note`: the session's row, then the global file.
NoteReads(p) ==
    /\ MayRead(p)
    /\ Becomes(p, [NoJob EXCEPT !.kind = "note", !.step = "loaded", !.own = session])
    /\ UNCHANGED <<config, session, intended, overlapped>>

NoteResolves(p, cli, visual, editor) ==
    /\ Setting(p, "note") /\ job[p].step = "loaded"
    /\ Becomes(p, [job[p] EXCEPT !.step = "resolved", !.global = config,
                      !.cli[EditorKey] = cli, !.visual = visual, !.editor = editor,
                      !.result[EditorKey] =
                          ResolveEditor(cli, job[p].own[EditorKey],
                                        config[EditorKey], visual, editor)])
    /\ UNCHANGED <<config, session, intended, overlapped>>

\* A command that works with resolved settings comes to its end.
Ends(p) ==
    /\ job[p].step = "resolved"
    /\ Becomes(p, NoJob)
    /\ UNCHANGED <<config, session, intended, overlapped>>

\* A command is killed, or its write fails; a file it truncated stays so.
Dies(p) ==
    /\ job[p].step \in {"loaded", "saving"} /\ faults < MaxFaults     \* bound
    /\ faults' = faults + 1
    /\ Becomes(p, NoJob)
    /\ overlapped' = IF job[p].step = "saving" THEN overlapped \cup {"file"}
                     ELSE overlapped
    /\ UNCHANGED <<catalog, schema, recorded, opener, config, session, intended>>
----------------------------------------------------------------------------
Init == OpenInit /\ SettingsInit

Runs(p) ==
    \/ \E a \in Assignments :
          ConfigSetLoads(p, a[1], a[2]) \/ SettingsSetReads(p, a[1], a[2])
    \/ ConfigSetTruncates(p) \/ ConfigSetWrites(p) \/ SettingsSetSaves(p)
    \/ AttachLoads(p) \/ NoteReads(p) \/ Ends(p)
    \/ \E cli \in Overrides : AttachResolves(p, cli)
    \/ \E c \in NoteCalls : NoteResolves(p, c[1], c[2], c[3])

Next ==
    \/ OpenNext /\ UNCHANGED settingsVars
    \/ \E p \in Procs : Runs(p) /\ UNCHANGED openVars
    \/ \E p \in Procs : Dies(p)

\* The operating system runs a process that is opening the database.
Fairness == \A p \in Procs : WF_vars(Migrates(p) /\ UNCHANGED settingsVars)
Spec == Init /\ [][Next]_vars /\ Fairness

----------------------------------------------------------------------------
(* Properties *)

JobType == [kind : {"none", "config set", "settings set", "attach", "note"},
            step : {"idle", "loaded", "saving", "resolved"},
            key : Keys, value : Values, global : Layer, own : Layer,
            cli : Layer \cup Overrides, visual : EditorChoices, editor : EditorChoices,
            result : Layer \cup [LoggingKeys -> LoggingValues]]

\* Every variable stays in its type.
TypeOK ==
    /\ OpenTypeOK
    /\ config \in Layer
    /\ session \in Layer
    /\ job \in [Procs -> JobType]
    /\ intended \in [file : Layer, row : Layer]
    /\ overlapped \subseteq {"file", "row"}

\* Sets that come one after the other are exact: each changes its own key and
\* keeps all others, in the file and in the session, though it writes all of
\* them; only sets that overlap, or a save that is cut off, lose anything
\* (cmd_config and cmd_settings read, change and write without a lock).
SerialSetsAreExact ==
    /\ "file" \in overlapped \/ config = intended.file
          \/ \E p \in Procs : job[p].step = "saving"
    /\ "row" \in overlapped \/ session = intended.row

\* However sets overlap and wherever they are cut off, what is lost falls back
\* to an older value: no key ever has a value that is neither its default nor
\* one that somebody set for this very key.
OnlySetValuesAppear ==
    \A k \in Keys :
        /\ config[k] # DefaultConfig[k] => <<k, config[k]>> \in Assignments
        /\ session[k] # Unset => <<k, session[k]>> \in Assignments

\* What is run for an editor that was chosen (edit_markdown).
RunsFor(e) == IF e = Blank THEN Vim ELSE e

\* What is run for these editors, the most specific first: a blank setting stands
\* for vim, a blank variable for nothing.
IsEditorOf(run, cli, own, global, visual, editor) ==
    /\ cli # Unset => run = RunsFor(cli)
    /\ cli = Unset /\ own # Unset => run = RunsFor(own)
    /\ cli = Unset /\ own = Unset /\ global # Unset => run = RunsFor(global)
    /\ cli = Unset /\ own = Unset /\ global = Unset =>
          \/ visual \notin {Unset, Blank} /\ run = visual
          \/ visual \in {Unset, Blank} /\ editor \notin {Unset, Blank} /\ run = editor
          \/ {visual, editor} \subseteq {Unset, Blank} /\ run = Vim

\* A command works with the settings of the most specific layer that sets them, as
\* the layers were when it read them, whatever is set meanwhile; a recorder has a
\* value for every key.  The layers of an editor are the command line, the session,
\* the global file, $VISUAL, $EDITOR, vim (resolve_logging; cmd_note hands the
\* global file on as the session's, so that it comes before $VISUAL, where PRD
\* section 31 and the comment of resolve_editor's module have no place for it).
MostSpecificLayerWins ==
    \A p \in Procs : job[p].step = "resolved" =>
        LET j == job[p] IN
        /\ j.kind = "attach" => \A k \in LoggingKeys :
              /\ j.result[k] \in {j.cli[k], j.own[k], j.global[k]} \ {Unset}
              /\ j.cli[k] # Unset => j.result[k] = j.cli[k]
              /\ j.cli[k] = Unset /\ j.own[k] # Unset => j.result[k] = j.own[k]
        /\ j.kind = "note" =>
              IsEditorOf(j.result[EditorKey], j.cli[EditorKey], j.own[EditorKey],
                         j.global[EditorKey], j.visual, j.editor)
=============================================================================
