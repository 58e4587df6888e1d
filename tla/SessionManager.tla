---------------------------- MODULE SessionManager ----------------------------
(***************************************************************************)
(* The session manager screen of bare `termnote` (tui/app.rs) over the     *)
(* table of sessions (storage/sessions.rs), which other terminals change   *)
(* at the same time.  The screen shows a copy of the table that it reads   *)
(* when it starts and after changes of its own, and names a session to the *)
(* storage by the name in that copy.  A key that takes several SQL         *)
(* statements is several steps, between which the screen takes no other    *)
(* key; the counts of a preview, which are only shown, are part of the     *)
(* statement before them.  Any statement may fail (SQLITE_BUSY, disk full).*)
(***************************************************************************)
EXTENDS Integers, Sequences, FiniteSets, Selection

CONSTANTS
    Names,          \* names of sessions
    MaxSessions,    \* bound on the sessions that are ever created
    NoRow           \* no session

ASSUME MaxSessionsAssumption == MaxSessions \in Nat \ {0}
ASSUME NoRowAssumption ==
    NoRow \notin [id : 0 .. MaxSessions, name : Names, archived : BOOLEAN]

VARIABLES
    rows,       \* the sessions, the most recently updated first
    created,    \* how many sessions have ever been created
    mode,       \* what the screen does, "closed" when it does not run
    cache,      \* sessions_cache
    index,      \* the selected line of the list, counted from 1; 0 if None
    target,     \* the session that a key is about, as require_by_name saw it
    asked,      \* the session `termnote delete` asks about in a second terminal
    stale       \* history: the copies made before somebody else's last change

managerVars == <<rows, created, mode, cache, index, target, asked, stale>>
screenVars == <<mode, cache, index, target>>

Rows == [id : 1 .. MaxSessions, name : Names, archived : BOOLEAN]
\* What Mode::Message reports: SessionNotFound, or another error of the storage.
Messages == {"notFound", "failed"}
Modes == {"closed", "list", "prompt", "confirm", "toggling", "listing", "deleted",
          "attach", "new"} \cup Messages

ManagerInit ==
    /\ rows = <<>> /\ created = 0
    /\ mode = "closed" /\ cache = <<>> /\ index = 0 /\ target = NoRow
    /\ asked = NoRow /\ stale = {}

----------------------------------------------------------------------------
(* The table *)

Has(n) == \E i \in DOMAIN rows : rows[i].name = n
Row(n) == rows[CHOOSE i \in DOMAIN rows : rows[i].name = n]
Ids(s) == {s[i].id : i \in DOMAIN s}

\* UPDATE .. updated_at: the row comes first in the next list; no effect if
\* the row is gone.
Updated(r) ==
    IF r.id \in Ids(rows)
    THEN <<r>> \o Select(rows, {q \in Rows : q.id # r.id})
    ELSE rows

\* Mutant: DELETE FROM sessions without its WHERE clause.
EmptyTable(n) == <<>>

\* DELETE FROM sessions WHERE name = ..
Without(n) == Select(rows, {q \in Rows : q.name # n})

\* create_session, for a name that is free.
Inserted(n) == <<[id |-> created + 1, name |-> n, archived |-> FALSE]>> \o rows

\* A change of the table makes the copies of everybody else stale.
ScreenCopies == IF mode = "closed" THEN {} ELSE {"cache", "preview"}
OtherCopy == IF asked = NoRow THEN {} ELSE {"asked"}

----------------------------------------------------------------------------
(* The screen *)

Selected == index \in DOMAIN cache
ModeBecomes(m) == mode' = m
Rest == <<rows, created, asked>>

\* event_loop up to its first key.
Starts ==
    /\ mode = "closed"
    /\ ModeBecomes("list") /\ cache' = rows /\ index' = 1
    /\ UNCHANGED <<Rest, target, stale>>

Closes ==
    /\ ModeBecomes("closed") /\ cache' = <<>> /\ index' = 0 /\ target' = NoRow
    /\ stale' = stale \cap {"asked"}

\* Mutant: the line after the last is not the first.
MoveSelectionUnwrapped(len, delta) == index + delta

\* move_selection: rem_euclid wraps around; None counts as the first line.
MoveSelection(len, delta) ==
    LET current == IF index = 0 THEN 0 ELSE index - 1
    IN ((current + delta) % len) + 1

Moves ==
    /\ mode = "list" /\ cache # <<>>
    /\ \E delta \in {-1, 1} : index' = MoveSelection(Len(cache), delta)
    /\ UNCHANGED <<Rest, mode, cache, target, stale>>

\* Enter or `a`: the screen ends with the name it shows ...
Attaches ==
    /\ mode = "list" /\ Selected
    /\ ModeBecomes("attach") /\ target' = cache[index]
    /\ UNCHANGED <<Rest, cache, index, stale>>

\* ... and cmd_attach claims the session of that name; it ends without a claim
\* if there is none, if it is archived or if somebody else has it.
RunsAttach ==
    /\ mode = "attach"
    /\ \/ rows' = rows
       \/ /\ Has(target.name) /\ ~Row(target.name).archived
          /\ rows' = Updated(Row(target.name))
    /\ Closes
    /\ UNCHANGED <<created, asked>>

Prompts ==
    /\ mode = "list"
    /\ ModeBecomes("prompt")
    /\ UNCHANGED <<Rest, cache, index, target, stale>>

\* Enter with a name that is not blank.
Submits(n) ==
    /\ mode = "prompt"
    /\ ModeBecomes("new") /\ target' = [id |-> 0, name |-> n, archived |-> FALSE]
    /\ UNCHANGED <<Rest, cache, index, stale>>

\* cmd_new: an error on the terminal if the name is taken, or the INSERT fails.
RunsNew ==
    /\ mode = "new"
    /\ \/ UNCHANGED <<rows, created>>
       \/ /\ ~Has(target.name) /\ created < MaxSessions       \* bound
          /\ rows' = Inserted(target.name) /\ created' = created + 1
    /\ Closes
    /\ UNCHANGED asked

\* Mutant: `r` does what the line shows already.
TogglesReadsUnnegated ==
    /\ mode = "list" /\ Selected
    /\ IF Has(cache[index].name)
       THEN /\ ModeBecomes("toggling")
            /\ target' = [Row(cache[index].name) EXCEPT !.archived = cache[index].archived]
       ELSE ModeBecomes("notFound") /\ UNCHANGED target
    /\ UNCHANGED <<Rest, cache, index, stale>>

\* A statement of a change, `r` or `y`, fails: its message, and no change.
ChangeFails(m) ==
    /\ mode = m
    /\ ModeBecomes("failed")
    /\ UNCHANGED <<Rest, cache, index, target, stale>>
KeyFails == (Selected /\ ChangeFails("list")) \/ ChangeFails("confirm")
WriteFails == ChangeFails("toggling")

\* `r`: restore if the copy says ARCHIVED, else archive; require_by_name ...
TogglesReads ==
    /\ mode = "list" /\ Selected
    /\ IF Has(cache[index].name)
       THEN /\ ModeBecomes("toggling")
            /\ target' = [Row(cache[index].name) EXCEPT !.archived = ~cache[index].archived]
       ELSE ModeBecomes("notFound") /\ UNCHANGED target
    /\ UNCHANGED <<Rest, cache, index, stale>>

\* ... set_status by id, an UPDATE of the status alone (and Ok if the session
\* was deleted in between) ...
TogglesWrites ==
    /\ mode = "toggling"
    /\ rows' = IF target.id \in Ids(rows)
               THEN LET r == rows[CHOOSE i \in DOMAIN rows : rows[i].id = target.id]
                    IN Updated([r EXCEPT !.archived = target.archived])
               ELSE rows
    /\ ModeBecomes("listing")
    /\ stale' = stale \cup OtherCopy
    /\ UNCHANGED <<created, asked, cache, index, target>>

\* ... and list.  The selected line stays, though the lines have moved.
ListsAfterToggle ==
    /\ mode = "listing"
    /\ ModeBecomes("list") /\ cache' = rows /\ target' = NoRow
    /\ stale' = stale \ {"cache"}
    /\ UNCHANGED <<Rest, index>>

\* `d`: delete_preview, whose first statement finds the session; if one of its
\* statements fails, or there is no session, nothing happens.
AsksToDelete ==
    /\ mode = "list" /\ Selected /\ Has(cache[index].name)
    /\ ModeBecomes("confirm") /\ target' = Row(cache[index].name)
    /\ stale' = stale \ {"preview"}
    /\ UNCHANGED <<Rest, cache, index>>

\* `y`: delete ...
Deletes ==
    /\ mode = "confirm"
    /\ IF Has(target.name)
       THEN /\ rows' = Without(target.name) /\ ModeBecomes("deleted")
            /\ stale' = stale \cup OtherCopy
       ELSE ModeBecomes("notFound") /\ UNCHANGED <<rows, stale>>
    /\ UNCHANGED <<created, asked, cache, index, target>>

\* Mutant: the list is not read again.
KeepsListAfterDelete ==
    /\ mode = "deleted"
    /\ ModeBecomes("list") /\ target' = NoRow
    /\ index' = IF cache = <<>> THEN 0 ELSE 1
    /\ UNCHANGED <<Rest, cache, stale>>

\* ... and list, with the first line selected.
ListsAfterDelete ==
    /\ mode = "deleted"
    /\ ModeBecomes("list") /\ cache' = rows /\ target' = NoRow
    /\ index' = IF rows = <<>> THEN 0 ELSE 1
    /\ stale' = stale \ {"cache"}
    /\ UNCHANGED Rest

\* A list that fails ends event_loop with its error, unlike a failed change.
ListFails ==
    /\ mode \in {"listing", "deleted"}
    /\ Closes
    /\ UNCHANGED Rest

\* Mutant: Esc does not leave the prompt.
EscapeIgnoredByPrompt ==
    /\ mode \in {"list", "confirm"} \cup Messages
    /\ IF mode = "list" THEN Closes
       ELSE /\ ModeBecomes("list") /\ target' = NoRow
            /\ UNCHANGED <<cache, index, stale>>
    /\ UNCHANGED Rest

\* Esc (in the list also `q`; every key but `y` and any key do the same for a
\* confirmation and a message).
Escape ==
    /\ mode \in {"list", "prompt", "confirm"} \cup Messages
    /\ IF mode = "list" THEN Closes
       ELSE /\ ModeBecomes("list") /\ target' = NoRow
            /\ UNCHANGED <<cache, index, stale>>
    /\ UNCHANGED Rest

----------------------------------------------------------------------------
(* Other terminals *)

\* A change of one row by a second terminal.
OtherChanges(changed) ==
    /\ rows' = changed
    /\ stale' = stale \cup ScreenCopies \cup OtherCopy
    /\ UNCHANGED screenVars

\* `termnote new` and `termnote rename`; names are UNIQUE.
OtherCreates(n) ==
    /\ ~Has(n) /\ created < MaxSessions       \* bound
    /\ created' = created + 1
    /\ OtherChanges(Inserted(n))
    /\ UNCHANGED asked
OtherRenames(n) ==
    /\ ~Has(n)
    /\ \E i \in DOMAIN rows : OtherChanges(Updated([rows[i] EXCEPT !.name = n]))
    /\ UNCHANGED <<created, asked>>

\* archive, restore, attach, the release of a recorder: the row is updated.
OtherUpdates ==
    /\ \E i \in DOMAIN rows, a \in BOOLEAN :
          OtherChanges(Updated([rows[i] EXCEPT !.archived = a]))
    /\ UNCHANGED <<created, asked>>

\* `termnote delete`: delete_preview and the prompt ...
OtherAsks(n) ==
    /\ asked = NoRow /\ Has(n)
    /\ asked' = Row(n)
    /\ stale' = stale \ {"asked"}
    /\ UNCHANGED <<rows, created, screenVars>>

\* ... and, if the name was typed, the DELETE, which may find nothing.
OtherDeletes ==
    /\ asked # NoRow
    /\ asked' = NoRow
    /\ rows' = Without(asked.name)
    /\ stale' = (stale \cup ScreenCopies) \ {"asked"}
    /\ UNCHANGED <<created, screenVars>>
OtherDeclines ==
    /\ asked # NoRow
    /\ asked' = NoRow
    /\ stale' = stale \ {"asked"}
    /\ UNCHANGED <<rows, created, screenVars>>

----------------------------------------------------------------------------
ManagerKeys ==
    Moves \/ Attaches \/ Prompts \/ TogglesReads \/ AsksToDelete \/ Deletes \/ KeyFails
    \/ \E n \in Names : Submits(n)

\* What the process does without another key.
Continues ==
    \/ RunsAttach \/ RunsNew \/ TogglesWrites \/ WriteFails
    \/ ListsAfterToggle \/ ListsAfterDelete \/ ListFails

OtherTerminals ==
    \/ \E n \in Names : OtherCreates(n) \/ OtherRenames(n) \/ OtherAsks(n)
    \/ OtherUpdates \/ OtherDeletes \/ OtherDeclines

ManagerNext == Starts \/ ManagerKeys \/ Continues \/ Escape \/ OtherTerminals

----------------------------------------------------------------------------
(* Properties *)

\* The variables of the table and of the screen stay in their types, and every
\* session in the table has been created (Session; the state of event_loop).
ManagerTypeOK ==
    /\ rows \in Seq(Rows) /\ cache \in Seq(Rows)
    /\ created \in 0 .. MaxSessions
    /\ mode \in Modes
    /\ index \in 0 .. MaxSessions
    /\ target \in Rows \cup {NoRow} \cup [id : {0}, name : Names, archived : {FALSE}]
    /\ asked \in Rows \cup {NoRow}
    /\ stale \subseteq {"cache", "preview", "asked"}
    /\ created >= Len(rows)

\* Between its keys the screen shows the table as it is, after changes of its
\* own in any order, too, and after changes that failed, as long as nobody else
\* changes it (event_loop reads the list in the arms that change something, not
\* when it draws).
CacheIsCurrent ==
    mode \in {"list", "prompt", "confirm"} \cup Messages /\ "cache" \notin stale
        => cache = rows

\* Whatever keys came before, and whichever changes failed, only somebody else's
\* change makes the screen name a session that is not there: a user who is alone is
\* never told that a session does not exist, and attaches to one that exists (the
\* SessionNotFound among the messages of event_loop, and that of cmd_attach).
MissingMeansInterference ==
    /\ mode = "notFound" => "cache" \in stale \/ "preview" \in stale
    /\ mode = "attach" /\ "cache" \notin stale => Has(target.name)

\* `r` toggles the session of the highlighted line and no other, also though
\* the row changes places before the screen reads the list: of the lines then
\* shown just the one that was highlighted differs in its status.
TogglesSelectedOnly ==
    [][mode = "listing" /\ mode' = "list" /\ "cache" \notin stale =>
          \A i \in DOMAIN cache, j \in DOMAIN cache' :
             cache[i].id = cache'[j].id =>
                (cache[i].archived # cache'[j].archived <=> i = index)]_managerVars

\* What a confirmed deletion deletes, in the screen or in `termnote delete`, is
\* the session whose counts the user was shown and nothing else, unless somebody
\* else changed the table meanwhile: the DELETE goes by name, long after the
\* preview (event_loop, cmd_delete).
DeletesWhatWasPreviewed ==
    [][LET deleted == Ids(rows) \ Ids(rows') IN
       /\ mode = "confirm" /\ mode' = "deleted" =>
             deleted = {target.id} \/ ("preview" \in stale /\ Cardinality(deleted) = 1)
       /\ asked # NoRow /\ asked' = NoRow =>
             deleted \in {{asked.id}, {}} \/ ("asked" \in stale /\ Cardinality(deleted) = 1)
       /\ mode # "confirm" /\ asked = NoRow => deleted = {}]_managerVars
=============================================================================
