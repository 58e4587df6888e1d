---------------------------- MODULE TimelineScreen ----------------------------
(***************************************************************************)
(* The timeline browser of `termnote timeline` (tui/timeline.rs): a        *)
(* snapshot of a session's timeline with a line for each event but outputs *)
(* and ends, a search that filters the lines, and a selected line.         *)
(***************************************************************************)
EXTENDS Integers, SequencesExt, Selection

CONSTANTS
    Chars,      \* characters of texts
    Queries,    \* the queries of the instance, each of one character,
    NoQuery     \* and the empty query

ASSUME QueriesAssumption == Queries \subseteq Chars /\ NoQuery \notin Chars

VARIABLES
    viewing,    \* "closed", "browse" or "search"
    lines,      \* the texts of the lines
    visible,    \* the numbers of the lines shown
    at,         \* the selected one of those, counted from 1; 0 if None
    query       \* the last query that was run

viewVars == <<viewing, lines, visible, at, query>>

TimelineInit ==
    /\ viewing = "closed" /\ lines = <<>> /\ visible = <<>>
    /\ at = 0 /\ query = NoQuery

----------------------------------------------------------------------------
\* summarize: the events that have a line; the text stands for all it shows.
HasLine(e) == e.type \in {"COMMAND", "NOTE", "BOOKMARK", "SESSION_START",
                          "SESSION_ATTACH", "SESSION_DETACH"}
Summaries(timeline) ==
    LET shown == Select(timeline, {e \in Range(timeline) : HasLine(e)})
    IN [i \in DOMAIN shown |-> shown[i].text]

AllLines == [i \in DOMAIN lines |-> i]

Matches(text, q) == q = NoQuery \/ q \in Range(text)

\* filter: the lines that contain the query, in their order.
Filter(q) == Select(AllLines, {i \in DOMAIN lines : Matches(lines[i], q)})

MoveVisible(len, delta) ==
    LET current == IF at = 0 THEN 0 ELSE at - 1
    IN ((current + delta) % len) + 1

----------------------------------------------------------------------------
\* event_loop up to its first key.
Shows(timeline) ==
    /\ viewing = "closed"
    /\ viewing' = "browse"
    /\ lines' = Summaries(timeline)
    /\ visible' = [i \in DOMAIN lines' |-> i]
    /\ at' = IF lines' = <<>> THEN 0 ELSE 1
    /\ query' = NoQuery

\* Up and down; `g` and `G`.  None of them does anything without a line.
MovesLine ==
    /\ viewing = "browse" /\ visible # <<>>
    /\ at' \in {MoveVisible(Len(visible), -1), MoveVisible(Len(visible), 1),
                1, Len(visible)}
    /\ UNCHANGED <<viewing, lines, visible, query>>

StartsSearch ==
    /\ viewing = "browse"
    /\ viewing' = "search"
    /\ UNCHANGED <<lines, visible, at, query>>

\* Mutant: the selection stays where it was.
SearchesUnselected(q) ==
    /\ viewing = "search"
    /\ viewing' = "browse"
    /\ query' = q
    /\ visible' = IF Filter(q) = <<>> THEN AllLines ELSE Filter(q)
    /\ UNCHANGED <<lines, at>>

\* Enter: the lines that match, or all of them if none does.
Searches(q) ==
    /\ viewing = "search"
    /\ viewing' = "browse"
    /\ query' = q
    /\ visible' = IF Filter(q) = <<>> THEN AllLines ELSE Filter(q)
    /\ at' = IF visible' = <<>> THEN 0 ELSE 1
    /\ UNCHANGED lines

\* `n`: the lines that match, also if none does; then nothing is selected anew.
Repeats ==
    /\ viewing = "browse" /\ query # NoQuery
    /\ visible' = Filter(query)
    /\ at' = IF visible' = <<>> THEN at ELSE 1
    /\ UNCHANGED <<viewing, lines, query>>

\* Esc, or `q` in the list: the query that was being typed is dropped.
LeavesView ==
    \/ /\ viewing = "search" /\ viewing' = "browse"
       /\ UNCHANGED <<lines, visible, at, query>>
    \/ /\ viewing = "browse" /\ viewing' = "closed"
       /\ lines' = <<>> /\ visible' = <<>> /\ at' = 0 /\ query' = NoQuery

TimelineKeys ==
    MovesLine \/ StartsSearch \/ Repeats
    \/ \E q \in Queries \cup {NoQuery} : Searches(q)

----------------------------------------------------------------------------
(* Properties *)

\* The variables of the browser stay in their types; what is selected is a line
\* (the state of event_loop).
TimelineTypeOK ==
    /\ viewing \in {"closed", "browse", "search"}
    /\ lines \in Seq(Seq(Chars))
    /\ visible \in Seq(DOMAIN lines)
    /\ at \in 0 .. Len(lines)
    /\ query \in Queries \cup {NoQuery}

\* The highlight lies on a line that is shown, and what is shown matches the
\* last query: only when nothing matches are all lines shown (after Enter), or
\* none (after `n`), so that a blank screen means that there is no match
\* (event_loop; `n` filters again without the fallback of Enter).
HighlightIsOnAMatch ==
    /\ visible # <<>> => at \in DOMAIN visible
    /\ visible = Filter(query) \/ (Filter(query) = <<>> /\ visible = AllLines)
=============================================================================
