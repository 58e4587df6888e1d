-------------------------------- MODULE Export --------------------------------
(***************************************************************************)
(* The exports of a timeline (termnote-export): the CSV has a row for each *)
(* event, with outputs as recorded; the Markdown shows outputs beneath     *)
(* their commands, with the terminal's escape sequences stripped from each *)
(* recorded chunk (ansi.rs).  An event's id is its place in the timeline.  *)
(***************************************************************************)
EXTENDS Integers, SequencesExt, Selection

\* The characters that matter to strip_ansi or to a terminal: ESC, BEL, CR and blank;
\* four final bytes of a CSI sequence, a parameter of one, and an intermediate byte.
Final == {"[", "]", "\\", "B"}
Blank == {" ", "CR"}
Characters == {"ESC", "BEL", "0", "("} \cup Final \cup Blank

----------------------------------------------------------------------------
(* strip_ansi *)

\* The first of some places, or n if there is none.
FirstPlace(places, n) ==
    IF places = {} THEN n ELSE CHOOSE j \in places : \A k \in places : j <= k

At(s, i) == IF i \in DOMAIN s THEN s[i] ELSE "none"

\* The final bytes of a CSI sequence, and the ends of an OSC sequence: BEL, ESC \.
CsiEnds(s, from) == {j \in from .. Len(s) : s[j] \in Final}
OscEnds(s, from) ==
    {j \in from .. Len(s) : s[j] = "BEL" \/ (s[j] = "ESC" /\ At(s, j + 1) = "\\")}

\* Mutant: a CSI sequence has no final byte.
AfterEscapeUnended(s, i) ==
    CASE At(s, i + 1) = "[" -> Len(s) + 1
      [] At(s, i + 1) = "]" ->
            LET end == FirstPlace(OscEnds(s, i + 2), Len(s))
            IN IF At(s, end) = "ESC" /\ At(s, end + 1) = "\\" THEN end + 2 ELSE end + 1
      [] OTHER -> i + 2

\* Mutant: the ESC that ends an OSC sequence leaves its backslash behind.
AfterEscapeKeepingBackslash(s, i) ==
    CASE At(s, i + 1) = "[" ->
            FirstPlace(CsiEnds(s, i + 2), Len(s)) + 1
      [] At(s, i + 1) = "]" ->
            FirstPlace(OscEnds(s, i + 2), Len(s)) + 1
      [] OTHER -> i + 2

\* Where the loop goes on after the ESC at place i: behind the final byte of a
\* CSI sequence, behind the BEL or ESC \ of an OSC sequence, else behind the
\* next character; sequences without an end swallow the rest of the chunk.
AfterEscape(s, i) ==
    CASE At(s, i + 1) = "[" ->
            FirstPlace(CsiEnds(s, i + 2), Len(s)) + 1
      [] At(s, i + 1) = "]" ->
            LET end == FirstPlace(OscEnds(s, i + 2), Len(s))
            IN IF At(s, end) = "ESC" /\ At(s, end + 1) = "\\" THEN end + 2 ELSE end + 1
      [] OTHER -> i + 2

Strip(s) ==
    LET from[i \in 1 .. Len(s) + 2] ==
            IF i > Len(s) THEN <<>>
            ELSE IF s[i] = "ESC" THEN from[AfterEscape(s, i)]
            ELSE IF s[i] = "CR" THEN from[i + 1]
            ELSE <<s[i]>> \o from[i + 1]
    IN from[1]

----------------------------------------------------------------------------
(* Markdown *)

TrimEnd(s) ==
    LET printed == {i \in DOMAIN s : s[i] \notin Blank}
    IN IF printed = {} THEN <<>>
       ELSE SubSeq(s, 1, CHOOSE i \in printed : \A j \in printed : j <= i)

\* Mutant: a chunk takes the place of the chunks before it.
PushReplacing(outputs, e) ==
    IF e.type = "OUTPUT" THEN [outputs EXCEPT ![e.command] = Strip(e.text)]
    ELSE outputs

\* The body of the loop over the OUTPUT events; command 0 stands for None, the
\* output that belongs to no command.
Push(outputs, e) ==
    IF e.type = "OUTPUT" THEN [outputs EXCEPT ![e.command] = @ \o Strip(e.text)]
    ELSE outputs

Outputs(timeline) ==
    LET upTo[i \in 0 .. Len(timeline)] ==
            IF i = 0 THEN [c \in 0 .. Len(timeline) |-> <<>>]
            ELSE Push(upTo[i - 1], timeline[i])
    IN upTo[Len(timeline)]

Rendered == {"COMMAND", "NOTE", "BOOKMARK", "SESSION_ATTACH", "SESSION_DETACH"}

\* render_event: the section of event i.
Section(timeline, i) ==
    [event |-> i, text |-> timeline[i].text,
     output |-> IF timeline[i].type = "COMMAND"
                THEN TrimEnd(Outputs(timeline)[i]) ELSE <<>>]

\* export_markdown: output without a command first, if there is any, then the
\* events in their order.
Markdown(timeline) ==
    LET orphan == TrimEnd(Outputs(timeline)[0])
        shown == Select([i \in DOMAIN timeline |-> i],
                        {i \in DOMAIN timeline : timeline[i].type \in Rendered})
    IN (IF orphan = <<>> THEN <<>>
        ELSE << [event |-> 0, text |-> <<>>, output |-> orphan] >>)
       \o [k \in DOMAIN shown |-> Section(timeline, shown[k])]

\* export_csv: a row for every event, the text in the column of its type.
Csv(timeline) ==
    [i \in DOMAIN timeline |->
        [sequence |-> i, event_type |-> timeline[i].type, text |-> timeline[i].text]]

----------------------------------------------------------------------------
(* The reference: a terminal that reads a stream character by character.  It  *)
(* knows CSI and OSC sequences and those of two characters; at anything else   *)
(* that a terminal would read differently again, as the three characters       *)
(* ESC ( B or a control within a sequence, it gives up, in state "other".      *)

StreamStep(acc, c) ==
    LET goes(to) == [acc EXCEPT !.state = to]
    IN CASE acc.state = "ground" ->
              (CASE c = "ESC" -> goes("escape")
                 [] c = "CR" -> acc
                 [] OTHER -> [acc EXCEPT !.out = Append(@, c)])
         [] acc.state = "escape" ->
              goes(CASE c = "[" -> "csi" [] c = "]" -> "osc"
                     [] c \in {"\\", "B", "0"} -> "ground"
                     [] OTHER -> "other")
         [] acc.state = "csi" ->
              goes(CASE c \in Final -> "ground"
                     [] c \in {"0", "(", " "} -> "csi"
                     [] OTHER -> "other")
         [] acc.state = "osc" ->
              goes(CASE c = "BEL" -> "ground" [] c = "ESC" -> "osc escape"
                     [] OTHER -> "osc")
         [] acc.state = "osc escape" -> goes(IF c = "\\" THEN "ground" ELSE "other")
         [] OTHER -> acc
Stream(s) ==
    LET read[i \in 0 .. Len(s)] ==
            IF i = 0 THEN [state |-> "ground", out |-> <<>>]
            ELSE StreamStep(read[i - 1], s[i])
    IN read[Len(s)]
=============================================================================
