------------------------------ MODULE MCScreens ------------------------------
\* The timelines of Screens for TLC.  The browser gets lines that match one
\* query, two or none, among events without a line; the exports get a command
\* whose output of up to four characters is split in every way, and two commands
\* with three chunks of output that belong to either, or to none.
EXTENDS Screens

Event(type, text, command) == [type |-> type, text |-> text, command |-> command]
Command(text) == Event("COMMAND", text, 0)
Output(text, c) == Event("OUTPUT", text, c)

SomeTimelines ==
    { <<Event("SESSION_START", <<>>, 0), Command(<<"B">>), Output(<<"0">>, 2),
        Event("NOTE", <<"B", "0">>, 0), Command(<<>>), Event("SESSION_END", <<>>, 0)>>,
      <<Output(<<"B">>, 0)>> }

Streams == BoundedSeq(Characters, 2)
           \cup BoundedSeq({"ESC", "BEL", "[", "]", "\\"}, 4)
           \cup BoundedSeq({"ESC", "(", "B"}, 3)
Split(s, k) == << Command(<<"B">>), Output(SubSeq(s, 1, k), 1),
                  Output(SubSeq(s, k + 1, Len(s)), 1) >>

Chunks == { <<"0">>, <<"B", " ">>, <<"ESC", "[", "B">> }
SomeExports ==
    {Split(p[1], p[2]) : p \in {q \in Streams \X (0 .. 4) : q[2] <= Len(q[1])}}
    \cup { << Event("SESSION_ATTACH", <<>>, 0), Command(<<"B">>), Output(a, c[1]),
              Command(<<"0">>), Output(b, c[2]), Event("BOOKMARK", <<>>, 0),
              Output(<<"]">>, c[3]) >> :
             a, b \in Chunks, c \in {0, 2} \X {0, 2, 4} \X {0, 2, 4} }
=============================================================================
