------------------------------ MODULE MCSettings ------------------------------
\* The constants of Settings for TLC: two migrations of the sizes 2 and 1, and
\* the defaults of the two logging keys of the instance.
EXTENDS Settings

CONSTANTS Output, Hostname, On, Off, Nvim

TwoMigrations == <<2, 1>>
DefaultLogging == [k \in {Output, Hostname} |-> IF k = Output THEN On ELSE Off]
SomeOverrides == [{Output, Hostname} -> {On, Unset}]
\* With an option or without; two variables of different values, blank or unset.
SomeNoteCalls ==
    {<<Nvim, Vim, Vim>>, <<Blank, Nvim, Nvim>>}
    \cup ({Unset} \X {Vim, Blank, Unset} \X {Nvim, Blank, Unset})
SomeAssignments == {<<Output, Off>>, <<EditorKey, Nvim>>}
=============================================================================
