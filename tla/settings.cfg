\* Two processes open a new database at once and then run commands on the
\* settings, again and again, with a fault.
CONSTANTS
    Procs = {p1, p2}
    Migrations = 2
    Statements <- TwoMigrations
    MaxFaults = 1
    Output = Output
    Hostname = Hostname
    On = On
    Off = Off
    Nvim = Nvim
    Vim = Vim
    Blank = Blank
    Unset = Unset
    EditorKey = Editor
    LoggingKeys = {Output, Hostname}
    LoggingValues = {On, Off}
    Editors = {Nvim, Vim, Blank}
    Defaults <- DefaultLogging
    Assignments <- SomeAssignments
    Overrides <- SomeOverrides
    NoteCalls <- SomeNoteCalls
SPECIFICATION Spec
INVARIANTS TypeOK OpenFindsSchema RecordedIsApplied SerialSetsAreExact OnlySetValuesAppear MostSpecificLayerWins
PROPERTIES InsistingOpens
CHECK_DEADLOCK FALSE
