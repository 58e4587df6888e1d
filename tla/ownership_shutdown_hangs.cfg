\* stdin meets EOF while the shell lives: no thread ever tells the poller to stop.
SPECIFICATION AllFairSpec
CONSTANTS
    p1 = p1
    p2 = p2
    i1 = i1
    Procs = {p1}
    Nobody = Nobody
    RowIds = {i1}
    NoId = NoId
    HeartbeatPeriod = 1
    StaleAfter = 2
    MaxDelay = 2
    MaxBeat = 2
    Detachers = {p1}
    Commands = {"attach", "eof"}
PROPERTY ShutdownCompletes
CHECK_DEADLOCK FALSE
