\* A heartbeat that was under way when its process lost the session makes the
\* new owner look stale to a third process.
SPECIFICATION Spec
CONSTANTS
    p1 = p1
    p2 = p2
    p3 = p3
    i1 = i1
    Procs = {p1, p2, p3}
    Nobody = Nobody
    RowIds = {i1}
    NoId = NoId
    HeartbeatPeriod = 1
    StaleAfter = 3
    MaxDelay = 2
    MaxBeat = 2
    Detachers = {p1, p2, p3}
    Commands = {"attach", "takeover"}
SYMMETRY Symmetry
PROPERTY NotStolenFromPunctual
CHECK_DEADLOCK FALSE
