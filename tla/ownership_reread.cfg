\* The owner detaches between a failed claim and the re-read of the row.
SPECIFICATION Spec
CONSTANTS
    p1 = p1
    p2 = p2
    i1 = i1
    Procs = {p1, p2}
    Nobody = Nobody
    RowIds = {i1}
    NoId = NoId
    HeartbeatPeriod = 1
    StaleAfter = 2
    MaxDelay = 2
    MaxBeat = 2
    Detachers = {p1, p2}
    Commands = {"attach", "detach"}
INVARIANT RereadFindsOwner
CHECK_DEADLOCK FALSE
