\* Attach, archive, restore, stdin EOF and crashes; every live process is
\* punctual.  Here the row is a real lock.
SPECIFICATION Spec
CONSTANTS
    p1 = p1
    p2 = p2
    p3 = p3
    i1 = i1
    Procs = {p1, p2, p3}
    Nobody = Nobody
    RowIds = {i1}
    NoId = NoId
    HeartbeatPeriod = 1
    StaleAfter = 2
    MaxDelay = 2
    MaxBeat = 2
    Detachers = {p1, p2, p3}
    Commands = {"attach", "archive", "restore", "delete", "eof", "crash"}
SYMMETRY Symmetry
INVARIANTS TypeOK SingleOwner WorkerIsOwner
PROPERTIES LockSpec
CHECK_DEADLOCK FALSE
