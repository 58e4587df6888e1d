\* new, attach, takeovers, detaches and crashes, with live processes that may be
\* later than the staleness threshold: stale claims and late releases.
SPECIFICATION FairSpec
CONSTANTS
    p1 = p1
    p2 = p2
    i1 = i1
    Procs = {p1, p2}
    Nobody = Nobody
    RowIds = {i1}
    NoId = NoId
    HeartbeatPeriod = 1
    StaleAfter = 1
    MaxDelay = 2
    MaxBeat = 1
    Detachers = {p1}
    Commands = {"new", "attach", "takeover", "detach", "crash"}
INVARIANT OwnerStaysFresh
PROPERTIES NoLiveSteal SettlesOnOwner DeadOwnerIsReplaceable
CHECK_DEADLOCK FALSE
