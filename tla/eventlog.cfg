\* A session with two recorders (a takeover) and a command writing notes and
\* bookmarks.
SPECIFICATION Spec
CONSTANTS
    r1 = r1
    r2 = r2
    c1 = c1
    c2 = c2
    s1 = s1
    s2 = s2
    Sessions = {s1, s2}
    Recorders = {r1, r2}
    Clients = {c1, c2}
    SessionOf <- MCSessionOf
    Nobody = Nobody
    Closings = {"pgrp", "session-end"}
    MaxEvents = 3
SYMMETRY Symmetry
INVARIANTS TypeOK GaplessTimeline MaximumStaysRead PointersStayInTimeline
    SearchMatchesTimeline OpenCommandIsPrivate
PROPERTIES AppendOnly TimelineSpec
CHECK_DEADLOCK FALSE
