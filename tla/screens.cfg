\* One terminal runs the screens and the exports, another changes the sessions.
CONSTANTS
    Names = {a, b}
    MaxSessions = 2
    NoRow = NoRow
    Chars <- Characters
    Queries = {"B", "0", " "}
    NoQuery = NoQuery
    Viewed <- SomeTimelines
    Exported <- SomeExports
    NoExport = NoExport
SPECIFICATION Spec
INVARIANTS TypeOK CacheIsCurrent MissingMeansInterference HighlightIsOnAMatch StripsLikeATerminal ChunksStripLikeTheWhole MarkdownKeepsTheTimeline
PROPERTIES TogglesSelectedOnly DeletesWhatWasPreviewed EscLeadsOut
CHECK_DEADLOCK FALSE
