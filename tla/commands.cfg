\* Every kind of shell and of line, two lines, jobs that read type-ahead, late
\* reports, a takeover and the death of the shell at any point.
SPECIFICATION FairSpec
CONSTANTS
    Hooks = {"prompt", "postexec", "broken", "none"}
    Kinds = {"external", "builtin", "empty", "exit"}
    MaxLines = 2
INVARIANTS TypeOK NoneLeftOpen OpenOnlyWhileRunning RecordedOnceInOrder
PROPERTIES ClosedForGood EndIsNoticed ShutdownFinishes
CHECK_DEADLOCK FALSE
