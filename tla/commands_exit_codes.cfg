SPECIFICATION Spec
CONSTANTS
    Hooks = {"prompt", "none"}
    Kinds = {"external", "builtin"}
    MaxLines = 2
INVARIANT ExitCodesAreExact
CHECK_DEADLOCK FALSE
