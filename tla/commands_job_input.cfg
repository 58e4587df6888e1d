SPECIFICATION Spec
CONSTANTS
    Hooks = {"prompt", "none"}
    Kinds = {"external", "builtin"}
    MaxLines = 2
INVARIANT JobInputIsNoCommand
CHECK_DEADLOCK FALSE
