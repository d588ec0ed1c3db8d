\* Two sizes and one scale: the smallest window that can be suspended and resumed.
SPECIFICATION Spec
CONSTANTS
    Sizes = {0, 1}
    Scales = {1}
    MaxRevision = 4
    MaxFrames = 1
    None = None
    Blank = Blank
INVARIANT TerminalErrorsAreFinal
CHECK_DEADLOCK FALSE
