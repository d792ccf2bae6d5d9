\* What the page draws for a row against the length entered for it.
SPECIFICATION Spec
CONSTANTS
    Points = 1
    Hundred = 2
    Shape <- MCShape
    Rows <- MCRows
INVARIANT RowDrawnAtItsLength
CHECK_DEADLOCK FALSE
