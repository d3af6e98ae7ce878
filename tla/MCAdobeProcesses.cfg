CONSTANTS
    Pids = {p1, p2, p3}
    MaxStarts = 4
SPECIFICATION ProcessSpec
SYMMETRY PidSymmetry
INVARIANT ProcessTypeOK
INVARIANT LeftoversExplained
PROPERTY StopsOnlyLater
CHECK_DEADLOCK FALSE
