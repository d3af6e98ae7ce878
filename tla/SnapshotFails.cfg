CONSTANTS
    Pids = {p1, p2, p3}
    MaxStarts = 2
SPECIFICATION ProcessSpec
SYMMETRY PidSymmetry
PROPERTY StopsOnlyCreatedAfterward
CHECK_DEADLOCK FALSE
