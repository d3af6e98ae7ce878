CONSTANTS
    w1 = w1
    w2 = w2
    c1 = c1
    c2 = c2
    Workers = {w1, w2}
    Checkers = {c1}
    NULL = NULL
    SlowChecks = TRUE
SPECIFICATION FairHealthSpec
PROPERTY CrashedWorkerComesBack
CHECK_DEADLOCK FALSE
