CONSTANTS
    Ids = {i1, i2}
    Classes = {k1}
    Claimants = {w1, w2}
    AttemptLimits = {2}
    StartDelays = {0}
    RetryDelays = {1, 2}
    RETRY_DELAYS <- MCRetryDelays
    StaleSeconds = 1
    AutoClose = {TRUE, FALSE}
    MaxIncidents = 2
    NULL = NULL
SPECIFICATION WorkerSpec
SYMMETRY WorkerSymmetry
INVARIANT WorkerTypeOK
INVARIANT ExecutorOwnsItsClaim
INVARIANT OneFlowAtATime
INVARIANT AttemptsBounded
INVARIANT RunningRowsAreStamped
INVARIANT RejoinOnlyAfterIncident
PROPERTY SettledIsFinal
PROPERTY RunningLeftByOwner
PROPERTY ImplementsQueue
