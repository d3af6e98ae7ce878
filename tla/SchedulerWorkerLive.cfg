CONSTANTS
    Ids = {i1, i2}
    Classes = {k1}
    Claimants = {w1}
    AttemptLimits = {2}
    StartDelays = {0}
    RetryDelays = {1}
    RETRY_DELAYS <- MCOneDelay
    StaleSeconds = 1
    AutoClose = {TRUE}
    MaxIncidents = 1
    NULL = NULL
SPECIFICATION FairSpec
PROPERTY EveryJobSettles
