CONSTANTS
    quran = quran
    ethics = ethics
    Classes = {quran, ethics}
    FirstCard = quran
    NULL = NULL
    MaxRuns = 3
SPECIFICATION FairWindowSpec
INVARIANT WindowTypeOK
INVARIANT OneFlowPerWindow
PROPERTY SessionClearedAtRest
PROPERTY StopIsNotWithdrawn
PROPERTY StopEndsRun
CHECK_DEADLOCK FALSE
