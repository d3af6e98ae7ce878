CONSTANTS
    quran = quran
    ethics = ethics
    Classes = {quran, ethics}
    FirstCard = quran
    NULL = NULL
    MaxRuns = 2
SPECIFICATION WindowSpec
INVARIANT OneFlowPerProfile
CHECK_DEADLOCK FALSE
