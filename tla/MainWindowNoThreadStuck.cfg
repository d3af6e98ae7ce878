CONSTANTS
    quran = quran
    ethics = ethics
    Classes = {quran, ethics}
    FirstCard = quran
    NULL = NULL
    MaxRuns = 3
SPECIFICATION WindowSpec
INVARIANT NoThreadStuck
CHECK_DEADLOCK FALSE
