CONSTANTS
    quran = quran
    ethics = ethics
    Classes = {quran, ethics}
    FirstCard = quran
    NULL = NULL
    MaxRuns = 1
SPECIFICATION FairWindowSpec
PROPERTY ActionsComeBack
CHECK_DEADLOCK FALSE
