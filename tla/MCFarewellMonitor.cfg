CONSTANTS
    Ali = Ali
    AliArabic = AliArabic
    Maryam = Maryam
    Sara = Sara
    Dots = Dots
    Names = {Ali, AliArabic, Maryam, Dots}
    NormalForm <- MCNormalForm
    Nobody = Nobody
    Minimum = 1
    Markups = 1
    Window = 3
    Histories <- FreshRoom
    MaxMessages = 4
    MaxPolls = 3
SPECIFICATION FairMonitorSpec
INVARIANT MonitorTypeOK
PROPERTY ClosesOnFarewellTail
PROPERTY MonitorEnds
CHECK_DEADLOCK FALSE
