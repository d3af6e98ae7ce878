CONSTANTS
    Ali = Ali
    AliArabic = AliArabic
    Maryam = Maryam
    Sara = Sara
    Dots = Dots
    Names = {Ali, Maryam, Dots}
    NormalForm <- MCNormalForm
    Nobody = Nobody
    Minimum = 2
    Markups = 2
    Window = 4
    Histories <- FreshRoom
    MaxMessages = 3
    MaxPolls = 2
SPECIFICATION MonitorSpec
PROPERTY ClosesOnFarewellTail
CHECK_DEADLOCK FALSE
