CONSTANTS
    Ali = Ali
    AliArabic = AliArabic
    Maryam = Maryam
    Sara = Sara
    Dots = Dots
    Names = {Ali, Maryam, Sara, Dots}
    NormalForm <- MCNormalForm
    Nobody = Nobody
    Minimum = 2
    Markups = 1
    Window = 4
    Histories <- FreshRoom
    MaxMessages = 3
    MaxPolls = 2
SPECIFICATION MonitorSpec
PROPERTY EveryoneSaidFarewell
CHECK_DEADLOCK FALSE
