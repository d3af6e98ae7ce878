CONSTANTS
    Ali = Ali
    AliArabic = AliArabic
    Maryam = Maryam
    Sara = Sara
    Dots = Dots
    Names = {Ali, Maryam, Dots}
    NormalForm <- MCNormalForm
    Nobody = Nobody
    Minimum = 2
    Markups = 1
    Window = 4
    Histories <- UsedRoom
    MaxMessages = 3
    MaxPolls = 2
SPECIFICATION MonitorSpec
PROPERTY ConsensusIsCurrent
CHECK_DEADLOCK FALSE
