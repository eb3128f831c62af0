SPECIFICATION Spec
CONSTANTS
    LastHour = 11
    Groups = {"TA", "UU", "RA"}
    HasMinMax = {"TA"}
    Bounded = {"UU"}
    Emptied = {9}
    Frost = {7}
    Starts = {0, 2}
    Span = 9
    MergeHours = 2
    ExtraData = 2
    EdgeHours = 1
    LongGap = 3
    AkimaPoints = 4
    Tables <- MCTables
    Nearby <- MCNearby
    OtherTypes <- MCOther
    Late <- MCLate
    HqcHours <- MCHqc
    LateNearby <- MCLateNearby
    MaxOutside = 2
INVARIANTS NothingForgotten TemperatureFirst NoCircle
PROPERTIES OnlyForBetter
