SPECIFICATION Spec
CONSTANTS
    LastMinute = 36
    Hour = 6
    Day = 18
    Morning = 6
    Starts = {6, 12}
    Span = 24
    Resolution = 1
    VippsUnlikelySingle = 3
    VippsUnlikelyStart = 3
    VippsRainInterrupt = 3
    MaxRainInterrupt = 4
    MinRainBeforeAndAfter = 2
    SlidingAlarms <- MCAlarms
    ThresholdDry = 5
    ThresholdWet = 10
    Tables <- MCTables
    Late <- MCLate
    HqcMinutes = {7, 12, 17}
    HqcValues = {0, 3}
    MaxOutside = 3
INVARIANTS TypeOK SumsAreWindows MarksStartShowers RerunQuiet RefusedForReason
PROPERTIES HqcKept DayFollowsNeighbours RunEnds
