SPECIFICATION Spec
CONSTANTS
    Files <- MCFiles
    Configs <- MCPlainConfigs
    Names <- MCNames
    Known <- MCKnown
    Absent = Absent
    Broken = Broken
    NoSlot = NoSlot
    HourLen = 2
    DayHours = 3
    MaxTime = 7
    MaxEdits = 0
    MaxLives = 1
    MaxBack = 1
    MaxNap = 2
INVARIANTS NoSlotLost
CHECK_DEADLOCK FALSE
