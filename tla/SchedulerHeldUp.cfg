SPECIFICATION Spec
CONSTANTS
    Files <- MCFiles
    Configs <- MCPlainConfigs
    Names <- MCNames
    Known <- MCKnown
    Absent = Absent
    Broken = Broken
    NoSlot = NoSlot
    HourLen = 2
    DayHours = 3
    MaxTime = 8
    MaxEdits = 0
    MaxLives = 1
    MaxBack = 0
    MaxNap = 2

PROPERTIES HeldUpHourlyRunsOnce
CHECK_DEADLOCK FALSE
