SPECIFICATION FairSpec
CONSTANTS
    Files <- MCFiles
    Configs <- MCConfigs
    Names <- MCNames
    Known <- MCKnown
    Absent = Absent
    Broken = Broken
    NoSlot = NoSlot
    HourLen = 2
    DayHours = 3
    MaxTime = 4
    MaxEdits = 1
    MaxLives = 2
    MaxBack = 0
    MaxNap = 2
INVARIANTS FatalOnlyAfterEdit StopDrainsQueue
PROPERTIES LedgerKept LedgerGrows SignalStops
CHECK_DEADLOCK FALSE
