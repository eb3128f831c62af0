SPECIFICATION Spec
CONSTANTS
    Settings <- MCSettings
    Tables <- MCTables
    ReferenceRows <- MCReferenceRows
    FixedStations <- MCFixedStations
    Distance <- MCDistance
    Calendar <- MCCalendar
    MonthDays <- MCMonthDays
    MaxAborts = 1
INVARIANTS MeansAreWindows OwnReferences WarnedAboutSuspicious
