SPECIFICATION Spec
CONSTANTS
    N = 5
    UT0 = 2
    UT1 = 5
    Series <- MCSeries
    Profiles <- MCProfiles
    HqcValues = {4}
    MaxOutside = 3
INVARIANTS TypeOK DriftBounded RerunQuiet NothingReadyStays
PROPERTIES HqcKept
