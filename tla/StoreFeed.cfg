SPECIFICATION FairSpec
CONSTANTS
    Answers <- MCAnyAnswer
    WaitMax = 2
    MaxBatches = 3
    MaxJobs = 2
    MaxOutages = 2
    MaxDrops = 1
    MaxLives = 2
INVARIANTS Accounted NoOpenTransaction
PROPERTIES FeedKept Published SignalStops FailedUpdateReconnects
CHECK_DEADLOCK FALSE
