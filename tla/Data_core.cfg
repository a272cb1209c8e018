SPECIFICATION MarketSpec
CONSTANTS
    \* the rate limiter
    Capacity = 3
    Amounts = {1, 2}
    MaxAmount = 2
    MaxTime = 8
    \* the loading of history
    Bars <- EvenBars
    Interval = 2
    Limit = 2
    MaxRetries = 2
    Times <- AskedFor
    Ranges <- AllRanges
    Archives <- Autumn
    MonthRows <- SomeRows
    BatchSize = 2
    Downloads = 3
    \* the live stream
    Tasks = {1, 2}
    MaxBars = 2
    MaxFailures = 1
    MaxSeeds = 1
    Hour = 2
    Window = 2
INVARIANTS AtMostTwice
INVARIANTS Ascending CompleteBelowEnd WholeMonths ReturnsStored
INVARIANTS PublishedInOrder PublishedStored OneAfterStop
PROPERTIES CallEnds FinalStays StopEnds Reconnects
CHECK_DEADLOCK FALSE
