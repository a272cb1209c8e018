SPECIFICATION LiveSpec
CONSTANTS
    \* the process
    Messages <- AllMessages
    Models = {TRUE, FALSE}
    MaxMessages = 2
    MaxOrders = 2
    MaxCrashes = 1
    MaxSignals = 1
    \* the risk gate
    Equities <- SomeEquities
    Weights <- SomeWeights
    NaN = NaN
    MaxDailyLoss = 3
    MaxDrawdown = 10
    MaxNotional = 200
    MaxOpenOrders = 5
    MaxOrderRate = 2
    LeverageLimit = 100
    Window = 2
    MaxTime = 4
INVARIANTS AtMostOneLate CompleteIsFinal RateLimit
PROPERTIES KillEnds HaltSticks ApprovedNearBest
CHECK_DEADLOCK FALSE
