SPECIFICATION SplitsSpec
CONSTANTS
    MaxN = 60
    MaxFolds = 6
    MaxSpan = 1
    KFoldCalls <- NoCalls
    PurgedCalls <- NoCalls
    WalkCalls <- NoCalls
    CombiCalls <- C62
INVARIANT CombinesAll
CHECK_DEADLOCK FALSE
