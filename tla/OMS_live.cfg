SPECIFICATION FairSpec
CONSTANTS
    MaxOrders = 3
    MaxOpen = 1
    Qty = 2
    Endings <- OnlyCanceled
    Timeouts <- NoCalls
    Unchecked = FALSE
    MaxCancels = 0
    MaxCrashes = 0
INVARIANTS LiveBound TerminalLedger
PROPERTY Converges
CHECK_DEADLOCK FALSE
