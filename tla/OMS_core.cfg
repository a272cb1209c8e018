SPECIFICATION Spec
CONSTANTS
    MaxOrders = 2
    MaxOpen = 1
    Qty = 2
    Endings <- SilentEndings
    Timeouts <- AllCalls
    Unchecked = TRUE
    MaxCancels = 1
    MaxCrashes = 1
INVARIANTS Inv OrphansOnlyByLostReply
PROPERTY RefinesView
CHECK_DEADLOCK FALSE
