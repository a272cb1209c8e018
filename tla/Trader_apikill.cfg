SPECIFICATION FairSpec
CONSTANTS
    Messages <- ApiKill
    Models = {TRUE}
    MaxMessages = 1
    MaxOrders = 1
    MaxCrashes = 0
    MaxSignals = 0
PROPERTY KillObeyed
CHECK_DEADLOCK FALSE
