---------------------------- MODULE MCMarketData ----------------------------
(***************************************************************************)
(* One instance for TLC of the three parts of the market data, which share *)
(* no state in the models: the rate limiter, the loading of history and    *)
(* the live stream.  A behavior is one of a single part, with the others   *)
(* at rest, where nothing is enabled that fairness would ask for.          *)
(***************************************************************************)
EXTENDS TokenBucket, MCHistory, Ingestion

VARIABLE part       \* which of the three moves

\* A call for no months, that has returned.
HistoryRests ==
    /\ start = 0 /\ end = 0 /\ cursor = 0 /\ pages = <<>> /\ attempt = 0
    /\ pc = "done" /\ stored = {} /\ known = {}
    /\ job = "months" /\ range = <<<<2, 1>>, <<1, 12>>>> /\ month = <<2, 1>>
    /\ archived = {} /\ tries = 0 /\ phase = "download" /\ todo = {}
    /\ open = {} /\ total = 0 /\ table = {} /\ hasTable = FALSE
    /\ outcome = "returned"

MarketInit ==
    /\ BucketInit /\ StreamInit
    /\ \/ part = "bucket" /\ HistoryRests /\ ~net
       \/ part = "history" /\ HistoryInit /\ ~net
       \/ part = "stream" /\ HistoryRests

MarketNext ==
    \/ /\ part = "bucket" /\ BucketNext
       /\ UNCHANGED <<part, vars, hvars, streamVars>>
    \/ /\ part = "history" /\ HistoryNext
       /\ UNCHANGED <<part, bucketVars, streamVars>>
    \/ /\ part = "stream" /\ StreamNext
       /\ UNCHANGED <<part, bucketVars, vars, hvars>>

MarketSpec ==
    /\ MarketInit
    /\ [][MarketNext]_<<part, bucketVars, vars, hvars, streamVars>>
    /\ HistoryFairness /\ StreamFairness
=============================================================================
