----------------------------- MODULE Ingestion ------------------------------
(***************************************************************************)
(* The live ingestion of bars (backend/app/data/ingestion.py) and the      *)
(* other writer of the table ohlcv, the request that seeds it              *)
(* (seed_ohlcv of backend/app/api/data.py), with the exchange between.     *)
(*                                                                         *)
(* Bars are numbered; `current` is forming and those before it are closed. *)
(* A task is one call of LiveIngestionManager.start(): both loops of it    *)
(* are left by `return` or go round again, since the inner one catches     *)
(* every exception; hence the fallback to Kraken is never started and has  *)
(* no action here.  Each action is what a task does between two awaits.    *)
(***************************************************************************)
EXTENDS Integers, Sequences

CONSTANTS
    Tasks,          \* calls of start()
    MaxBars,        \* bound: bars that close
    MaxFailures,    \* bound: writes or publications that fail
    MaxSeeds,       \* bound: seeding requests
    Hour,           \* bars of the stream in a bar of one hour
    Window          \* how many bars a seeding request asks for

ASSUME IngestionAssumption ==
    /\ MaxBars \in Nat /\ MaxFailures \in Nat /\ MaxSeeds \in Nat
    /\ Hour \in Nat \ {0} /\ Window \in Nat \ {0}

VARIABLES
    current,        \* the bar that is forming
    net,            \* the stream can be reached
    running,        \* _running
    at,             \* place of each task
    feed,           \* per task: closed bars that its connection will deliver
    bar,            \* per task: the bar in _on_bar
    published,      \* per task: the bars it has published
    ohlcv,          \* the table: "none", "forming", "final" or "hour" per bar
    seed,           \* the candles that a seeding request has fetched
    unstored,       \* history: bars whose write failed
    late,           \* history, per task: bars published since the last stop
    \* bounds
    failures, seeds

task   == <<at, feed, bar>>
data   == <<published, ohlcv, unstored, late>>
market == <<current, net>>
seeder == <<seed, seeds>>
streamVars == <<market, running, task, data, seeder, failures>>

Minutes == 0..MaxBars
Values  == {"none", "forming", "final", "hour"}
Alive   == {"connect", "read", "closing", "store", "publish", "breaking",
            "backoff"}

StreamInit ==
    /\ current = 0 /\ net \in BOOLEAN /\ running = FALSE
    /\ at = [i \in Tasks |-> "idle"]
    /\ feed = [i \in Tasks |-> <<>>] /\ bar = [i \in Tasks |-> 0]
    /\ published = [i \in Tasks |-> <<>>] /\ late = [i \in Tasks |-> 0]
    /\ ohlcv = [t \in Minutes |-> "none"] /\ unstored = {}
    /\ seed = <<>> /\ seeds = 0 /\ failures = 0

Moves(i, from, to) == at[i] = from /\ at' = [at EXCEPT ![i] = to]

-----------------------------------------------------------------------------
\* The exchange.  It sends every bar that closes to those connected.

Closes ==
    /\ current < MaxBars /\ current' = current + 1
    /\ feed' = [i \in Tasks |-> IF at[i] \in {"read", "store", "publish"}
                                THEN Append(feed[i], current) ELSE feed[i]]
    /\ UNCHANGED <<net, running, at, bar, data, seeder, failures>>

NetChanges ==
    /\ net' = ~net
    /\ UNCHANGED <<current, running, task, data, seeder, failures>>

-----------------------------------------------------------------------------
\* The callers.  Nobody starts it twice without stopping it between.

Start(i) ==
    /\ ~running /\ running' = TRUE
    /\ Moves(i, "idle", "connect")
    /\ late' = [j \in Tasks |-> 0]
    /\ UNCHANGED <<market, feed, bar, published, ohlcv, unstored, seeder,
                   failures>>

Stop ==
    /\ running /\ running' = FALSE
    /\ UNCHANGED <<market, task, data, seeder, failures>>

-----------------------------------------------------------------------------
\* _binance_ws_loop

Connects(i) ==
    /\ net /\ Moves(i, "connect", "read")
    /\ feed' = [feed EXCEPT ![i] = <<>>]
    /\ UNCHANGED <<market, running, bar, data, seeder, failures>>

ConnectFails(i) ==
    /\ ~net /\ Moves(i, "connect", "breaking")
    /\ UNCHANGED <<market, running, feed, bar, data, seeder, failures>>

\* Mutant of Reads: whether it is stopped is looked at elsewhere.
ReadsAnyway(i) ==
    /\ feed[i] # <<>> /\ Moves(i, "read", "store")
    /\ bar' = [bar EXCEPT ![i] = Head(feed[i])]
    /\ feed' = [feed EXCEPT ![i] = Tail(feed[i])]
    /\ UNCHANGED <<market, running, data, seeder, failures>>

\* A closed bar has been received.
Reads(i) ==
    /\ running /\ feed[i] # <<>> /\ Moves(i, "read", "store")
    /\ bar' = [bar EXCEPT ![i] = Head(feed[i])]
    /\ feed' = [feed EXCEPT ![i] = Tail(feed[i])]
    /\ UNCHANGED <<market, running, data, seeder, failures>>

\* Mutant of NoticesStop: `continue` instead of `return`.
NoticesStopNot(i) ==
    /\ ~running /\ at[i] = "read"
    /\ feed' = [feed EXCEPT ![i] = <<>>]
    /\ UNCHANGED <<market, running, at, bar, data, seeder, failures>>

\* Any message, an update of the forming bar as well, after stop(): return, for
\* which the connection has to be closed first.
NoticesStop(i) ==
    /\ ~running /\ Moves(i, "read", "closing")
    /\ UNCHANGED <<market, running, feed, bar, data, seeder, failures>>

\* The connection is lost, or closed by the server.
Disconnects(i) ==
    /\ Moves(i, "read", "breaking")
    /\ UNCHANGED <<market, running, feed, bar, data, seeder, failures>>

\* The inner loop has returned: while self._running of the outer one.
Closed(i) ==
    /\ Moves(i, "closing", IF running THEN "connect" ELSE "returned")
    /\ UNCHANGED <<market, running, feed, bar, data, seeder, failures>>

\* An exception has left the connection: sleep, unless stopped.
Broken(i) ==
    /\ Moves(i, "breaking", IF running THEN "backoff" ELSE "returned")
    /\ UNCHANGED <<market, running, feed, bar, data, seeder, failures>>

\* Mutant of Wakes: an error ends the inner loop.
WakesEnds(i) ==
    /\ Moves(i, "backoff", "returned")
    /\ UNCHANGED <<market, running, feed, bar, data, seeder, failures>>

\* The sleep of the backoff is over: while self._running of both loops.
Wakes(i) ==
    /\ Moves(i, "backoff", IF running THEN "connect" ELSE "returned")
    /\ UNCHANGED <<market, running, feed, bar, data, seeder, failures>>

-----------------------------------------------------------------------------
\* _on_bar

\* The upsert: DO UPDATE.
Stores(i) ==
    /\ Moves(i, "store", "publish")
    /\ ohlcv' = [ohlcv EXCEPT ![bar[i]] = "final"]
    /\ UNCHANGED <<market, running, feed, bar, published, unstored, late,
                   seeder, failures>>

\* Mutant of StoreFails: a bar that could not be stored is tried again later.
StoreFailsLater(i) ==
    /\ failures < MaxFailures /\ failures' = failures + 1
    /\ Moves(i, "store", "read")
    /\ feed' = [feed EXCEPT ![i] = Append(feed[i], bar[i])]
    /\ UNCHANGED <<market, running, bar, data, seeder>>

\* Mutant of StoreFails: the failure goes unnoticed.
StoreFailsSilently(i) ==
    /\ failures < MaxFailures /\ failures' = failures + 1
    /\ Moves(i, "store", "publish")
    /\ UNCHANGED <<market, running, feed, bar, data, seeder>>

\* The error is logged and the bar published all the same.  What failed may be
\* the reply to the commit.
StoreFails(i) ==
    /\ failures < MaxFailures /\ failures' = failures + 1
    /\ Moves(i, "store", "publish")
    /\ ohlcv' \in {ohlcv, [ohlcv EXCEPT ![bar[i]] = "final"]}
    /\ unstored' = unstored \cup {bar[i]}
    /\ UNCHANGED <<market, running, feed, bar, published, late, seeder>>

\* The bar reaches the subscribers.
Delivers(i) ==
    /\ published' = [published EXCEPT ![i] = Append(@, bar[i])]
    /\ late' = IF running THEN late ELSE [late EXCEPT ![i] = @ + 1]

Publishes(i) ==
    /\ Moves(i, "publish", "read") /\ Delivers(i)
    /\ UNCHANGED <<market, running, feed, bar, ohlcv, unstored, seeder,
                   failures>>

\* Redis raises, the bar being delivered or not: the exception leaves the
\* connection, and the bar is not published again.
PublishFails(i) ==
    /\ failures < MaxFailures /\ failures' = failures + 1
    /\ Moves(i, "publish", "breaking")
    /\ Delivers(i) \/ UNCHANGED <<published, late>>
    /\ UNCHANGED <<market, running, feed, bar, ohlcv, unstored, seeder>>

Step(i) == \/ Connects(i) \/ ConnectFails(i) \/ Reads(i) \/ NoticesStop(i)
           \/ Closed(i) \/ Broken(i) \/ Wakes(i)
           \/ Stores(i) \/ StoreFails(i) \/ Publishes(i) \/ PublishFails(i)

-----------------------------------------------------------------------------
\* seed_ohlcv, of the symbol as the stream names it.

\* The last candles of one minute, the forming one among them.
MinuteCandles ==
    [t \in {t \in Minutes : t <= current /\ current < t + Window} |->
        IF t < current THEN "final" ELSE "forming"]

\* Those of one hour, which begin at the same times as some of one minute.
HourCandles ==
    [t \in {t \in Minutes : /\ t <= current /\ t % Hour = 0
                            /\ current \div Hour < t \div Hour + Window} |->
        "hour"]

SeedFetches ==
    /\ seed = <<>> /\ seeds < MaxSeeds /\ seeds' = seeds + 1
    /\ seed' \in {MinuteCandles, HourCandles}
    /\ UNCHANGED <<market, running, task, data, failures>>

\* Mutant of SeedInserts: ON CONFLICT DO UPDATE.
SeedUpserts ==
    /\ seed # <<>> /\ seed' = <<>>
    /\ ohlcv' = [t \in Minutes |->
                    IF t \in DOMAIN seed THEN seed[t] ELSE ohlcv[t]]
    /\ UNCHANGED <<market, running, task, published, unstored, late, seeds,
                   failures>>

\* ON CONFLICT DO NOTHING, by then.
SeedInserts ==
    /\ seed # <<>> /\ seed' = <<>>
    /\ ohlcv' = [t \in Minutes |->
                    IF t \in DOMAIN seed /\ ohlcv[t] = "none"
                    THEN seed[t] ELSE ohlcv[t]]
    /\ UNCHANGED <<market, running, task, published, unstored, late, seeds,
                   failures>>

\* The statement or the commit fails.
SeedFails ==
    /\ seed # <<>> /\ seed' = <<>>
    /\ UNCHANGED <<market, running, task, data, seeds, failures>>

-----------------------------------------------------------------------------
StreamNext ==
    \/ Closes \/ NetChanges \/ Stop
    \/ \E i \in Tasks : Start(i) \/ Step(i) \/ Disconnects(i)
    \/ SeedFetches \/ SeedInserts \/ SeedFails

\* Every await of a task ends: connecting and closing by their timeouts, the
\* sleep, the statements and the publication because database and Redis answer or
\* break the connection; and messages come about every two seconds as long as the
\* connection is there, or the missing pong breaks it.
StreamFairness == \A i \in Tasks : WF_streamVars(Step(i))

StreamSpec == StreamInit /\ [][StreamNext]_streamVars /\ StreamFairness

-----------------------------------------------------------------------------
\* Properties

StreamTypeOK ==
    /\ current \in Minutes /\ net \in BOOLEAN /\ running \in BOOLEAN
    /\ at \in [Tasks -> Alive \cup {"idle", "returned"}]
    /\ feed \in [Tasks -> Seq(Minutes)] /\ bar \in [Tasks -> Minutes]
    /\ published \in [Tasks -> Seq(Minutes)]
    /\ late \in [Tasks -> Nat]
    /\ ohlcv \in [Minutes -> Values] /\ unstored \subseteq Minutes
    /\ DOMAIN seed \subseteq Minutes /\ \A t \in DOMAIN seed : seed[t] \in Values
    /\ failures \in Nat /\ seeds \in Nat

\* A task publishes closed bars only, in their order and none twice, whatever
\* connections are lost and writes fail meanwhile.
PublishedInOrder ==
    \A i \in Tasks :
        /\ \A p, q \in DOMAIN published[i] :
              p < q => published[i][p] < published[i][q]
        /\ \A p \in DOMAIN published[i] : published[i][p] < current

\* Why: what a connection will deliver is younger than the bar in _on_bar, and
\* that than what has been published.
InHand(i) == at[i] \in {"store", "publish"}

OrderInv ==
    /\ PublishedInOrder
    /\ \A i \in Tasks :
          /\ \A p, q \in DOMAIN feed[i] : p < q => feed[i][p] < feed[i][q]
          /\ \A q \in DOMAIN feed[i] : feed[i][q] < current
          /\ \A p \in DOMAIN published[i], q \in DOMAIN feed[i] :
                published[i][p] < feed[i][q]
          /\ InHand(i) =>
                /\ bar[i] < current
                /\ \A p \in DOMAIN published[i] : published[i][p] < bar[i]
                /\ \A q \in DOMAIN feed[i] : bar[i] < feed[i][q]

Kept(t) == ohlcv[t] = "final" \/ t \in unstored

\* Subscribers see no bar that the table does not have as it closed, unless its
\* write failed.
PublishedStored ==
    \A i \in Tasks : \A p \in DOMAIN published[i] :
        Kept(published[i][p])

\* Why: so is a bar that is about to be published.
StoredInv ==
    /\ PublishedStored
    /\ \A i \in Tasks : at[i] = "publish" => Kept(bar[i])

\* A bar stored as it closed is never replaced by an earlier state of it or by
\* a bar of another time frame, although a seeding request inserts candles that
\* it fetched long before.
FinalStays ==
    [][\A t \in Minutes : ohlcv[t] = "final" => ohlcv'[t] = "final"]_streamVars

\* After stop() at most one more bar is published by each task.
OneAfterStop == \A i \in Tasks : late[i] <= 1

\* Why: one that is at hand is the first, and no other is read.
LateInv ==
    /\ OneAfterStop
    /\ \A i \in Tasks : running \/ InHand(i) => late[i] = 0

StreamInv == StreamTypeOK /\ OrderInv /\ StoredInv /\ LateInv

\* If it is stopped for good, every task returns, one that overlapped another as
\* well.
StopEnds ==
    <>[](~running) => <>[](\A i \in Tasks : at[i] \in {"idle", "returned"})

\* Why: while it is stopped a task only goes on towards its return, and a call of
\* start() would clear the stop.
PlacesLeft(place) ==
    CASE place = "store" -> 4
      [] place \in {"publish", "connect"} -> 3
      [] place = "read" -> 2
      [] place \in {"closing", "breaking", "backoff"} -> 1
      [] OTHER -> 0

OnlyReturns ==
    [][~running /\ ~running' =>
          \A i \in Tasks :
             at'[i] # at[i] => PlacesLeft(at'[i]) < PlacesLeft(at[i])
      ]_streamVars

\* If it is not stopped and the stream can be reached, there is a connection
\* again and again, whatever failed before.
Reconnects ==
    <>[](running /\ net) => []<>(\E i \in Tasks : at[i] = "read")
=============================================================================
