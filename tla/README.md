# Specifications of the trading platform

TLA+ models of the crypto trading platform in `src/`: its order management, its
risk controls, the live trading process with its kill switch, the fetching,
streaming and storing of market data, the model registry, the database schema
under its migrations, the cross-validation splitters and the backtester; TLC
configurations that check them on small instances; and proofs, checked by TLAPS,
of what they show for every value of the constants.
Paths below are relative to `src/backend/app/` unless they say otherwise.

    tlasany M.tla                        # parse a module
    tlc -workers 2 -config X.cfg M.tla   # check a run
    tlapm MProofs.tla                    # check the proofs of a component

PROJECT.json lists the components, the runs, the theorems, the source lines behind every
definition, one seeded fault per property of a passing run, and the hazards.

## 1. The system

Two processes run the program, next to PostgreSQL, Redis and the exchange: the
API (FastAPI, `main.py`) and the live trader (`live/main.py`). A third, the job
worker (`workers/settings.py`), defines jobs that nothing enqueues. Each process
is one asyncio event loop: code between two `await`s is atomic, and everything
can happen at an `await`.

| Component | State it keeps | Operations | Interacts with | What makes it correct |
|---|---|---|---|---|
| Order state machine, `oms/order.py` | status, filled quantity | `transition`, `apply_fill` | OMS | only edges of the graph; fills never decrease |
| OMS, `oms/oms.py` | `_orders` in memory | `submit`, `cancel`, `reconcile` | gate, exchange (ccxt) | our ledger never runs ahead of the exchange's; no live order unknown; every ended order is noticed |
| Risk gate, `risk/gate.py` | enabled, start-of-day and peak equity, daily P&L, deque of order times | `check`, `update_equity`, `reset_daily`, `enable` | called by the OMS | rate limit in every window; halts stick; nothing approved below the limits |
| Kill switch, `risk/kill_switch.py` | the trader's state dict | `trigger` | exchange, Redis, alerter | cancel, flatten, halt, and stay halted |
| Live trader, `live/main.py` | `_running`, `trading_enabled`, model, bar buffer, equity | four loops: heartbeat, commands, market data, reconcile | Redis channels, exchange, OMS, kill switch | no trading after a stop, pause or kill; a kill ends the process |
| Live API, `api/live.py` | none | start, stop, kill: publish on `trader:cmd` | trader, over Redis | what is published is understood |
| Binance fetcher, `data/binance.py` | token bucket, HTTP client | `fetch_klines`, `fetch_klines_all`, archives, upsert | exchange REST, database | the rate stays below the cap; the range is complete, ordered, without repetition; a call ends |
| Live ingestion, `data/ingestion.py` | `_running`, the task | WebSocket loop, Kraken fallback, `_on_bar` | exchanges, database, Redis | bars are published in order, once, when closed, and stored; stopped means stopped; a lost connection comes back |
| Model registry, `api/models_api.py` | rows of `model_registry` | train, background job, deploy | database, thread pool | one champion per strategy; a training ends as completed or failed |
| Backtest engine, `backtest/engine.py` | cash, position, entry, equity curve, trades | `run`, open, close | strategy | no look-ahead; cash and trades agree |
| CV splitters, `ml/cv.py` | none | four splitters | training | no training index within reach of a test label |
| Labels, sizing, `ml/labels.py`, `ml/sizing.py` | none | triple barrier, weights, Kelly | training | the first barrier touched decides |
| Data quality, `data/quality.py` | none | gap filling, clipping, validation | data frames | after validation a bar is consistent |
| Kraken fetcher, `data/kraken.py` | markets loaded | fetches | ccxt | - |
| OHLCV, strategy, backtest, risk and auth APIs, `api/*.py`, `auth.py` | rows | one transaction per request | database | the tables take what they write; seeding does not spoil what the stream has stored |
| API application, `main.py` | Redis client | start-up, `/health/trader`, WebSocket relay | trader's heartbeat | starting it does no harm to the database |
| Database, `database.py`, `db_models.py`, `src/backend/alembic/` | engine | session per request | all | code and migrated schema agree |
| Learning and features, `ml/*.py`, `features/*.py`, `risk/metrics.py` | models | fit, predict | - | numerical |
| Frontend, `src/frontend/src` | token, page | - | API | - |

What is hard in this code, and hardly tested (the repository's tests cover the
risk gate's first verdicts, one pass of the backtester and three risk metrics):

- the coroutines `submit`, `cancel` and `reconcile` interleave at their awaits and
  each applies answers that may be old by then;
- a request to the exchange may be served although its caller timed out;
- commands arrive at any point of the order path and of the kill sequence;
- crashes and restarts lose what is only in memory;
- rolling windows, token buckets, page boundaries and purge windows, where an
  off-by-one is invisible in a unit test;
- several places where two parts must agree on a name, a flag or a clock and
  nothing makes them.

PROJECT.json lists each of these as a hazard at its line. A hazard without a
property has a note that says why.

Facts about the code that the models rest on, and that surprise:

- nothing in the repository makes a `LiveIngestionManager`, a `KrakenDataFetcher`
  or a `DataQualityChecker`, and nothing enqueues a job of the worker;
- the fallback to Kraken is never started: the inner loop of the stream catches
  every exception and reconnects, so that none reaches the outer one;
- after a kill the process ends and the container restarts it with trading
  enabled (`docker-compose.yml`, `live/main.py:48`);
- no schema that the migrations and `create_all` can make has the table
  `ohlcv_bars` with the constraint `uq_ohlcv_bar` that the archive loader names;
- three of the statements written in SQL, the archive loader's and two of the
  worker's, cast a parameter (`:scores::jsonb`, `workers/settings.py:78`).
  SQLAlchemy's `text()` does not read a name that is followed by a colon as a
  parameter, so that they fail in any schema;
- `/health/trader` and the status of the live API subtract a number from the text
  that the trader writes as its time stamp, which raises (`main.py:206`,
  `api/live.py:30`);
- the trader's buffer of bars (`live/main.py:162`) gets one more copy of the
  forming candle with every message and is never trimmed.

## 2. Modules

| Module | Models | Composes |
|---|---|---|
| `OrderStates` | the status graph and the two methods of `oms/order.py` | |
| `OrderView` | *abstract*: what the OMS promises, two ledgers and no messages | `OrderStates` |
| `OMS` | `oms/oms.py` and the exchange | `OrderStates`; implements `OrderView` |
| `RiskGate` | `risk/gate.py` | |
| `Trader` | `live/main.py`, `risk/kill_switch.py`, `api/live.py`, the container's restart policy, the exchange | |
| `TokenBucket` | `_TokenBucket` of `data/binance.py` | |
| `KlinePages` | `fetch_klines` and `_get` of `data/binance.py` | |
| `History` | `fetch_klines_all`, `bulk_load_history`, `download_monthly_zip`, `_upsert_rows` of `data/binance.py` | extends `KlinePages` |
| `Ingestion` | `data/ingestion.py` and the seeding request of `api/data.py` | |
| `ModelRegistry` | `api/models_api.py` under the session discipline of `database.py` | |
| `Schema` | `src/backend/alembic/versions`, `db_models.py`, the start-up of `main.py`, and the statements that rely on them | |
| `Splits` | the four splitters of `ml/cv.py` | |
| `Fractions`, `BacktestEngine` | `backtest/engine.py` | `Fractions` |
| `MCOMS`, `MCRiskGate`, `MCTrader`, `MCHistory`, `MCModelRegistry`, `MCSplits`, `MCBacktest` | sets that the configurations give to the constants | the module they are named after |
| `MCLive` | one instance of the live process | `Trader`, `RiskGate` |
| `MCMarketData` | one instance of the market data | `TokenBucket`, `History`, `Ingestion` |
| `MCApi` | one instance of what is behind the API | `ModelRegistry`, `Schema`, `Splits`, `BacktestEngine` |
| `OMSProofs`, `RiskGateProofs`, `TraderProofs`, `IngestionProofs`, `ModelRegistryProofs`, `SchemaProofs` | theorems | the module they are named after |
| `BinanceProofs` | theorems | `TokenBucket`, `History` |
| `ResearchProofs` | theorems | `Splits`, `BacktestEngine` |

### OMS, OrderStates, OrderView

An action of `OMS` is what one coroutine does between two awaits. Orders are
numbered in the order of creation, which is the iteration order of `_orders`.

- `submit` awaits the equity; `GateApproves` / `GateRejects` are the code from
  there to `create_order` (the order is stored before it is sent), `SubmitReturns`
  and `SubmitFails` what follows the reply or the exception. The only caller
  awaits each call before the next one.
- `reconcile` is `RecFetch`, `RecFetched`, ..., with the orders still to treat in
  `todo`. It treats several orders without awaiting when their state is in its
  list, so that "loop" excludes the other coroutines; when it must ask for a
  single order (`_sync_from_exchange`) it awaits.
- `cancel` decides before its await and transitions after it.
- The exchange is external. A call is answered from the exchange's state at some
  moment between request and reply; the reply may be stale when it is applied.
  `Timeouts` says which calls may end in an exception whatever became of the
  request, so that a run can ask what holds when no reply is lost.
- A crash empties `_orders`; nothing is persisted.
- Quantities are 0..`Qty`: the properties only distinguish none, some and all.

`OrderView` has two ledgers. Ours follows the graph of `oms/order.py`, its fills
only grow, and it never says of an order what the exchange's ledger does not
already say; "rejected" is the one status it may give by itself. `RefinesView` is
the statement that `OMS` implements it, with the obvious mapping.

### RiskGate

`check` awaits nothing, so one action is one call: `Reject` when one of the checks
1 to 6 fails (the first that does, in the code's order), `Decide` for the pruning
of the window and the last two. Percentages and equities are integers; both sides
of a comparison are multiplied out, so that no division is rounded. `NaN` is a
weight for which every comparison is false. An equity of 0 raises
`ZeroDivisionError` in check 3, as in the code. `enable` and `reset_daily` are
modelled although nothing in the repository calls them, because they are the
class's interface. `log`, `best` and `tripped` are history variables.

### Trader

One variable for the place of the command listener (the kill switch runs inside
it), one for that of the market data loop, and the set of loops that have
returned. Of an order's path only the awaits, the gate's halt and the sending are
kept: the rest is in `OMS` and `RiskGate`. Loading a champion is a choice at start
(`Models`), since the loader turns every error into "no model".

`Messages` are records of a key and a value: `ApiMessages` are those that
`api/live.py` publishes (key "cmd"), `RawMessages` those that the listener
understands (key "action"), which an operator can publish, and `BadMessage` is
JSON that is not an object. `_flatten_position` has no action: both calls of
`asyncio.coroutine` before it raise under Python 3.11, and the exception is
caught.

### TokenBucket, KlinePages, History

`TokenBucket` counts time in units of one token. The lock makes one caller at a
time be inside `consume`; a waiting caller may wake late or be cancelled. `Mark`
lays the beginning of a stretch of time at any moment, so that the properties are
about every interval, not only those from the start.

`KlinePages` is one call of `fetch_klines` while the exchange goes on adding bars.
Bars are their open times and need not be contiguous; the range may begin and end
between bars. The order of the retries is `_get`'s; how long each waits is left
out, and so is the weight accounting, which is `TokenBucket`'s.

`History` is what becomes of the rows. A behaviour is either one call of
`fetch_klines_all`, in which the pages are those of `KlinePages`, or one of
`bulk_load_history`, which downloads the archive of one month after the other. A
row is its open time; `MonthRows` gives those of each archive, and there may be
none. `Batch` executes at most `BatchSize` rows in the open transaction,
`Commits` stores them and adds their number to what is returned, `CommitFails`
raises, the commit being done or not. `hasTable` says whether the statement can
succeed at all: in the schema as the repository makes it, and with the casts of
its parameters as they are written, it cannot (`Schema`), so that every call with
rows raises; what is checked is the loader given the table and the statement that
it was meant to have.

### Ingestion

A task is one call of `start()`; there may be two at a time, since a task that was
stopped goes on until its await returns. Bars are numbered: bar `now` is forming,
those before it are closed. `feed` is what the connection of a task will still
deliver, `bar` the bar inside `_on_bar`, and an action what a task does between
two awaits. A write that fails is logged and the bar published all the same
(`unstored` remembers it); a publication that fails breaks the connection, and
may have been delivered all the same, when it is the reply that was lost.
`table` tells the state of a bar as it closed from one still forming and from one
of another time frame: `seed_ohlcv` inserts candles that it fetched before, the
forming one among them, and whatever interval it was asked for, into the same
keys, when it is given the symbol as the stream names it. Nobody calls `start()`
of a manager that runs.

### ModelRegistry

An action is a statement or a commit of a transaction. A request's session is
committed by `get_db` when its handler has returned; the database is PostgreSQL at
its default isolation, so a statement reads what is committed when it runs, and a
row that is updated stays locked until its transaction ends (`Unlocked`).

- `Train` inserts and flushes, `TrainCommits` / `TrainAborts` end the request.
  `pyproject.toml` asks for `fastapi>=0.115`; of these some versions run the
  background task after that commit and some before it, hence `TaskFirst`. In the
  second order the job never finds its row.
- `JobStarts` ... `JobFails` are the background job: progress updates are folded
  into the step they precede, because they write "training" over "training"; an
  update may raise although it was committed, and then "failed" is written over
  "completed" (`lost` remembers it).
- `DeployFinds`, `DeployLists`, `DeployFlushes`, `DeployCommits` are the two queries,
  the flush and the commit of a deployment. A session keeps the attributes of an
  object that it has loaded before, and writes those only that have changed: hence
  `loaded`, `Off` and `On`.
- `Deploys` are slots: a slot serves one deployment after the other.

### Schema

A table is its columns, those that an INSERT must give, and its unique keys
(a named constraint is a key of its name). Migrations, start-ups of the API and
downgrades come in any order; requests only when a user can be authenticated,
for which the admin must have been stored. `Statement` is a statement of the
program: it executes if its parameters are bound, its table, columns and conflict
target exist and nothing required is missing; `Cast` is one whose parameters are
not bound. A migration is one action, since Alembic runs all
migrations of a call in one transaction; `CreateAll` and `Starts` are two, since
`init_db` commits before the admin user is looked for. `early` and `headed` are
history.

### Splits

A state is what one call of a splitter has yielded so far; an action is one
iteration of its loop. Index arrays are sets of indices and boolean masks are set
differences; `Slice` is numpy's slice. The arguments are the records of
`KFoldCalls`, `PurgedCalls`, `WalkCalls` and `CombiCalls`; where the code computes
`int(n * pct_embargo)` in floating point, the embargo is an argument. An empty
group makes `combinatorial_purged_cv` raise. Labels are modelled by what purging
is about: the label of row i spans the rows i to i + horizon. A step of 0,
with which `walk_forward_splits` would not end, is excluded by `SplitsAssumption`.

### BacktestEngine

One action is one bar of the loop of `run()`: `Keeps` when nothing is executed,
`Execute` when the side of the strategy's signal is another than that of the
position (`Turns`); the strategy is any. Prices are integers and amounts exact fractions
(`Fractions`), so that what is checked does not depend on rounding. `Fee`,
`Opened`, `Closed`, `Trade` and `Marked` are the code's formulas as they stand.
The statistics of `get_results`, numerical functions of the equity curve and the
trades, are left out.

### MCLive, MCMarketData, MCApi

Each puts models that share no state into one run: a behavior is one of a single
part (`part`), with any legal history of that part, while the others are at rest.
A part rests in a state where none of its actions is enabled that the
specification is fair to: no process is up, the call of the fetcher has returned,
no task and no job is there; the tools of `Splits` and `BacktestEngine` have no
fairness, and wait at the beginning of a call with arbitrary arguments. So a
property of a part holds in the run if and only if it holds in the part alone;
nothing is said of parts that move together, which could not disturb each other.

## 3. Runs

| Run | Checks | Result |
|---|---|---|
| oms_core | `Inv`, `OrphansOnlyByLostReply`, `RefinesView` | hold, with every call allowed to time out, a cancel, a crash, unchecked submissions |
| oms_live | `LiveBound`, `TerminalLedger`, `Converges` | hold when no reply is lost, nothing crashes, and the exchange ends orders by filling or cancelling them |
| live_core | of `Trader`: `AtMostOneLate`, `CompleteIsFinal`, `KillEnds`; of `RiskGate`: `RateLimit`, `HaltSticks`, `ApprovedNearBest` | hold |
| data_core | of `TokenBucket`: `AtMostTwice`; of `History`: `Ascending`, `CompleteBelowEnd`, `WholeMonths`, `ReturnsStored`, `CallEnds`; of `Ingestion`: `PublishedInOrder`, `PublishedStored`, `OneAfterStop`, `FinalStays`, `StopEnds`, `Reconnects` | hold |
| api_core | of `ModelRegistry`: `ChampionsBounded`, `ChampionIsTrained`, `TrainingEnds`; of `Schema`: `HeadMatchesOrm`, `RowsKept`; of `Splits`: `NoLeakage`, `NothingWasted`, `TestedOnce`, `WalksForward`; of `BacktestEngine`: `TradesDisjoint` | hold |
| trader_apikill | `KillObeyed` | violated |
| registry_deploy | `DeployedIsChampion` | violated |
| schema_firstrun | `FirstRunMigrates` | violated |
| schema_head | `HeadServes` | violated |
| splits_combi | `CombinesAll` | violated |
| backtest_buy | `HasTrades` | violated |
| backtest_account | `AccountAddsUp` | violated |

The type invariant and the inductive invariant of each module that is proved about
are theorems (section 4) and not repeated in the runs, except `Inv` of `OMS`, which
is of interest by itself: our record of an order never runs ahead of the exchange's.

What the violated ones show (each quotes, in PROJECT.json, the sentence of the
repository that it contradicts):

- the API's commands are published under a key that the listener does not read;
- a deployment that reports success may leave its strategy without a champion:
  its model was champion when it was loaded, another deployment unmade it, and
  setting an attribute to the value it was loaded with writes nothing;
- a database on which the API was started first ("first-run convenience") cannot
  be migrated: 0002 is written to rebuild the tables that `create_all` has made, but
  0001 comes before it and its CREATE TABLE fails. What there is instead is
  `OneWay`: such a database stays at the base, and none that has been at the head
  returns to it;
- on a database that was migrated and is served as in the runbook, statements of the
  program fail. What there is instead is `Found`: the head executes the statement of
  the live ingestion only. The trader's query for its champion names a table of
  migration 0001, and its error is caught, so that at the head it trades without a
  model; the archive loader and the worker's jobs can do their work in no schema;
- `combinatorial_purged_cv` returns an empty list for the call of its docstring,
  which announces 15 splits. `NoCombination` is why: the purge leaves only groups that
  end before the first test index, the embargo only groups that begin after the last;
- a strategy that always buys has no trade, although
  `test_backtest_always_buy_has_trades` expects one. There are two reasons. With a fee,
  nothing is ever bought (`NothingBought`): the fee is charged on top of all the cash,
  which then is not enough. And a trade is logged when its position is closed, which
  a strategy that always buys never does, and the end of the data does not either;
- the final equity is not what the log of trades says, even without any fee. `FinalEquity`
  is what it is: the result of a closed short has the wrong sign in the cash, and of the
  gain of an open position a long's is counted twice and a short's not at all.

`OneWay`, `Found`, `NoCombination`, `NothingBought` and `FinalEquity` describe how the
code misses what is expected of it. They are no requirements, no run checks them, and
a fix would make them false; the modules state them beside the property that is
violated, and section 4 proves them, so that a reader knows how far the fault goes.

Where a property is weaker than a reader of the documentation expects, the code
is:

- `OrphansOnlyByLostReply` allows a crash, because order ids are kept in memory
  only, and a lost reply, because an order whose `create_order` timed out is
  "rejected" here although it may be live, and no later reconcile looks at it;
- `Converges` is checked for orders that are filled or cancelled, because one that
  expires after a partial fill counts as open for ever (PARTIAL to EXPIRED is not
  in the graph and the exception is swallowed);
- the gate's approvals are not bounded in terms of the weight or of the day's loss,
  because a NaN weight passes both comparisons and the daily loss is that of the
  previous signal; and no command turns the gate on again (`gateOn` of `Trader`);
- the kill sequence promises nothing about positions, because it never flattens
  one, nor that trading stays disabled, because the process is restarted:
  `CompleteIsFinal` is about the process that is ending. The runbook's "To restart:
  [...] manually call `POST /live/start` after review" (`src/RUNBOOK.md:64`) is not in
  its way: that process hears no command any more, and the one that the container
  starts in its place trades without being asked;
- `AtMostTwice` has a factor of two, because the bucket refills the time its
  callers slept a second time;
- `CompleteBelowEnd` excludes the end of the range, because a full page whose
  cursor lands on it ends the fetch;
- `WholeMonths` allows a bulk load to stop in the middle of its range, because each
  month is committed by itself and nothing resumes it;
- `PublishedStored` excepts the bars whose write failed, because they are published
  all the same; `OneAfterStop` allows one bar, because the flag is not looked at
  between reading a bar and publishing it; `FinalStays` is not the converse, that
  a bar the stream missed is not left as it was forming, or as one of an hour;
- `RowsKept` excepts migrations, because 0002 drops every table with its rows;
- `ChampionsBounded` allows a champion per concurrent deployment, because each lists
  the champions before the others commit; `TrainingEnds` allows a crash, because
  nothing takes a job up again;
- `NoLeakage` is about `purged_kfold_split` only, because `PurgedKFold`, in spite of
  its docstring, does not purge, and it needs an embargo, because nothing is purged
  behind the block.

### Bounds, and why they are enough

- `OMS`: two orders and a limit of one open order reach every pair of concurrent
  calls (only one submit is in progress at a time), two open orders of which one
  is unchecked, a list that has one order and lacks the other, and an order that
  changes while the other is awaited. oms_live has three orders, so that the limit
  is met, freed by an order that ended and met again, and an order that converges is
  one of several. `Qty = 2` has a partial fill. One crash and one cancel: a second
  one finds the same states.
- `RiskGate`: equities 0, 80, 95 and 100 against limits of 3 and 10 percent reach
  no loss, a daily loss only, both, and the division by zero; a rate of two per
  window of two in five moments lets the window slide past approvals twice.
- `Trader`: two messages are every pair of commands, a start after a kill and a
  start after a pause among them; two orders are one late order and one too many;
  one crash and one SIGTERM, each at any moment.
- `TokenBucket`: capacity 3, amounts 1 and 2, nine moments: several waits in a row,
  woken late.
- `KlinePages`: six bars of which any subset exists, two to a page, every start and
  end from 0 to 10: empty, short, full and exactly full pages.
- `History`: every range of five months about the end of a year, a reversed one
  among them, any set of archives, of none to three rows each, in batches of two:
  archives of none, less than one, exactly one and more than one batch.
- `Ingestion`: two tasks overlap; two bars that close have an order and two time
  frames; one failure and one seeding request, each at any moment. Nothing bounds
  the number of connections, starts and stops.
- `Schema`: no bound; its states are finite.
- `ModelRegistry`: three models of one strategy, two deployments at a time and
  three in all: two that overlap, and one after both, which must tidy up. One
  failure of the database at any update of a job, and one crash at any moment.
- `Splits`: every call with up to 12 rows, 6 folds and spans of 4, hence fewer rows
  than folds, rests in the last fold and spans longer than a fold. splits_combi has
  the one call of the docstring, with 60 rows.
- `BacktestEngine`: four bars are an opening, a flip and a closing, or two trades
  with a pause; three prices let each of them gain or lose; fees of none or a
  quarter, slippage of none or a quarter. backtest_buy has the fees and the slippage
  of `BacktestConfig`'s defaults, and three bars: more of them change nothing, since
  each bar of that strategy is like the one before; backtest_account has no fees and
  no slippage, and the three bars of an opening and a closing at another price.

The bounds are conjuncts of the actions they bound (`MaxOrders`, `MaxCancels`,
`MaxCrashes`, `MaxMessages`, `MaxSignals`, `MaxTime`, `MaxDeploys`, `MaxFailures`,
`MaxSeeds`, `MaxBars`). The proofs need none of
them small. A configuration turns deadlock checking off where its bounds let the
system stop, or where it really stops (a call that has returned). That is
every one but those of `Schema`, which never stops. A system that waits for ever
though it should go on is what the liveness properties are for.

### Fairness

- `OMS`: weak fairness of the reconcile loop (its sleep ends) and of the exchange's
  answers; strong fairness of the steps that resume `submit` and `cancel`, since
  "loop" disables them for the length of one uninterrupted piece of reconcile and
  the event loop then runs what is ready in FIFO order.
- `Trader`: weak fairness of each coroutine. The requests to the exchange and the
  alerts have time limits in their clients; `watch_ohlcv` ends because the stream
  brings candles or breaks, and both lead back to the loop's condition. The client of
  Redis has no limit (`live/main.py:64` sets no `socket_timeout`): that a command to
  it, such as the one of the kill sequence (`risk/kill_switch.py:96`), comes back with
  an answer or an error is an assumption about Redis, and a Redis that keeps the
  connection and never answers holds up the kill for ever. Nothing is assumed of what
  it answers, nor of the exchange or the humans: they are not fair.
- `History`: weak fairness of the requests and of the rest of the call: the HTTP
  client has a timeout, downloads are counted, and statements end. The exchange's
  new bars are not fair.
- `Ingestion`: weak fairness of each task: connecting and closing have time limits,
  the sleep ends, and a connection brings messages about every two seconds or is
  broken by the missing pong. That statements and publications end assumes that the
  database and Redis answer or close, as above. Closing bars, the network, the
  callers and the seeding are not fair.
- `ModelRegistry`: weak fairness of each job: its queries and the library's `fit`
  end. Deployments are not fair: they lock only rows of models with an artifact, and
  a job whose end is still to be recorded has none.

## 4. Proofs

All theorems are for every value of the constants that satisfies the module's
ASSUME, which says no more than their types, that limits are not negative, that
retries and page sizes are positive, and that bars are at least an interval apart.

- **OMS** (`Invariance`, `OrphansAreLostReplies`, `Refinement`, `LiveBoundAlways`,
  `TerminalLedgerAlways`). The ledger property is not inductive: whether applying an
  answer keeps our record behind the exchange's depends on how old the answer is.
  `AnswersInv` says that an answer on its way lies between what we hold and what the
  exchange has; `ExchangeInv` that an order unknown to the exchange has no served
  request; `CancelInv` what a successful cancel implies. One lemma per coroutine,
  then the refinement: each step is a step of `OrderView` or a stutter. The last two
  have a hypothesis: that no call times out, nothing crashes and every submission is
  checked (`LiveBoundAlways`: then what is live at the exchange is counted here, and
  submissions come one at a time), and that nothing is cancelled from here
  (`TerminalLedgerAlways`, by `SettledInv`: an order that has ended here was answered
  so, and what the answer said was final).
- **RiskGate** (`Invariance`, `RateLimitHolds`, `HaltSticksAlways`,
  `ApprovedNearBestAlways`). `WindowInv` relates the deque to the history of
  approvals: it is a suffix of it, and what it dropped is older than the window.
- **Trader** (`Invariance`, `OneLateOrder`, `KillIsFinal`, `NoWayBackAlways`,
  `ArrivedAlways`). At most one order is
  late because the market loop is one coroutine: whoever is past the check of the
  flag is alone (`LateInv`). Completion is final because the only coroutine that
  could enable trading is the one inside the kill sequence (`KillInv`).
- **TokenBucket** (`BucketInvariance`, `TwiceTheRate`). Tokens granted and held are
  accounted to the capacity, time refilled and time slept, and no time is slept
  twice (`SleptInv`).
- **KlinePages, History** (`Invariance`, `Sorted`, `Complete`, `WholeMonthsAlways`,
  `ReturnsStoredAlways`, `RankAlways`, `NearerAlways`). Everything known behind the cursor is fetched and nothing
  at or after it (`PagesInv`). The table has the months before the one of this
  iteration, and what is executed or left of that one is its whole archive
  (`MonthsInv`), so that a commit adds all of it or nothing; `BeforeMore` carries
  this over the end of a year. That the sum returned is the number of rows stored
  needs finitely many bars and archives that share no row (`Separate`).
- **Ingestion** (`Invariance`, `PublishedInOrderAlways`, `PublishedStoredAlways`,
  `OneAfterStopAlways`, `FinalStaysAlways`, `OnlyReturnsAlways`). What a connection will deliver is
  younger than the bar in hand, and that than what has been published (`OrderInv`):
  a new connection begins with the bar that closes next. A bar about to be
  published is stored or its write failed (`StoredInv`); a task reads none after a
  stop, so that the one in hand is the only one (`LateInv`).
- **ModelRegistry** (`Invariance`, `ChampionsBoundedAlways`,
  `ChampionIsTrainedAlways`, `ToldAlways`). `by` maps the champions of a strategy to the slots
  that made them; `SlotInv` says that it is one-to-one, and, to be inductive, that
  a slot which has listed the champions has seen its own. An injection into the
  slots bounds their number.
- **Splits** (`NoLeakageAlways`, `NothingWastedAlways`, `EmbargoKeptAlways`,
  `TestedOnceAlways`, `WalksForwardAlways`, `NoCombinationAlways`). The invariant
  gives every split so far by the number of its iteration; the rest is arithmetic of
  the blocks: they begin and end in order (`BlockBounds`) and every row is in one
  (`BlocksCover`). `KeptNone` is why the combinatorial splitter yields nothing: a
  group that ends before all test rows does not begin after any of them.
- **BacktestEngine** (`NothingBoughtAlways`, `TradesDisjointAlways`, `InBalance`,
  `FinalEquityAlways`). With a fee the cost is more than the cash for every price,
  rate and capital. Every trade so far ended by the bar that is next, and an open
  position began after the last one ended (`LogInv`). Without a fee the account
  balances the log (`MoneyInv`): the capital and what the trades come to, the result
  of a short with the wrong sign, are either all cash or what the open position was
  bought for; one lemma for an opening, one for a closing. The final equity follows
  by computing with fractions. Two fractions are compared as numbers (`Same`), since
  the model reduces them to lowest terms: `Same` is an equivalence that the
  operations respect, and `ReducedSame` says that reducing changes nothing.
- **Schema** (`TablesByVersion`, `HeadMatchesOrmAlways`, `FoundAlways`,
  `OneWayAlways`, `RowsKeptAlways`). The run is exhaustive, as
  the module has no constants; the proofs say why its properties hold. Where the
  schema is decides what its tables can be (`TablesInv`): those of `create_all` at
  the base, and all of them once it ran before a migration; those of migration 0001
  or of `create_all` at 0001, and of `create_all` only after a downgrade from the
  head; exactly those of 0002 at the head, where `create_all` finds none missing.
  Hence no schema ever has a time frame among the columns of `ohlcv`, which each of
  the worker's jobs needs (`FoundAlways`, whose other parts are that a statement with
  a cast executes in no schema and where `model_artifacts` is).

Two definitions are recursive functions, Euclid's algorithm and the sum of the
trades. The induction theorems of the library cannot be used (they take a predicate
as a parameter), but `WFMin` can, which takes none: a nonempty set of natural numbers
has a least element (`LeastNat`), and the proofs take that of the set of
counterexamples. It gives that the recursions have solutions (`GcdStep`,
`BookedMore`), and what they compute (`GcdDivides`).

Liveness itself is only model-checked (`Converges`, `KillEnds`, `CallEnds`,
`TrainingEnds`, `StopEnds`, `Reconnects`): the prover treats neither fairness nor
ENABLED. For four of them the part that is neither is proved, for every value of the
constants; what is left to TLC is that some step is enabled and taken.

- `CallEnds`: `Rank` counts the phases and months a call has left, how far its cursor
  is from the end, and the attempts or rows left, as three natural numbers in
  lexicographic order. Each step of a call lowers it, and what the exchange adds leaves
  it as it is (`Nearer`); no sequence of such triples gets lower for ever (`BelowEnds`).
- `KillEnds`: from the command on, what is left of the kill switch and of the other
  loops (`WayLeft`) never grows, and each step of the listener, and of a loop that can
  see `_running` cleared, makes it less (`NoWayBack`); at 0 all loops have returned
  (`Arrived`). While `_running` is still set the market loop may go round, which is why
  the loops weigh less than a step of the kill switch.
- `StopEnds`: while it is stopped, a task only goes on towards its return (`OnlyReturns`).
- `TrainingEnds`: no job ends without a word (`Told`).

These are stated in the modules beside the property they explain. Of the properties
that violation runs refute, five have a theorem that says what holds instead:
`OneWayAlways`, `FoundAlways`, `NoCombinationAlways`, `NothingBoughtAlways` and
`FinalEquityAlways`.

## 5. What is not modelled, and why

- Labels and bet sizing (`ml/labels.py`, `ml/sizing.py`), features, metrics and data
  quality: functions of a data frame in floating point, without state. The only
  caller of the labels is a job that no schema lets end, and nothing calls the data
  quality checks.
- Supervised, deep and reinforcement learning: third-party numerical training. In
  `ModelRegistry` a training is a step that ends or raises.
- The Kraken fetcher and the fallback of the ingestion: unreachable. The job worker
  is unreachable too; only what its statements need of the schema is modelled.
- The heartbeat, the health endpoints, the trader's bar buffer and its predictions:
  they read, and what goes wrong there needs no interleaving (section 1).
- Of the one-row CRUD endpoints, `Schema` has the rows they store; reading, updating
  and archiving one row in one transaction is left out, and so are passwords and
  tokens, which are functions of their arguments.
- The alerter, the relay of messages to browsers, the configuration and the frontend:
  input and output.
- Durations, except in `RiskGate` and `TokenBucket`, where they matter; floating-point
  rounding everywhere.

What could be added: `Trader`, `OMS` and `RiskGate` over one clock (the `Trader` keeps
of an order's path only its awaits), and the triple barrier against a reference
definition.
