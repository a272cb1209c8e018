------------------------------- MODULE Schema -------------------------------
(***************************************************************************)
(* The database schema under its three authors: the Alembic migrations     *)
(* (backend/alembic/versions), create_all of the API's start-up            *)
(* (backend/app/database.py, main.py) and an operator's downgrades; and    *)
(* the statements of the program that rely on it.                          *)
(*                                                                         *)
(* A table is its columns, those of them that an INSERT has to give (NOT   *)
(* NULL and no default in the server) and its unique keys.  Column types   *)
(* and indexes that are not unique are left out, and so are the continuous *)
(* aggregates of migration 0001, which nothing in the program reads.       *)
(***************************************************************************)
EXTENDS FiniteSets

Table(required, others, keys) ==
    [cols |-> required \cup others, required |-> required, keys |-> keys]

Candle == {"open", "high", "low", "close", "volume"}

-----------------------------------------------------------------------------
\* The classes of db_models.py, as create_all creates their tables.  A default
\* that only Python knows is not one of the server.

OrmOhlcv ==
    Table({"exchange", "symbol", "ts", "source_quality"} \cup Candle, {"id"},
          {{"id"}, {"exchange", "symbol", "ts"},
           {"uq_ohlcv_exchange_symbol_ts"}})
OrmStrategies ==
    Table({"name", "paradigm", "symbol", "timeframe", "config", "status"},
          {"id", "created_at", "updated_at"}, {{"id"}, {"name"}})
OrmModels ==
    Table({"strategy_id", "feature_set_version", "metrics", "artifact_path",
           "is_champion", "model_type"}, {"id", "git_sha", "created_at"},
          {{"id"}})
OrmOrders ==
    Table({"client_order_id", "symbol", "side", "order_type", "qty",
           "filled_qty", "status", "fee", "reduce_only", "exchange"},
          {"id", "exchange_order_id", "strategy_id", "price",
           "avg_fill_price", "fee_currency", "created_at", "updated_at"},
          {{"id"}, {"client_order_id"}})
OrmPositions ==
    Table({"symbol", "exchange", "qty", "avg_entry_price", "unrealized_pnl",
           "realized_pnl"}, {"id", "created_at", "updated_at"},
          {{"id"}, {"symbol"}})
OrmBacktests ==
    Table({"strategy_id", "config", "metrics", "equity_curve", "trade_log"},
          {"id", "model_id", "created_at"}, {{"id"}})
OrmAudit ==
    Table({"event_type", "payload", "payload_hash"},
          {"id", "ts", "client_order_id", "exchange_order_id",
           "strategy_id"}, {{"id"}})
OrmRisk ==
    Table({"id", "max_daily_loss_pct", "max_drawdown_pct",
           "max_position_notional_pct", "max_open_orders",
           "max_order_rate_per_min", "symbol_whitelist", "leverage_limit"},
          {"updated_at"}, {{"id"}})
OrmHeartbeat ==
    Table({"key", "ts", "loop_latency_ms", "ws_connected",
           "strategies_active", "equity", "daily_pnl"}, {}, {{"key"}})
OrmUsers ==
    Table({"username", "hashed_password", "is_active", "is_superuser"},
          {"id", "created_at"}, {{"id"}, {"username"}})

Orm == [ohlcv |-> OrmOhlcv, strategies |-> OrmStrategies,
        model_registry |-> OrmModels, orders |-> OrmOrders,
        positions |-> OrmPositions, backtest_results |-> OrmBacktests,
        audit_log |-> OrmAudit, risk_settings |-> OrmRisk,
        trader_heartbeat |-> OrmHeartbeat, users |-> OrmUsers]

-----------------------------------------------------------------------------
\* Migration 0001.  An integer primary key counts by itself.

Users0001 ==
    Table({"username", "email", "hashed_password"},
          {"id", "is_active", "is_admin", "created_at"},
          {{"id"}, {"username"}, {"email"}})
Bars0001 ==
    Table({"ts", "symbol", "timeframe"} \cup Candle, {"source_quality"},
          {{"ts", "symbol", "timeframe"}})
Strategies0001 ==
    Table({"id", "name"},
          {"description", "config", "status", "created_at", "updated_at"},
          {{"id"}})
Artifacts0001 ==
    Table({"strategy_id", "artifact_path", "strategy_type"},
          {"id", "cv_scores", "is_champion", "created_at"}, {{"id"}})
Backtests0001 ==
    Table({"id", "strategy_id"},
          {"config", "results", "status", "created_at", "completed_at"},
          {{"id"}})
Orders0001 ==
    Table({"client_order_id", "symbol", "side", "order_type", "qty"},
          {"id", "exchange_order_id", "strategy_id", "filled_qty",
           "avg_fill_price", "price", "status", "reduce_only", "raw_data",
           "created_at", "updated_at"}, {{"id"}, {"client_order_id"}})
Positions0001 ==
    Table({"symbol"}, {"id", "strategy_id", "qty", "avg_price",
           "unrealized_pnl", "updated_at"}, {{"id"}, {"symbol"}})
Risk0001 ==
    Table({}, {"id", "max_daily_loss_pct", "max_drawdown_pct",
           "max_position_notional_pct", "max_open_orders",
           "max_order_rate_per_min", "leverage_limit", "symbol_whitelist",
           "updated_at"}, {{"id"}})
Audit0001 ==
    Table({"action"}, {"id", "user_id", "target", "detail", "created_at"},
          {{"id"}})
Heartbeats0001 ==
    Table({}, {"id", "ts", "trading_enabled", "equity", "status"}, {{"id"}})

Created0001 ==
    [users |-> Users0001, ohlcv_bars |-> Bars0001,
     strategies |-> Strategies0001, model_artifacts |-> Artifacts0001,
     backtest_results |-> Backtests0001, orders |-> Orders0001,
     positions |-> Positions0001, risk_settings |-> Risk0001,
     audit_log |-> Audit0001, trader_heartbeats |-> Heartbeats0001]

-----------------------------------------------------------------------------
\* Migration 0002: the tables of db_models.py once more, with more defaults.

Users0002 ==
    Table({"username", "hashed_password"},
          {"id", "is_active", "is_superuser", "created_at"},
          {{"id"}, {"username"}})
\* Mutant of Ohlcv0002: with the time frame of the bar.
Ohlcv0002Framed ==
    Table({"exchange", "symbol", "ts", "timeframe"} \cup Candle,
          {"id", "source_quality"},
          {{"id"}, {"exchange", "symbol", "ts", "timeframe"}})
Ohlcv0002 ==
    Table({"exchange", "symbol", "ts"} \cup Candle, {"id", "source_quality"},
          {{"id"}, {"exchange", "symbol", "ts"},
           {"uq_ohlcv_exchange_symbol_ts"}})
Strategies0002 ==
    Table({"name", "paradigm", "symbol", "timeframe"},
          {"id", "config", "status", "created_at", "updated_at"},
          {{"id"}, {"name"}})
Models0002 ==
    Table({"strategy_id", "artifact_path", "model_type"},
          {"id", "feature_set_version", "git_sha", "metrics", "is_champion",
           "created_at"}, {{"id"}})
Orders0002 ==
    Table({"client_order_id", "symbol", "side", "order_type", "qty",
           "exchange"},
          {"id", "exchange_order_id", "strategy_id", "price", "filled_qty",
           "avg_fill_price", "status", "fee", "fee_currency", "reduce_only",
           "created_at", "updated_at"}, {{"id"}, {"client_order_id"}})
Positions0002 ==
    Table({"symbol", "exchange", "qty", "avg_entry_price"},
          {"id", "unrealized_pnl", "realized_pnl", "created_at",
           "updated_at"}, {{"id"}, {"symbol"}})
Backtests0002 ==
    Table({"strategy_id"},
          {"id", "model_id", "config", "metrics", "equity_curve",
           "trade_log", "created_at"}, {{"id"}})
Audit0002 ==
    Table({"event_type", "payload_hash"},
          {"id", "ts", "client_order_id", "exchange_order_id",
           "strategy_id", "payload"}, {{"id"}})
Risk0002 ==
    Table({"symbol_whitelist"},
          {"id", "max_daily_loss_pct", "max_drawdown_pct",
           "max_position_notional_pct", "max_open_orders",
           "max_order_rate_per_min", "leverage_limit", "updated_at"},
          {{"id"}})
Heartbeat0002 ==
    Table({"key"}, {"ts", "loop_latency_ms", "ws_connected",
           "strategies_active", "equity", "daily_pnl"}, {{"key"}})

Created0002 ==
    [users |-> Users0002, ohlcv |-> Ohlcv0002, strategies |-> Strategies0002,
     model_registry |-> Models0002, orders |-> Orders0002,
     positions |-> Positions0002, backtest_results |-> Backtests0002,
     audit_log |-> Audit0002, risk_settings |-> Risk0002,
     trader_heartbeat |-> Heartbeat0002]

Dropped0002 ==
    DOMAIN Created0001 \cup {"trader_heartbeat", "model_registry", "ohlcv"}

-----------------------------------------------------------------------------
\* The statements.  One that names a column that is not there fails, and so
\* does an INSERT that omits a required one, and an ON CONFLICT whose target is
\* no unique key.

Statement(table, cols, insert, target) ==
    [table |-> table, cols |-> cols, insert |-> insert, target |-> target,
     bound |-> TRUE]

\* One that casts a parameter, as in ":scores::jsonb".  SQLAlchemy's text() does
\* not read a name with a colon behind it as the parameter of that name, so that
\* the statement fails whatever tables there are.
Cast(s) == [s EXCEPT !.bound = FALSE]

\* What the ORM emits for a class: all its columns.
OrmStatement(t) == Statement(t, Orm[t].cols, TRUE, {})

IngestBar ==
    Statement("ohlcv", {"exchange", "symbol", "ts", "source_quality"}
                       \cup Candle, TRUE, {"exchange", "symbol", "ts"})
ArchiveBars ==
    Cast(Statement("ohlcv_bars", {"symbol", "exchange", "timeframe", "ts",
                                  "source_quality"} \cup Candle,
                   TRUE, {"uq_ohlcv_bar"}))
LoadChampion ==
    Statement("model_artifacts",
              {"artifact_path", "strategy_type", "is_champion"}, FALSE, {})

\* The worker's: the query that two of its jobs begin with, what they end with,
\* and what the third does for each bar.
JobBars ==
    Statement("ohlcv", {"ts", "symbol", "timeframe"} \cup Candle, FALSE, {})
StoreModel ==
    Cast(Statement("model_registry", {"strategy_id", "artifact_path",
                   "model_type", "metrics", "is_champion"}, TRUE, {}))
StoreResult ==
    Cast(Statement("backtest_results", {"id", "status", "results"}, FALSE, {}))
StoreBars ==
    Statement("ohlcv", {"ts", "symbol", "timeframe"} \cup Candle, TRUE,
              {"ts", "symbol", "timeframe"})

TrainModel   == {JobBars, StoreModel}
RunBacktest  == {JobBars, StoreResult}
FetchHistory == {StoreBars}

RawStatements ==
    {IngestBar, ArchiveBars, LoadChampion}
      \cup TrainModel \cup RunBacktest \cup FetchHistory

Executes(s, tb) ==
    /\ s.bound
    /\ s.table \in DOMAIN tb
    /\ s.cols \subseteq tb[s.table].cols
    /\ s.insert => tb[s.table].required \subseteq s.cols
    /\ s.target # {} => s.target \in tb[s.table].keys

-----------------------------------------------------------------------------
VARIABLES
    version,    \* alembic_version: "base", "0001", "0002"
    tables,     \* the tables by name
    rows,       \* the tables that hold rows
    server,     \* the API: "down", "created" (create_all done), "up"
    seeding,    \* ADMIN_PASSWORD or ADMIN_PASSWORD_HASH was set at its start
    early,      \* history: create_all has run before any migration
    headed      \* history: the schema has been at 0002

schemaVars == <<version, tables, rows, server, seeding, early, headed>>
history == <<early, headed>>

SchemaInit ==
    /\ version = "base" /\ tables = [t \in {} |-> {}]
    /\ rows = {} /\ server = "down" /\ seeding = FALSE
    /\ early = FALSE /\ headed = FALSE

Without(tb, names) == [t \in DOMAIN tb \ names |-> tb[t]]
With(tb, new) == [t \in DOMAIN tb \cup DOMAIN new |->
                    IF t \in DOMAIN tb THEN tb[t] ELSE new[t]]

\* None of the tables that migration 0001 creates is there: CREATE TABLE of one
\* that is fails.
Fresh == DOMAIN tables \cap DOMAIN Created0001 = {}

\* alembic upgrade 0001 (it was the head once).  A migration that fails leaves
\* nothing behind: those of one call are one transaction.
Upgrade0001 ==
    /\ version = "base" /\ Fresh
    /\ version' = "0001" /\ tables' = With(tables, Created0001)
    /\ rows' = rows \cup {"risk_settings"}
    /\ UNCHANGED <<server, seeding, early, headed>>

\* alembic upgrade head, from 0001 or through it.
UpgradeHead ==
    /\ \/ version = "base" /\ Fresh
       \/ version = "0001"
    /\ LET kept == Without(tables, Dropped0002)
       IN /\ DOMAIN kept \cap DOMAIN Created0002 = {}
          /\ tables' = With(kept, Created0002)
    /\ rows' = (rows \ Dropped0002) \cup {"risk_settings"}
    /\ version' = "0002"
    /\ headed' = TRUE
    /\ UNCHANGED <<server, seeding, early>>

\* alembic downgrade -1: drop_table fails for a table that is not there.
Downgrade0002 ==
    /\ version = "0002" /\ DOMAIN Created0002 \subseteq DOMAIN tables
    /\ version' = "0001" /\ tables' = Without(tables, DOMAIN Created0002)
    /\ rows' = rows \ DOMAIN Created0002
    /\ UNCHANGED <<server, seeding, early, headed>>

Downgrade0001 ==
    /\ version = "0001" /\ DOMAIN Created0001 \subseteq DOMAIN tables
    /\ version' = "base" /\ tables' = Without(tables, DOMAIN Created0001)
    /\ rows' = rows \ DOMAIN Created0001
    /\ UNCHANGED <<server, seeding, early, headed>>

-----------------------------------------------------------------------------
\* The API.

\* Mutant of CreateAll: the ORM's tables are made anew.
CreateAllAnew ==
    /\ server = "down"
    /\ tables' = With(Without(tables, DOMAIN Orm), Orm)
    /\ rows' = rows \ DOMAIN Orm
    /\ server' = "created" /\ seeding' \in BOOLEAN
    /\ early' = (early \/ version = "base")
    /\ UNCHANGED <<version, headed>>

\* init_db at start-up, in a transaction of its own: the tables that are
\* missing.
CreateAll ==
    /\ server = "down"
    /\ tables' = With(tables, Orm)
    /\ server' = "created" /\ seeding' \in BOOLEAN
    /\ early' = (early \/ version = "base")
    /\ UNCHANGED <<version, rows, headed>>

\* The admin user is inserted or updated, when a password is set.
Starts ==
    /\ server = "created"
    /\ seeding => Executes(OrmStatement("users"), tables)
    /\ rows' = IF seeding THEN rows \cup {"users"} ELSE rows
    /\ server' = "up"
    /\ UNCHANGED <<version, tables, seeding, history>>

\* The start-up fails on the query for the admin user, or the process ends.
Stops ==
    /\ server # "down" /\ server' = "down"
    /\ UNCHANGED <<version, tables, rows, seeding, history>>

\* get_current_user: a row of users for whom the token was made, and the first
\* query of every handler.  There is no other way to make one than seeding.
Authenticated ==
    server = "up" /\ "users" \in rows /\ Executes(OrmStatement("users"), tables)

\* A request handler stores a row; when its statement fails it stores nothing.
Stores(t) ==
    /\ Authenticated /\ Executes(OrmStatement(t), tables)
    /\ rows' = rows \cup {t}
    /\ UNCHANGED <<version, tables, server, seeding, history>>

SeedBars         == Stores("ohlcv")
CreateStrategy   == Stores("strategies")
TrainRequest     == Stores("model_registry")
StoreBacktest    == Stores("backtest_results")
\* The row of the risk settings is created by whoever reads or writes it first.
RiskSettingsRow  == Stores("risk_settings")

SchemaNext ==
    \/ Upgrade0001 \/ UpgradeHead \/ Downgrade0002 \/ Downgrade0001
    \/ CreateAll \/ Starts \/ Stops
    \/ SeedBars \/ CreateStrategy \/ TrainRequest \/ StoreBacktest
    \/ RiskSettingsRow

SchemaSpec == SchemaInit /\ [][SchemaNext]_schemaVars

-----------------------------------------------------------------------------
\* Properties

\* At the head of the migrations the program finds what db_models.py declares:
\* every table with its columns and keys, and no column that an INSERT must give
\* and the ORM does not.  Whatever create_all and earlier migrations left behind
\* (0002_fix_schema.py:22).
HeadMatchesOrm ==
    version = "0002" =>
        \A t \in DOMAIN Orm :
            /\ t \in DOMAIN tables
            /\ tables[t].cols = Orm[t].cols /\ tables[t].keys = Orm[t].keys
            /\ tables[t].required \subseteq Orm[t].required

\* "Tables that init_db() (create_all) may have created [...] drop and rebuild
\* cleanly" (0002_fix_schema.py:31): a database on which the API was started first,
\* its "first-run convenience" (database.py:113), can still be migrated.  Violated:
\* before 0002 rebuilds those tables, 0001 has to create some of them.
FirstRunMigrates == early /\ version = "base" => Fresh

\* A system started as in RUNBOOK.md, migrated and then served by the API, has a
\* database that every statement of the program can use: the live ingestion's, the
\* archive loader's, the trader's query for "the new champion" (RUNBOOK.md:96) and
\* those of the jobs that "persist results" (workers/settings.py:97).  Violated.
HeadServes ==
    version = "0002" /\ server = "up" =>
        \A s \in RawStatements : Executes(s, tables)

\* Rows are lost to migrations only: not to a start of the API, nor to a
\* request.
RowsKept == [][version' = version => rows \subseteq rows']_schemaVars

\* What there is in place of FirstRunMigrates: a database on which the API was
\* started before the migrations ran is never migrated, and one that has reached
\* the head is never taken back to the base.
OneWay == /\ early => version = "base"
          /\ headed => version # "base"

\* What there is in place of HeadServes: of the statements written in SQL the head
\* executes that of the live ingestion only; the trader's query for its champion
\* finds its table between the migrations only; and no schema that migrations and
\* start-ups can make lets the archive loader store a row or a job of the worker
\* end.
Found ==
    /\ version = "0002" =>
           {s \in RawStatements : Executes(s, tables)} = {IngestBar}
    /\ Executes(LoadChampion, tables) => version = "0001"
    /\ ~Executes(ArchiveBars, tables)
    /\ \A job \in {TrainModel, RunBacktest, FetchHistory} :
           \E s \in job : ~Executes(s, tables)

\* Why: which tables there are at each version.
FromOrm(t)  == t \in DOMAIN Orm /\ tables[t] = Orm[t]
From0001(t) == t \in DOMAIN Created0001 /\ tables[t] = Created0001[t]

\* At the base, tables are those of create_all; all of them, once it has run
\* before a migration, so that no migration runs any more.
BaseInv ==
    version = "base" =>
        /\ ~headed /\ \A t \in DOMAIN tables : FromOrm(t)
        /\ early => DOMAIN Orm \subseteq DOMAIN tables

\* At 0001 they are those of the migration or of create_all; after a downgrade
\* from the head, of create_all only.
MidInv ==
    version = "0001" =>
        /\ ~early
        /\ \A t \in DOMAIN tables : FromOrm(t) \/ From0001(t)
        /\ headed => \A t \in DOMAIN tables : FromOrm(t)

HeadInv == version = "0002" => headed /\ ~early /\ tables = Created0002

TablesInv ==
    /\ version \in {"base", "0001", "0002"}
    /\ BaseInv /\ MidInv /\ HeadInv
=============================================================================
