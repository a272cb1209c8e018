---------------------------- MODULE SchemaProofs ----------------------------
(***************************************************************************)
(* Proofs about the schema: whatever order migrations, start-ups and       *)
(* requests come in, which tables there are at each version, and hence     *)
(* what the program finds at the head, and what it never finds.            *)
(***************************************************************************)
EXTENDS Schema, TLAPS

\* The names that the migrations and the ORM give to tables.
LEMMA Names ==
    /\ DOMAIN Orm = {"ohlcv", "strategies", "model_registry", "orders",
                     "positions", "backtest_results", "audit_log",
                     "risk_settings", "trader_heartbeat", "users"}
    /\ DOMAIN Created0001 = {"users", "ohlcv_bars", "strategies",
                     "model_artifacts", "backtest_results", "orders",
                     "positions", "risk_settings", "audit_log",
                     "trader_heartbeats"}
    /\ DOMAIN Created0002 = DOMAIN Orm
    /\ DOMAIN Orm \cup DOMAIN Created0001 \subseteq Dropped0002
<1>1. DOMAIN Orm = {"ohlcv", "strategies", "model_registry", "orders",
                     "positions", "backtest_results", "audit_log",
                     "risk_settings", "trader_heartbeat", "users"}
  BY DEF Orm
<1>2. DOMAIN Created0001 = {"users", "ohlcv_bars", "strategies",
                     "model_artifacts", "backtest_results", "orders",
                     "positions", "risk_settings", "audit_log",
                     "trader_heartbeats"}
  BY DEF Created0001
<1>3. DOMAIN Created0002 = {"ohlcv", "strategies", "model_registry", "orders",
                     "positions", "backtest_results", "audit_log",
                     "risk_settings", "trader_heartbeat", "users"}
  BY DEF Created0002
<1>4. DOMAIN Orm \cup DOMAIN Created0001 \subseteq Dropped0002
  BY <1>1, <1>2 DEF Dropped0002
<1> QED BY <1>1, <1>2, <1>3, <1>4

-----------------------------------------------------------------------------
\* The tables at each version.

LEMMA TablesInitially == SchemaInit => TablesInv
BY DEF SchemaInit, TablesInv, BaseInv, MidInv, HeadInv

\* Two fresh migrations start from tables that are dropped or not there.
LEMMA HeadTables ==
    ASSUME \A t \in DOMAIN tables : FromOrm(t) \/ From0001(t)
    PROVE  With(Without(tables, Dropped0002), Created0002) = Created0002
<1>1. DOMAIN tables \subseteq Dropped0002
  BY Names DEF FromOrm, From0001
<1>2. DOMAIN Without(tables, Dropped0002) = {}
  BY <1>1 DEF Without
<1>3. Created0002 = [t \in DOMAIN Created0002 |-> Created0002[t]]
  BY DEF Created0002
<1> QED BY <1>2, <1>3 DEF With

\* At the head create_all finds every table.
LEMMA NothingMissing == With(Created0002, Orm) = Created0002
<1>1. Created0002 = [t \in DOMAIN Created0002 |-> Created0002[t]]
  BY DEF Created0002
<1> QED BY <1>1, Names DEF With

\* Requests and start-ups but for create_all leave the schema alone.
SameSchema == UNCHANGED <<version, tables, early, headed>>

LEMMA RequestsKeepSchema ==
    ASSUME \/ Starts \/ Stops \/ SeedBars \/ CreateStrategy \/ TrainRequest
           \/ StoreBacktest \/ RiskSettingsRow \/ UNCHANGED schemaVars
    PROVE  SameSchema
BY DEF Starts, Stops, SeedBars, CreateStrategy, TrainRequest, StoreBacktest,
       RiskSettingsRow, Stores, schemaVars, history, SameSchema

LEMMA TablesNext == TablesInv /\ [SchemaNext]_schemaVars => TablesInv'
<1> SUFFICES ASSUME TablesInv, [SchemaNext]_schemaVars PROVE TablesInv'
  OBVIOUS
<1> USE DEF TablesInv
<1>1. CASE Upgrade0001
  <2>1. /\ version = "base" /\ version' = "0001" /\ headed' = headed
        /\ tables' = With(tables, Created0001) /\ early' = early
        /\ DOMAIN tables \cap DOMAIN Created0001 = {}
    BY <1>1 DEF Upgrade0001, Fresh
  <2>2. ~headed /\ (\A t \in DOMAIN tables : FromOrm(t)) /\ ~early
    BY <2>1, Names DEF BaseInv
  <2>3. \A t \in DOMAIN tables' : FromOrm(t)' \/ From0001(t)'
    <3>1. DOMAIN tables' = DOMAIN tables \cup DOMAIN Created0001
      BY <2>1 DEF With
    <3>2. \A t \in DOMAIN tables : tables'[t] = tables[t]
      BY <2>1 DEF With
    <3>3. \A t \in DOMAIN Created0001 : tables'[t] = Created0001[t]
      BY <2>1 DEF With
    <3> QED BY <2>2, <3>1, <3>2, <3>3 DEF FromOrm, From0001
  <2> QED BY <2>1, <2>2, <2>3 DEF BaseInv, MidInv, HeadInv
<1>2. CASE UpgradeHead
  <2>1. /\ version' = "0002" /\ headed' /\ early' = early
        /\ tables' = With(Without(tables, Dropped0002), Created0002)
        /\ \/ version = "base" /\ DOMAIN tables \cap DOMAIN Created0001 = {}
           \/ version = "0001"
    BY <1>2 DEF UpgradeHead, Fresh
  <2>2. ~early /\ \A t \in DOMAIN tables : FromOrm(t) \/ From0001(t)
    BY <2>1, Names DEF BaseInv, MidInv
  <2> QED BY <2>1, <2>2, HeadTables DEF BaseInv, MidInv, HeadInv
<1>3. CASE Downgrade0002
  <2>1. /\ version = "0002" /\ version' = "0001"
        /\ tables' = Without(tables, DOMAIN Created0002)
        /\ UNCHANGED <<early, headed>>
    BY <1>3 DEF Downgrade0002
  <2>2. headed /\ ~early /\ tables = Created0002
    BY <2>1 DEF HeadInv
  <2>3. DOMAIN tables' = {}
    BY <2>1, <2>2 DEF Without
  <2> QED BY <2>1, <2>2, <2>3 DEF BaseInv, MidInv, HeadInv
<1>4. CASE Downgrade0001
  <2>1. /\ version = "0001" /\ version' = "base"
        /\ tables' = Without(tables, DOMAIN Created0001)
        /\ DOMAIN Created0001 \subseteq DOMAIN tables
        /\ UNCHANGED <<early, headed>>
    BY <1>4 DEF Downgrade0001
  <2>2. ~early /\ (\A t \in DOMAIN tables : FromOrm(t) \/ From0001(t))
    BY <2>1 DEF MidInv
  <2>3. ~headed
    BY <2>1, Names DEF MidInv, FromOrm
  <2>4. \A t \in DOMAIN tables' : FromOrm(t)'
    <3>1. DOMAIN tables' = DOMAIN tables \ DOMAIN Created0001
      BY <2>1 DEF Without
    <3>2. \A t \in DOMAIN tables' : tables'[t] = tables[t]
      BY <2>1 DEF Without
    <3> QED BY <2>2, <3>1, <3>2 DEF FromOrm, From0001
  <2> QED BY <2>1, <2>2, <2>3, <2>4 DEF BaseInv, MidInv, HeadInv
<1>5. CASE CreateAll
  <2>1. /\ tables' = With(tables, Orm) /\ UNCHANGED <<version, headed>>
        /\ early' = (early \/ version = "base")
    BY <1>5 DEF CreateAll
  <2>2. DOMAIN tables' = DOMAIN tables \cup DOMAIN Orm
    BY <2>1 DEF With
  <2>3. /\ \A t \in DOMAIN tables : tables'[t] = tables[t]
        /\ \A t \in DOMAIN Orm \ DOMAIN tables : tables'[t] = Orm[t]
    BY <2>1 DEF With
  <2>4. CASE version = "base"
    BY <2>1, <2>2, <2>3, <2>4 DEF BaseInv, MidInv, HeadInv, FromOrm
  <2>5. CASE version = "0001"
    <3>1. \A t \in DOMAIN tables' : FromOrm(t)' \/ From0001(t)'
      BY <2>2, <2>3, <2>5 DEF MidInv, FromOrm, From0001
    <3>2. headed => \A t \in DOMAIN tables' : FromOrm(t)'
      BY <2>2, <2>3, <2>5 DEF MidInv, FromOrm
    <3> QED BY <2>1, <2>5, <3>1, <3>2 DEF BaseInv, MidInv, HeadInv
  <2>6. CASE version = "0002"
    BY <2>1, <2>6, NothingMissing DEF BaseInv, MidInv, HeadInv
  <2> QED BY <2>4, <2>5, <2>6
<1>6. CASE SameSchema
  BY <1>6 DEF SameSchema, BaseInv, MidInv, HeadInv, FromOrm, From0001
<1> QED BY <1>1, <1>2, <1>3, <1>4, <1>5, <1>6, RequestsKeepSchema DEF SchemaNext

\* The tables at each version are as TablesInv says, in every order of
\* migrations, downgrades, start-ups and requests.
THEOREM TablesByVersion == SchemaSpec => []TablesInv
<1> QED BY TablesInitially, TablesNext, PTL DEF SchemaSpec

-----------------------------------------------------------------------------
\* What follows from the tables.

\* What there is in place of FirstRunMigrates: a database on which the API was
\* started before the migrations is never migrated, and one that has been at the
\* head never taken back to the base.
THEOREM OneWayAlways == SchemaSpec => []OneWay
<1>1. TablesInv => OneWay
  BY DEF TablesInv, BaseInv, MidInv, HeadInv, OneWay
<1> QED BY <1>1, TablesByVersion, PTL

\* What migration 0002 makes of one class of db_models.py.
Fits(new, orm) ==
    /\ new.cols = orm.cols /\ new.keys = orm.keys
    /\ new.required \subseteq orm.required

LEMMA MigratedFits ==
    /\ Fits(Users0002, OrmUsers)           /\ Fits(Ohlcv0002, OrmOhlcv)
    /\ Fits(Strategies0002, OrmStrategies) /\ Fits(Models0002, OrmModels)
    /\ Fits(Orders0002, OrmOrders)         /\ Fits(Positions0002, OrmPositions)
    /\ Fits(Backtests0002, OrmBacktests)   /\ Fits(Audit0002, OrmAudit)
    /\ Fits(Risk0002, OrmRisk)             /\ Fits(Heartbeat0002, OrmHeartbeat)
<1> USE DEF Fits, Table, Candle
<1>1. Fits(Users0002, OrmUsers)
  BY DEF Users0002, OrmUsers
<1>2. Fits(Ohlcv0002, OrmOhlcv)
  BY DEF Ohlcv0002, OrmOhlcv
<1>3. Fits(Strategies0002, OrmStrategies)
  BY DEF Strategies0002, OrmStrategies
<1>4. Fits(Models0002, OrmModels)
  BY DEF Models0002, OrmModels
<1>5. Fits(Orders0002, OrmOrders)
  BY DEF Orders0002, OrmOrders
<1>6. Fits(Positions0002, OrmPositions)
  BY DEF Positions0002, OrmPositions
<1>7. Fits(Backtests0002, OrmBacktests)
  BY DEF Backtests0002, OrmBacktests
<1>8. Fits(Audit0002, OrmAudit)
  BY DEF Audit0002, OrmAudit
<1>9. Fits(Risk0002, OrmRisk)
  BY DEF Risk0002, OrmRisk
<1>10. Fits(Heartbeat0002, OrmHeartbeat)
  BY DEF Heartbeat0002, OrmHeartbeat
<1> QED BY <1>1, <1>2, <1>3, <1>4, <1>5, <1>6, <1>7, <1>8, <1>9, <1>10

LEMMA HeadFits == \A t \in DOMAIN Orm : Fits(Created0002[t], Orm[t])
<1> SUFFICES ASSUME NEW t \in DOMAIN Orm PROVE Fits(Created0002[t], Orm[t])
  OBVIOUS
<1>1. t \in {"ohlcv", "strategies", "model_registry", "orders", "positions",
             "backtest_results", "audit_log", "risk_settings",
             "trader_heartbeat", "users"}
  BY Names
<1> QED BY <1>1, MigratedFits DEF Orm, Created0002

\* At the head the program finds what db_models.py declares.
THEOREM HeadMatchesOrmAlways == SchemaSpec => []HeadMatchesOrm
<1>1. TablesInv => HeadMatchesOrm
  BY HeadFits, Names DEF TablesInv, HeadInv, HeadMatchesOrm, Fits
<1> QED BY <1>1, TablesByVersion, PTL

-----------------------------------------------------------------------------
\* The statements.

\* No schema has a time frame among the columns of "ohlcv".
LEMMA NoFrame ==
    ASSUME TablesInv, "ohlcv" \in DOMAIN tables
    PROVE  "timeframe" \notin tables["ohlcv"].cols
<1>1. "ohlcv" \notin DOMAIN Created0001
  BY Names
<1>2. tables["ohlcv"] = OrmOhlcv \/ tables["ohlcv"] = Ohlcv0002
  BY <1>1 DEF TablesInv, BaseInv, MidInv, HeadInv, FromOrm, From0001, Orm,
              Created0002
<1>3. "timeframe" \notin OrmOhlcv.cols
  BY DEF OrmOhlcv, Table, Candle
<1>4. "timeframe" \notin Ohlcv0002.cols
  BY DEF Ohlcv0002, Table, Candle
<1> QED BY <1>2, <1>3, <1>4

\* Each of the worker's jobs has a statement that needs it.
LEMMA JobsFail ==
    ASSUME TablesInv
    PROVE  ~Executes(JobBars, tables) /\ ~Executes(StoreBars, tables)
BY NoFrame DEF Executes, JobBars, StoreBars, Statement

\* The query for the champion needs a table of migration 0001.
LEMMA ChampionBetween ==
    ASSUME TablesInv, Executes(LoadChampion, tables)
    PROVE  version = "0001"
<1>1. "model_artifacts" \in DOMAIN tables
  BY DEF Executes, LoadChampion, Statement
<1>2. "model_artifacts" \notin DOMAIN Orm /\ "model_artifacts" \notin DOMAIN Created0002
  BY Names
<1> QED BY <1>1, <1>2 DEF TablesInv, BaseInv, HeadInv, FromOrm

\* The statements against the tables of the head, one by one.
LEMMA HeadIngest == Executes(IngestBar, Created0002)
<1>1. "ohlcv" \in DOMAIN Created0002 /\ Created0002["ohlcv"] = Ohlcv0002
  BY DEF Created0002
<1>2. IngestBar.cols \subseteq Ohlcv0002.cols
  BY DEF IngestBar, Statement, Ohlcv0002, Table, Candle
<1>3. Ohlcv0002.required \subseteq IngestBar.cols
  BY DEF IngestBar, Statement, Ohlcv0002, Table, Candle
<1>4. IngestBar.target \in Ohlcv0002.keys
  BY DEF IngestBar, Statement, Ohlcv0002, Table
<1>5. IngestBar.table = "ohlcv" /\ IngestBar.bound
  BY DEF IngestBar, Statement
<1> QED BY <1>1, <1>2, <1>3, <1>4, <1>5 DEF Executes

\* The query for the champion needs a table that the head does not have.
LEMMA HeadChampion == ~Executes(LoadChampion, Created0002)
BY Names DEF Executes, LoadChampion, Statement

\* A statement that casts a parameter fails on every schema.
LEMMA CastsFail ==
    ASSUME NEW tb, NEW s \in {ArchiveBars, StoreModel, StoreResult}
    PROVE  ~Executes(s, tb)
BY DEF Executes, ArchiveBars, StoreModel, StoreResult, Cast, Statement

\* What there is in place of HeadServes: of the statements written in SQL the head
\* executes that of the live ingestion only; the trader's query for its champion
\* finds its table between the migrations only; and no schema that migrations and
\* start-ups can make lets the archive loader store a row or a job of the worker
\* end.
THEOREM FoundAlways == SchemaSpec => []Found
<1>1. ASSUME TablesInv PROVE Found
  <2>1. ASSUME version = "0002"
        PROVE  {s \in RawStatements : Executes(s, tables)} = {IngestBar}
    <3>1. tables = Created0002
      BY <1>1, <2>1 DEF TablesInv, HeadInv
    <3>2. RawStatements = {IngestBar, ArchiveBars, LoadChampion, JobBars,
                           StoreModel, StoreResult, StoreBars}
      BY DEF RawStatements, TrainModel, RunBacktest, FetchHistory
    <3>3. ~Executes(JobBars, tables) /\ ~Executes(StoreBars, tables)
      BY <1>1, JobsFail
    <3>4. \A s \in {ArchiveBars, StoreModel, StoreResult} : ~Executes(s, tables)
      BY CastsFail
    <3> HIDE DEF Executes
    <3> QED BY <3>1, <3>2, <3>3, <3>4, HeadIngest, HeadChampion
  <2>2. Executes(LoadChampion, tables) => version = "0001"
    BY <1>1, ChampionBetween
  <2>3. ~Executes(ArchiveBars, tables)
    BY CastsFail
  <2>4. \A job \in {TrainModel, RunBacktest, FetchHistory} :
            \E s \in job : ~Executes(s, tables)
    BY <1>1, JobsFail DEF TrainModel, RunBacktest, FetchHistory
  <2> QED BY <2>1, <2>2, <2>3, <2>4 DEF Found
<1> QED BY <1>1, TablesByVersion, PTL

-----------------------------------------------------------------------------
\* Rows

\* Rows are lost to migrations only.
THEOREM RowsKeptAlways == SchemaSpec => RowsKept
<1>1. ASSUME [SchemaNext]_schemaVars, version' = version PROVE rows \subseteq rows'
  <2>1. ~(Upgrade0001 \/ UpgradeHead \/ Downgrade0002 \/ Downgrade0001)
    BY <1>1 DEF Upgrade0001, UpgradeHead, Downgrade0002, Downgrade0001
  <2>2. CASE CreateAll \/ Starts \/ Stops
    BY <2>2 DEF CreateAll, Starts, Stops
  <2>3. CASE \/ SeedBars \/ CreateStrategy \/ TrainRequest \/ StoreBacktest
             \/ RiskSettingsRow
    BY <2>3 DEF SeedBars, CreateStrategy, TrainRequest, StoreBacktest,
                RiskSettingsRow, Stores
  <2>4. CASE UNCHANGED schemaVars
    BY <2>4 DEF schemaVars
  <2> QED BY <1>1, <2>1, <2>2, <2>3, <2>4 DEF SchemaNext
<1>2. [SchemaNext]_schemaVars => [version' = version => rows \subseteq rows']_schemaVars
  BY <1>1
<1> QED BY <1>2, PTL DEF SchemaSpec, RowsKept
=============================================================================
