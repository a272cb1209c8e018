SPECIFICATION ApiSpec
CONSTANTS
    \* the registry of models
    Models = {m1, m2, m3}
    NoModel = NoModel
    Nobody = Nobody
    Strategies = {"s"}
    StrategyOf <- OneStrategy
    Deploys = {d1, d2}
    TaskFirst = {TRUE, FALSE}
    MaxDeploys = 3
    MaxFailures = 1
    MaxCrashes = 1
    \* the splitters
    MaxN = 12
    MaxFolds = 6
    MaxSpan = 4
    KFoldCalls <- AllKFold
    PurgedCalls <- AllPurged
    WalkCalls <- AllWalk
    CombiCalls <- AllCombi
    \* the backtester
    Configs <- TwoConfigs
    Capital = 2
    Base = 4
    Prices = {1, 2, 3}
    MaxBars = 4
INVARIANTS ChampionsBounded ChampionIsTrained HeadMatchesOrm
INVARIANTS NoLeakage NothingWasted TestedOnce WalksForward TradesDisjoint
PROPERTIES TrainingEnds RowsKept
CHECK_DEADLOCK FALSE
