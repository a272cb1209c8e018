SPECIFICATION Spec
CONSTANTS
    Models = {m1, m2}
    NoModel = NoModel
    Nobody = Nobody
    Strategies = {"s"}
    StrategyOf <- OneStrategy
    Deploys = {d1, d2}
    TaskFirst = {FALSE}
    MaxDeploys = 3
    MaxFailures = 0
    MaxCrashes = 0
PROPERTY DeployedIsChampion
CHECK_DEADLOCK FALSE
