SPECIFICATION BuySpec
CONSTANTS
    Configs <- Default
    Capital = 100
    Base = 10000
    Prices = {1, 2}
    MaxBars = 3
INVARIANT HasTrades
CHECK_DEADLOCK FALSE
