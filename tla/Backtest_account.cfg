SPECIFICATION BacktestSpec
CONSTANTS
    Configs <- Free
    Capital = 2
    Base = 4
    Prices = {1, 2, 3}
    MaxBars = 3
INVARIANT AccountAddsUp
CHECK_DEADLOCK FALSE
