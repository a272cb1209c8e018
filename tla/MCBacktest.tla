----------------------------- MODULE MCBacktest -----------------------------
(***************************************************************************)
(* Small instances of BacktestEngine for TLC, and the run of a test.       *)
(***************************************************************************)
EXTENDS BacktestEngine

\* Taker orders with a fee, and limit orders without one, whose equity is still
\* reckoned with the fee of taker orders.
TwoConfigs == [limit : BOOLEAN, maker : {0}, taker : {1}, slippage : {0, 1}]

\* No fees at all.
Free == [limit : {FALSE}, maker : {0}, taker : {0}, slippage : {0}]

\* The defaults of BacktestConfig, in units of 1/10000.
Default == [limit : {FALSE}, maker : {25}, taker : {40}, slippage : {2}]

\* AlwaysBuyStrategy of test_backtest_engine.py: every bar has features and the
\* signal to buy, which is acted on unless a long is held or no bar follows.
BuyNext ==
    \/ Turns(1) \/ BacktestReturns
    \/ (account.side = 1 \/ bar = bars) /\ Keeps

BuySpec == BacktestInit /\ [][BuyNext]_backtest
=============================================================================
