--------------------------- MODULE BacktestEngine ---------------------------
(***************************************************************************)
(* The backtester of backend/app/backtest/engine.py: one action per bar of *)
(* the loop of run(), and the account it keeps.  Prices are integers and   *)
(* amounts are exact fractions; rates are in units of 1/Base.  A bar's     *)
(* time stamp is its number.                                               *)
(***************************************************************************)
EXTENDS Fractions, Sequences

CONSTANTS
    Configs,        \* [limit, maker, taker, slippage]: a BacktestConfig
    Capital,        \* initial_capital
    Base,           \* the unit of rates is 1/Base
    Prices,         \* what a bar may open and close at
    MaxBars         \* bound: bars in the range of dates

ASSUME BacktestAssumption ==
    /\ Base \in Nat \ {0} /\ Capital \in Nat \ {0}
    /\ Prices \subseteq Nat \ {0} /\ MaxBars \in Nat
    /\ Configs \subseteq [limit : BOOLEAN, maker : 0..(Base - 1),
                          taker : 0..(Base - 1), slippage : 0..(Base - 1)]

VARIABLES
    config, bars,   \* the configuration, the number of bars
    bar,            \* the bar that is next in the loop
    account,        \* cash, position (side and qty), entry_price, entry_ts
    close,          \* that of the bar before
    equity,         \* as of the last _update_equity
    trades,
    result          \* "running", "error" or the metrics that run() returns

backtest == <<config, bars, bar, account, close, equity, trades, result>>

Zero  == Of(0)
Floor == <<1, 100>>

\* fee_rate and taker_fee
FeeRate(c)   == <<IF c.limit THEN c.maker ELSE c.taker, Base>>
TakerRate(c) == <<c.taker, Base>>

BacktestInit ==
    /\ config \in Configs /\ bars \in 0..MaxBars /\ bar = 1
    /\ account = [cash |-> Of(Capital), side |-> 0, qty |-> Zero,
                  entry |-> Zero, since |-> 0]
    /\ close = 0 /\ equity = Of(Capital) /\ trades = <<>> /\ result = "running"

\* The price that an order of a side (1 buys, -1 sells) is executed at.
Slipped(c, price, side) == <<price * (Base + c.slippage * side), Base>>

\* Of the open position at its price, or of all the cash when there is none.
Fee(c, a, price) ==
    Times(IF a.side # 0 THEN Times(a.qty, price) ELSE a.cash, FeeRate(c))

\* Mutant of Opened: the time of the first entry is kept.
OpenedSince(c, a, side, open, ts) ==
    LET price == Slipped(c, open, side)
        cost  == Plus(a.cash, Fee(c, a, price))
    IN IF Less(a.cash, cost) THEN a
       ELSE [cash |-> Reduced(Minus(a.cash, cost)), side |-> side,
             qty |-> Reduced(Over(a.cash, price)), entry |-> Reduced(price),
             since |-> IF a.since # 0 THEN a.since ELSE ts]

\* _open_position: all the cash, if it covers that and the fee.
Opened(c, a, side, open, ts) ==
    LET price == Slipped(c, open, side)
        cost  == Plus(a.cash, Fee(c, a, price))
    IN IF Less(a.cash, cost) THEN a
       ELSE [cash |-> Reduced(Minus(a.cash, cost)), side |-> side,
             qty |-> Reduced(Over(a.cash, price)), entry |-> Reduced(price),
             since |-> ts]

\* _close_position: what the sale, or the purchase, of the position comes to is
\* added to the cash.
Closed(c, a, open) ==
    LET price == Slipped(c, open, -a.side)
        proceeds == Minus(Times(a.qty, price), Fee(c, a, price))
    IN [a EXCEPT !.cash = Reduced(Plus(a.cash, proceeds)), !.side = 0,
                 !.qty = Zero, !.entry = Zero]

Trade(c, a, open, ts) ==
    LET price == Slipped(c, open, -a.side)
        gain  == Times(Minus(price, a.entry), Times(Of(a.side), a.qty))
    IN [since |-> a.since, till |-> ts, side |-> a.side,
        pnl |-> Reduced(Minus(gain, Fee(c, a, price)))]

\* _update_equity
Marked(c, a, price) ==
    LET held == Times(a.qty, Of(price))
        unrealized == Times(Minus(Of(price), a.entry),
                            Times(Of(a.side), a.qty))
        sum  == Plus(Plus(a.cash, unrealized),
                     Minus(held, Times(held, TakerRate(c))))
    IN IF Less(sum, Floor) THEN Floor ELSE Reduced(sum)

-----------------------------------------------------------------------------
\* One iteration: the equity at the close, before anything else.
Iterates ==
    /\ result = "running" /\ bar <= bars /\ bar' = bar + 1
    /\ close' \in Prices /\ equity' = Marked(config, account, close')
    /\ UNCHANGED <<config, bars, result>>

\* No features, no signal, a weight that is no number, predict() has raised, a
\* signal for the side that is held, or the last bar: there is no next one.
Keeps == Iterates /\ UNCHANGED <<account, trades>>

\* _execute at the open of the next bar: a position is closed, and one of the
\* side of the signal opened unless that is flat.
Turns(side) ==
    /\ Iterates /\ bar < bars /\ side # account.side
    /\ \E open \in Prices :
        LET flat == IF account.side = 0 THEN account
                    ELSE Closed(config, account, open)
        IN /\ trades' = IF account.side = 0 THEN trades
                        ELSE Append(trades,
                                    Trade(config, account, open, bar + 1))
           /\ account' = IF side = 0 THEN flat
                         ELSE Opened(config, flat, side, open, bar + 1)

Execute == \E side \in {-1, 0, 1} : Turns(side)

\* get_results, of which the rest is statistics; no bars, no metrics.
BacktestReturns ==
    /\ result = "running" /\ bar > bars
    /\ result' = IF bars = 0 THEN "error" ELSE "metrics"
    /\ UNCHANGED <<config, bars, bar, account, close, equity, trades>>

BacktestNext == Keeps \/ Execute \/ BacktestReturns

BacktestSpec == BacktestInit /\ [][BacktestNext]_backtest

-----------------------------------------------------------------------------
\* Properties

\* Trades follow one another: each ends after it began and before or when the
\* next begins, and so does the position that is open.
TradesDisjoint ==
    /\ \A p \in DOMAIN trades :
          /\ trades[p].since < trades[p].till
          /\ p < Len(trades) => trades[p].till <= trades[p + 1].since
    /\ trades # <<>> /\ account.side # 0 =>
          trades[Len(trades)].till <= account.since

\* A strategy that always buys has traded by the end
\* (test_backtest_always_buy_has_trades, test_backtest_engine.py:59).
\* Violated, with the fees of the default configuration.
HasTrades == result = "metrics" /\ bars = MaxBars => trades # <<>>

\* What there is in its place: with any fee on opening, nothing is ever bought or
\* sold.  The fee comes on top of all the cash, so that the cost is always more
\* than there is.
NothingBought ==
    FeeRate(config)[1] > 0 =>
        account.cash = Of(Capital) /\ account.side = 0 /\ trades = <<>>

\* What the trades of a log have come to, as it says.
Recorded(log) ==
    LET sum[n \in 0..Len(log)] ==
            IF n = 0 THEN Zero ELSE Reduced(Plus(sum[n - 1], log[n].pnl))
    IN sum[Len(log)]

\* Without any fee the final equity is the capital, the profits and losses of the
\* trades in the log and "unrealized P&L for current position" (engine.py:77).
\* Violated: a short that is closed with a loss adds it to the cash, and of an open
\* long the gain is counted twice.
AccountAddsUp ==
    result = "metrics" /\ FeeRate(config)[1] = 0 /\ TakerRate(config)[1] = 0 =>
        LET gain == Reduced(Times(Minus(Of(close), account.entry),
                                  Times(Of(account.side), account.qty)))
            sum  == Reduced(Plus(Plus(Of(Capital), Recorded(trades)), gain))
        IN Same(equity, IF Less(sum, Floor) THEN Floor ELSE sum)

\* What there is in its place.  The result of a short is taken with the opposite
\* sign, since closing it adds to the cash what the purchase costs;
Signed(t) == Times(Of(t.side), t.pnl)
Booked(log) ==
    LET sum[n \in 0..Len(log)] ==
            IF n = 0 THEN Zero ELSE Reduced(Plus(sum[n - 1], Signed(log[n])))
    IN sum[Len(log)]

\* without a fee on opening, the final equity is the capital and what the trades
\* come to that way; of the gain of a position that is still open it counts that of
\* a long twice and that of a short not at all; and it is never less than a cent.
FinalEquity ==
    result = "metrics" /\ FeeRate(config)[1] = 0 =>
        LET held == Reduced(Times(account.qty, Of(close)))
            gain == Reduced(Minus(held, Times(account.qty, account.entry)))
            flat == Reduced(Plus(Of(Capital), Booked(trades)))
            sum  == Plus(Reduced(Plus(flat, Times(Of(1 + account.side), gain))),
                         Times(held, Minus(Zero, TakerRate(config))))
        IN Same(equity, IF Less(sum, Floor) THEN Floor ELSE sum)
=============================================================================
