------------------------------ MODULE RiskGate ------------------------------
(***************************************************************************)
(* The pre-trade risk gate of backend/app/risk/gate.py.  Equity is counted *)
(* in whole units, weights and limits in percent, time in whole seconds.   *)
(* check() awaits nothing, so that each call is one step.                  *)
(***************************************************************************)
EXTENDS Integers, Sequences

CONSTANTS
    Equities,           \* the equities the exchange may report
    Weights,            \* |target_weight| of the model's signals, in percent
    NaN,                \* a weight that is not a number
    MaxDailyLoss,       \* RiskLimits.max_daily_loss_pct
    MaxDrawdown,        \* RiskLimits.max_drawdown_pct
    MaxNotional,        \* RiskLimits.max_position_notional_pct
    MaxOpenOrders,      \* RiskLimits.max_open_orders
    MaxOrderRate,       \* RiskLimits.max_order_rate_per_min
    LeverageLimit,      \* RiskLimits.leverage_limit
    Window,             \* length of the rate window, 60 seconds
    MaxTime             \* bound: the clock

None == -1              \* _start_of_day_equity before the first update

ASSUME GateAssumption ==
    /\ Equities \subseteq Nat
    /\ Weights \subseteq Nat /\ NaN \notin Nat
    /\ MaxDailyLoss \in Nat /\ MaxDrawdown \in Nat /\ MaxNotional \in Nat
    /\ MaxOpenOrders \in Nat /\ MaxOrderRate \in Nat /\ LeverageLimit \in Nat
    /\ Window \in Nat /\ MaxTime \in Nat

VARIABLES
    enabled,            \* _trading_enabled
    sod,                \* _start_of_day_equity
    peak,               \* _peak_equity
    pnl,                \* _daily_pnl
    stamps,             \* _order_timestamps, oldest first
    now,                \* the clock
    last,               \* the last call of check: its arguments and verdict
    \* history
    log,                \* the times of all approvals
    best,               \* the highest equity ever given to update_equity
    tripped             \* a loss limit has halted trading, nobody re-enabled it

limits  == <<enabled, sod, peak, pnl>>
gateHistory == <<log, best, tripped>>
gateVars == <<limits, stamps, now, last, gateHistory>>

\* What a call of check() came to: "raised" is ZeroDivisionError.
Verdicts == {"approved", "halted", "symbol", "raised", "daily", "drawdown",
             "notional", "open", "rate", "leverage"}
NoCall == [eq |-> 0, w |-> 0, verdict |-> "halted"]

GateTypeOK ==
    /\ enabled \in BOOLEAN /\ tripped \in BOOLEAN
    /\ sod \in Equities \cup {None}
    /\ peak \in Equities \cup {0} /\ best \in Equities \cup {0}
    /\ pnl \in Int
    /\ stamps \in Seq(0..MaxTime) /\ log \in Seq(0..MaxTime)
    /\ now \in 0..MaxTime
    /\ last \in [eq : Equities \cup {0}, w : Weights \cup {NaN, 0},
                 verdict : Verdicts]

GateInit ==
    /\ enabled = TRUE /\ sod = None /\ peak = 0 /\ pnl = 0
    /\ stamps = <<>> /\ now = 0 /\ last = NoCall
    /\ log = <<>> /\ best = 0 /\ tripped = FALSE

-----------------------------------------------------------------------------
\* Comparisons with NaN are false, so that it exceeds no limit.
Exceeds(w, limit) == w # NaN /\ w > limit

DailyLossHit    == sod > 0 /\ 100 * pnl < -(MaxDailyLoss * sod)
DrawdownHit(eq) == peak > 0 /\ 100 * (eq - peak) < -(MaxDrawdown * peak)

\* Checks 1 to 6 in their order, and when each fails.  A start of day of 0.0
\* makes check 3 divide by zero.  The position notional that OMS passes is
\* always 0.
Checks == <<"halted", "symbol", "raised", "daily", "drawdown",
            "notional", "open">>

Fails(c, eq, w, open, listed) ==
    CASE c = "halted"   -> ~enabled
      [] c = "symbol"   -> ~listed
      [] c = "raised"   -> sod = 0
      [] c = "daily"    -> DailyLossHit
      [] c = "drawdown" -> DrawdownHit(eq)
      [] c = "notional" -> w # NaN /\ w * eq > eq * MaxNotional
      [] c = "open"     -> open >= MaxOpenOrders

\* Check number k is the first to fail.
FirstFails(k, eq, w, open, listed) ==
    /\ Fails(Checks[k], eq, w, open, listed)
    /\ \A j \in 1..(k - 1) : ~Fails(Checks[j], eq, w, open, listed)

\* Mutant of Popped: the window is one entry short (<= for <).
PoppedEarly(k) == /\ k \in 0..Len(stamps)
                  /\ \A j \in 1..k : stamps[j] <= now - Window
                  /\ k < Len(stamps) => stamps[k + 1] > now - Window

\* Popping the k oldest stamps is what the while loop of check 7 does.
Popped(k) == /\ k \in 0..Len(stamps)
             /\ \A j \in 1..k : stamps[j] < now - Window
             /\ k < Len(stamps) => stamps[k + 1] >= now - Window

Rest(k) == SubSeq(stamps, k + 1, Len(stamps))

Answer(eq, w, v) == last' = [eq |-> eq, w |-> w, verdict |-> v]

\* One of the checks 1 to 6 rejects, and a loss limit also halts trading.
Reject(eq, w, open, listed) ==
    \E k \in 1..Len(Checks) :
        LET loss == Checks[k] \in {"daily", "drawdown"}
        IN  /\ FirstFails(k, eq, w, open, listed)
            /\ Answer(eq, w, Checks[k])
            /\ enabled' = (enabled /\ ~loss)
            /\ tripped' = (tripped \/ loss)
            /\ UNCHANGED <<sod, peak, pnl, stamps, now, log, best>>

\* They pass: the rate window is pruned, and the last two checks decide.
Decide(eq, w, open, listed) ==
    /\ \A k \in 1..Len(Checks) : ~Fails(Checks[k], eq, w, open, listed)
    /\ \E k \in 0..Len(stamps) :
         /\ Popped(k)
         /\ \/ /\ Len(Rest(k)) >= MaxOrderRate
               /\ Answer(eq, w, "rate")
               /\ stamps' = Rest(k) /\ UNCHANGED log
            \/ /\ Len(Rest(k)) < MaxOrderRate /\ Exceeds(w, LeverageLimit)
               /\ Answer(eq, w, "leverage")
               /\ stamps' = Rest(k) /\ UNCHANGED log
            \/ /\ Len(Rest(k)) < MaxOrderRate /\ ~Exceeds(w, LeverageLimit)
               /\ Answer(eq, w, "approved")
               /\ stamps' = Append(Rest(k), now) /\ log' = Append(log, now)
    /\ UNCHANGED <<limits, now, best, tripped>>

Check(eq, w, open, listed) ==
    Reject(eq, w, open, listed) \/ Decide(eq, w, open, listed)

MaxOf(a, b) == IF a >= b THEN a ELSE b

\* Mutant of UpdateEquity: the peak is of the day.
UpdateEquityDayPeak(eq) ==
    /\ sod' = IF sod = None THEN eq ELSE sod
    /\ pnl' = IF sod' = 0 THEN 0 ELSE eq - sod'
    /\ peak' = IF sod = None THEN eq ELSE MaxOf(peak, eq)
    /\ best' = MaxOf(best, eq)
    /\ UNCHANGED <<enabled, stamps, now, last, log, tripped>>

\* update_equity.  (sod or equity): a start of day of 0.0 counts as none.
UpdateEquity(eq) ==
    /\ sod' = IF sod = None THEN eq ELSE sod
    /\ pnl' = IF sod' = 0 THEN 0 ELSE eq - sod'
    /\ peak' = MaxOf(peak, eq)
    /\ best' = MaxOf(best, eq)
    /\ UNCHANGED <<enabled, stamps, now, last, log, tripped>>

\* Mutant of ResetDaily: a new day starts with a clean state.
ResetDailyClean ==
    /\ sod' = None /\ pnl' = 0 /\ enabled' = TRUE
    /\ UNCHANGED <<peak, stamps, now, last, gateHistory>>

ResetDaily ==
    /\ sod' = None /\ pnl' = 0
    /\ UNCHANGED <<enabled, peak, stamps, now, last, gateHistory>>

Enable ==
    /\ enabled' = TRUE /\ tripped' = FALSE
    /\ UNCHANGED <<sod, peak, pnl, stamps, now, last, log, best>>

Tick ==
    /\ now < MaxTime /\ now' = now + 1
    /\ UNCHANGED <<limits, stamps, last, gateHistory>>

GateNext ==
    \/ \E eq \in Equities, w \in Weights \cup {NaN},
          open \in {0, MaxOpenOrders}, listed \in BOOLEAN :
             Check(eq, w, open, listed)
    \/ \E eq \in Equities : UpdateEquity(eq)
    \/ ResetDaily \/ Enable \/ Tick

GateSpec == GateInit /\ [][GateNext]_gateVars

-----------------------------------------------------------------------------
\* Properties

\* Rolling window: of any MaxOrderRate + 1 approvals in a row the first and the
\* last are more than Window apart, wherever the window is laid.
RateLimit ==
    \A i, j \in 1..Len(log) :
        j - i >= MaxOrderRate => log[j] - log[i] > Window

\* What makes RateLimit inductive: the deque holds the latest approvals, and
\* those it has dropped are older than the window.
WindowInv ==
    /\ Len(stamps) <= Len(log)
    /\ \A i \in 1..Len(stamps) : stamps[i] = log[Len(log) - Len(stamps) + i]
    /\ \A i \in 1..(Len(log) - Len(stamps)) : log[i] < now - Window
    /\ RateLimit

\* What the two halting properties rest on.
HaltInv == (tripped => ~enabled) /\ peak = best

\* The gate's inductive invariant: the types, the window against the history
\* of approvals, the halt and the peak against the history of equities.
GateInv == GateTypeOK /\ WindowInv /\ HaltInv

\* Once a loss limit has halted trading no order is approved until somebody
\* calls enable(): neither a new day nor a recovered equity lifts the halt.
HaltSticks == [][log' # log => ~tripped]_gateVars

\* No order is approved at an equity more than the drawdown limit below the
\* highest equity the gate was ever told of, however long ago.
ApprovedNearBest ==
    [][log' # log => 100 * (last'.eq - best) >= -(MaxDrawdown * best)]_gateVars
=============================================================================
