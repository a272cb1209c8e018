------------------------------- MODULE Trader -------------------------------
(***************************************************************************)
(* The live trading process: the four loops of LiveTrader                  *)
(* (backend/app/live/main.py) in one asyncio event loop, the kill switch   *)
(* (backend/app/risk/kill_switch.py) that its command listener runs, the   *)
(* API handlers that publish commands (backend/app/api/live.py), the       *)
(* container that restarts the process, and the exchange it trades on.     *)
(*                                                                         *)
(* Each action is what one coroutine does between two awaits.  Of the path *)
(* of an order (OMS and RiskGate model it) only the awaits and the gate's  *)
(* halt are kept here; of the exchange, whether a position is held and how *)
(* many orders are on their way to it or live.                             *)
(***************************************************************************)
EXTENDS Integers, Sequences

CONSTANTS
    Messages,           \* what may be published on trader:cmd, [key, value]
    Models,             \* subset of BOOLEAN: may a champion model be loaded?
    MaxMessages,        \* bound: messages published
    MaxOrders,          \* bound: orders sent to the exchange
    MaxCrashes,         \* bound: crashes of the process
    MaxSignals          \* bound: SIGTERMs sent to the process

\* What the API handlers publish, and what an operator who knows the listener
\* could; "list" stands for JSON that is not an object.
ApiMessages == [key : {"cmd"},
                value : {"start_strategy", "stop_strategy", "kill_switch"}]
RawMessages == [key : {"action"}, value : {"start", "stop", "pause", "kill"}]
BadMessage  == [key |-> "list", value |-> ""]

ASSUME TraderAssumption ==
    /\ Messages \subseteq ApiMessages \cup RawMessages \cup {BadMessage}
    /\ Models \subseteq BOOLEAN /\ Models # {}
    /\ MaxMessages \in Nat /\ MaxOrders \in Nat
    /\ MaxCrashes \in Nat /\ MaxSignals \in Nat

VARIABLES
    up,                 \* the process runs
    running, trading,   \* _running, _state["trading_enabled"]
    model,              \* _model is not None
    gateOn,             \* the risk gate's _trading_enabled
    done,               \* the loops under gather() that have returned
    listener,           \* place of _cmd_listener, and of the kill switch in it
    inbox,              \* messages its subscription holds
    bar,                \* place of _market_data_loop
    \* the exchange
    wire, book, pos,    \* orders on their way, orders live, a position is held
    \* history
    late,               \* orders sent since trading resp. running became FALSE
    told,               \* this process has announced KILL COMPLETE
    \* bounds
    sent, msgs, crashes, signals

flags    == <<up, running, trading, model, gateOn>>
exchange == <<wire, book, pos>>
history  == <<late, told>>
bounds   == <<sent, msgs, crashes, signals>>
vars == <<flags, done, listener, inbox, bar, exchange, history, bounds>>

Loops == {"heartbeat", "cmd", "market", "reconcile"}
KillSteps == <<"persist", "alert", "cancel", "positions", "persisted",
               "complete">>
ListenerPC == {"subscribe", "listen", "stopping", "done"}
                \cup {KillSteps[i] : i \in DOMAIN KillSteps}
NoLate == [trading |-> 0, running |-> 0]

TypeOK ==
    /\ up \in BOOLEAN /\ running \in BOOLEAN /\ trading \in BOOLEAN
    /\ model \in BOOLEAN /\ gateOn \in BOOLEAN
    /\ done \in SUBSET Loops
    /\ listener \in ListenerPC
    /\ inbox \in Seq(Messages)
    /\ bar \in {"watch", "equity", "create", "done"}
    /\ wire \in Nat /\ book \in Nat /\ pos \in BOOLEAN
    /\ late \in [trading : Nat, running : Nat]
    /\ told \in BOOLEAN
    /\ sent \in 0..MaxOrders /\ msgs \in 0..MaxMessages
    /\ crashes \in 0..MaxCrashes /\ signals \in 0..MaxSignals

\* A process has just reached gather() in start().
Init ==
    /\ up = TRUE /\ running = TRUE /\ trading = TRUE
    /\ model \in Models /\ gateOn = TRUE
    /\ done = {} /\ listener = "subscribe" /\ inbox = <<>> /\ bar = "watch"
    /\ late = NoLate /\ told = FALSE
    /\ wire = 0 /\ book = 0 /\ pos = FALSE
    /\ sent = 0 /\ msgs = 0 /\ crashes = 0 /\ signals = 0

-----------------------------------------------------------------------------
\* Commands

\* cmd.get("action", "")
Action(m) == IF m.key = "action" THEN m.value ELSE ""

\* POST /live/start, /stop, /kill, or an operator.  Redis delivers to those
\* who have subscribed; nobody reads after the listener has returned.
Publish(m) ==
    /\ msgs < MaxMessages /\ msgs' = msgs + 1
    /\ inbox' = IF up /\ listener # "subscribe" THEN Append(inbox, m) ELSE inbox
    /\ UNCHANGED <<flags, done, listener, bar, exchange, history,
                   sent, crashes, signals>>

Subscribe ==
    /\ up /\ listener = "subscribe" /\ listener' = "listen"
    /\ UNCHANGED <<flags, done, inbox, bar, exchange, history, bounds>>

\* The listener takes the next message.
Take == up /\ listener = "listen" /\ inbox # <<>> /\ inbox' = Tail(inbox)

TakeStop ==
    /\ Take /\ Action(Head(inbox)) = "stop"
    /\ running' = FALSE /\ listener' = "stopping"
    /\ UNCHANGED <<up, trading, model, gateOn, done, bar, exchange, history,
                   bounds>>

TakeKill ==
    /\ Take /\ Action(Head(inbox)) = "kill"
    /\ trading' = FALSE /\ listener' = "persist"
    /\ UNCHANGED <<up, running, model, gateOn, done, bar, exchange, late, told,
                   bounds>>

TakeStart ==
    /\ Take /\ Action(Head(inbox)) = "start"
    /\ trading' = TRUE /\ late' = [late EXCEPT !.trading = 0]
    /\ UNCHANGED <<up, running, model, gateOn, done, listener, bar, exchange,
                   told, bounds>>

TakePause ==
    /\ Take /\ Action(Head(inbox)) = "pause"
    /\ trading' = FALSE
    /\ UNCHANGED <<up, running, model, gateOn, done, listener, bar, exchange,
                   history, bounds>>

\* Any other action is ignored, what the API publishes among them.
TakeOther ==
    /\ Take /\ Head(inbox) # BadMessage /\ Action(Head(inbox)) = ""
    /\ UNCHANGED <<flags, done, listener, bar, exchange, history, bounds>>

\* cmd.get raises outside the try: gather(), start() and main() end with it.
TakeBad ==
    /\ Take /\ Head(inbox) = BadMessage
    /\ up' = FALSE
    /\ UNCHANGED <<running, trading, model, gateOn, done, listener, bar,
                   exchange, history, bounds>>

\* stop() has closed the exchange and sent its alert.
StopReturns ==
    /\ up /\ listener = "stopping"
    /\ listener' = "done" /\ done' = done \cup {"cmd"}
    /\ UNCHANGED <<flags, inbox, bar, exchange, history, bounds>>

-----------------------------------------------------------------------------
\* The kill switch, in the listener's coroutine

\* The await of the i-th step has ended.  Neither Redis nor the alerter can
\* raise here; whether they succeeded changes nothing.
KillStepDone(i) ==
    /\ up /\ listener = KillSteps[i] /\ listener' = KillSteps[i + 1]
    /\ UNCHANGED <<flags, done, inbox, bar, wire, pos, history, bounds>>

KillPersisted == KillStepDone(1) /\ UNCHANGED book
KillAlerted   == KillStepDone(2) /\ UNCHANGED book

\* cancel_all_orders has cancelled what is live, or failed or timed out with
\* or without effect.  The positions come next: asyncio.coroutine is no longer
\* in Python 3.11, the AttributeError is caught, and nothing is flattened.
KillCancelled == KillStepDone(3) /\ book' \in {0, book}

KillNoPositions == KillStepDone(4) /\ UNCHANGED book
KillRepersisted == KillStepDone(5) /\ UNCHANGED book

\* Mutant of KillComplete: the listener goes on listening.
KillCompleteListens ==
    /\ up /\ listener = "complete" /\ listener' = "listen"
    /\ told' = TRUE /\ running' = FALSE
    /\ UNCHANGED <<up, trading, model, gateOn, done, inbox, bar, exchange,
                   late, bounds>>

\* Mutant of KillComplete: the process is left running.
KillCompleteRuns ==
    /\ up /\ listener = "complete" /\ listener' = "done"
    /\ done' = done \cup {"cmd"} /\ told' = TRUE
    /\ UNCHANGED <<flags, inbox, bar, exchange, late, bounds>>

\* "KILL COMPLETE" has been sent, trigger() returns, and the listener with it.
KillComplete ==
    /\ up /\ listener = "complete" /\ listener' = "done"
    /\ done' = done \cup {"cmd"} /\ told' = TRUE /\ running' = FALSE
    /\ UNCHANGED <<up, trading, model, gateOn, inbox, bar, exchange, late,
                   bounds>>

KillStep == \/ KillPersisted \/ KillAlerted \/ KillCancelled
            \/ KillNoPositions \/ KillRepersisted \/ KillComplete

-----------------------------------------------------------------------------
\* The market data loop and the path of an order

\* The top of the loop: while self._running.
LoopTop == IF running THEN /\ bar' = "watch" /\ UNCHANGED done
                      ELSE /\ bar' = "done" /\ done' = done \cup {"market"}

\* Mutant of BarSignal: the flag is not read.
BarSignalAlways ==
    /\ up /\ bar = "watch" /\ model
    /\ bar' = "equity"
    /\ UNCHANGED <<flags, done, listener, inbox, exchange, history, bounds>>

\* Candles have come in: trading, so that a signal is put to the OMS, which
\* asks for the equity.
BarSignal ==
    /\ up /\ bar = "watch" /\ trading /\ model
    /\ bar' = "equity"
    /\ UNCHANGED <<flags, done, listener, inbox, exchange, history, bounds>>

\* No trading, no model, no signal, or watch_ohlcv has raised.
BarSkipped ==
    /\ up /\ bar = "watch" /\ LoopTop
    /\ UNCHANGED <<flags, listener, inbox, exchange, history, bounds>>

\* The equity is there.  The gate approves and the order is sent: neither
\* looks at trading_enabled again.
Send ==
    /\ up /\ bar = "equity" /\ gateOn /\ sent < MaxOrders
    /\ bar' = "create" /\ wire' = wire + 1 /\ sent' = sent + 1
    /\ late' = [trading |-> IF trading THEN 0 ELSE late.trading + 1,
                running |-> IF running THEN 0 ELSE late.running + 1]
    /\ UNCHANGED <<flags, done, listener, inbox, book, pos, told,
                   msgs, crashes, signals>>

\* The gate rejects, is halted, or halts because a loss limit is exceeded.
Refuse ==
    /\ up /\ bar = "equity" /\ gateOn' \in {gateOn, FALSE} /\ LoopTop
    /\ UNCHANGED <<up, running, trading, model, listener, inbox, exchange,
                   history, bounds>>

\* create_order has returned, raised or timed out.
SendReturns ==
    /\ up /\ bar = "create" /\ LoopTop
    /\ UNCHANGED <<flags, listener, inbox, exchange, history, bounds>>

MarketStep == BarSignal \/ BarSkipped \/ Send \/ Refuse \/ SendReturns

-----------------------------------------------------------------------------
\* The process

\* The heartbeat and the reconcile loop find _running false.
LoopEnds(l) ==
    /\ up /\ ~running /\ l \in Loops \ (done \cup {"cmd", "market"})
    /\ done' = done \cup {l}
    /\ UNCHANGED <<flags, listener, inbox, bar, exchange, history, bounds>>

\* gather() returns when all four have.
Exit ==
    /\ up /\ done = Loops /\ up' = FALSE
    /\ UNCHANGED <<running, trading, model, gateOn, done, listener, inbox, bar,
                   exchange, history, bounds>>

Crash ==
    /\ up /\ crashes < MaxCrashes
    /\ up' = FALSE /\ crashes' = crashes + 1
    /\ UNCHANGED <<running, trading, model, gateOn, done, listener, inbox, bar,
                   exchange, history, sent, msgs, signals>>

\* A human stops or restarts the container: SIGTERM runs stop() in a task of
\* its own.  The listener goes on listening, so that only the signal that
\* follows after ten seconds ends the process (SigKill).
SigTerm ==
    /\ up /\ signals < MaxSignals /\ signals' = signals + 1
    /\ running' = FALSE
    /\ UNCHANGED <<up, trading, model, gateOn, done, listener, inbox, bar,
                   exchange, late, told, sent, msgs, crashes>>

SigKill ==
    /\ up /\ signals > 0 /\ ~running /\ up' = FALSE
    /\ UNCHANGED <<running, trading, model, gateOn, done, listener, inbox, bar,
                   exchange, history, bounds>>

\* restart: always.  Nothing that was persisted is read.
Restart ==
    /\ ~up /\ up' = TRUE /\ running' = TRUE /\ trading' = TRUE
    /\ model' \in Models /\ gateOn' = TRUE
    /\ done' = {} /\ listener' = "subscribe" /\ inbox' = <<>> /\ bar' = "watch"
    /\ late' = NoLate /\ told' = FALSE
    /\ UNCHANGED <<exchange, bounds>>

-----------------------------------------------------------------------------
\* The exchange

ExAccepts ==
    /\ wire > 0 /\ wire' = wire - 1 /\ book' = book + 1
    /\ UNCHANGED <<flags, done, listener, inbox, bar, pos, history, bounds>>
ExRefuses ==
    /\ wire > 0 /\ wire' = wire - 1
    /\ UNCHANGED <<flags, done, listener, inbox, bar, book, pos, history, bounds>>
ExFills ==
    /\ book > 0 /\ book' = book - 1 /\ pos' \in BOOLEAN
    /\ UNCHANGED <<flags, done, listener, inbox, bar, wire, history, bounds>>

-----------------------------------------------------------------------------
Next ==
    \/ \E m \in Messages : Publish(m)
    \/ Subscribe \/ TakeStop \/ TakeKill \/ TakeStart \/ TakePause
    \/ TakeOther \/ TakeBad \/ StopReturns
    \/ KillStep \/ MarketStep
    \/ \E l \in Loops : LoopEnds(l)
    \/ Exit \/ Crash \/ SigTerm \/ SigKill \/ Restart
    \/ ExAccepts \/ ExRefuses \/ ExFills

\* The event loop resumes every coroutine whose await has ended.  The awaits of
\* the order path and of the kill switch on the exchange end by their timeouts;
\* that of watch_ohlcv ends because the stream brings candles or breaks.  Those
\* on Redis, in the listener, the kill switch and the heartbeat, have no time
\* limit (from_url is given no socket_timeout): Redis is assumed to answer or to
\* break the connection.
Fairness ==
    /\ WF_vars(Subscribe)
    /\ WF_vars(TakeStop \/ TakeKill \/ TakeStart \/ TakePause \/ TakeOther
               \/ TakeBad)
    /\ WF_vars(StopReturns) /\ WF_vars(KillStep) /\ WF_vars(MarketStep)
    /\ \A l \in Loops : WF_vars(LoopEnds(l))
    /\ WF_vars(Exit)

Spec == Init /\ [][Next]_vars
FairSpec == Spec /\ Fairness

-----------------------------------------------------------------------------
\* Properties

\* After a pause, a kill or a stop at most one more order goes out: the one
\* whose signal was already past the check of _on_bar_closed.
AtMostOneLate == late.trading <= 1 /\ late.running <= 1

\* Why: a signal on its way is the first since the flag was cleared, and a
\* market loop that goes on with _running false has sent nothing since.
LateInv ==
    /\ bar = "equity" \/ trading => late.trading = 0
    /\ running => late.running = 0
    /\ bar \in {"watch", "equity"} /\ ~running /\ up => late.running = 0
    /\ AtMostOneLate

\* Once KILL COMPLETE is announced, nothing enables trading in this process
\* any more, and it is on its way out.  The POST /live/start of RUNBOOK.md:64
\* ("To restart") would find no listener in it.
CompleteIsFinal == told => ~trading /\ ~running

\* Why: the listener, which alone could enable trading, is in the kill switch
\* from the moment it disables trading, and then gone.
KillInv ==
    /\ \A i \in DOMAIN KillSteps : listener = KillSteps[i] => ~trading
    /\ told => listener = "done" /\ CompleteIsFinal

Inv == TypeOK /\ LateInv /\ KillInv

\* A kill or a stop that the listener has taken ends the process.
KillEnds == up /\ listener \notin {"subscribe", "listen"} ~> ~up

\* Why: there is no way back.  What is left of the way of such a process only gets
\* shorter: by each step of the listener, and once it has cleared _running by each
\* step of another loop; and where nothing is left, gather() returns.
Taken == up /\ listener \notin {"subscribe", "listen"}

KillLeft ==
    CASE listener = "persist"   -> 6 [] listener = "alert"     -> 5
      [] listener = "cancel"    -> 4 [] listener = "positions" -> 3
      [] listener = "persisted" -> 2
      [] listener \in {"complete", "stopping"} -> 1
      [] OTHER -> 0

MarketLeft ==
    CASE bar = "watch" -> 3 [] bar = "equity" -> 2 [] bar = "create" -> 1
      [] OTHER -> 0

LoopLeft(l) == IF l \in done THEN 0 ELSE 1

LoopsLeft ==
    IF running THEN 6
    ELSE MarketLeft + LoopLeft("heartbeat") + LoopLeft("reconcile")

WayLeft == 10 * KillLeft + LoopsLeft

NoWayBack ==
    [][Taken /\ up' =>
          /\ Taken' /\ WayLeft' <= WayLeft
          /\ listener' # listener \/ (~running /\ <<bar, done>>' # <<bar, done>>)
                => WayLeft' < WayLeft]_vars

Arrived == Taken /\ WayLeft = 0 => done = Loops

\* A kill command published while the listener listens disables trading.
KillObeyed ==
    (\E i \in 1..Len(inbox) : inbox[i].value = "kill_switch")
        /\ up /\ listener = "listen" /\ trading
      ~> ~trading \/ ~up
=============================================================================
