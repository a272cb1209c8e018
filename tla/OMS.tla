-------------------------------- MODULE OMS --------------------------------
(***************************************************************************)
(* The order management system of backend/app/oms/oms.py beside the        *)
(* exchange it trades on.                                                  *)
(*                                                                         *)
(* submit, cancel and reconcile are coroutines of one asyncio event loop:  *)
(* each action below is what one of them does between two awaits, so steps *)
(* of the three interleave only where the code awaits.  The reconciler may *)
(* treat several orders without awaiting; it is then in "loop", and no     *)
(* other coroutine runs (LoopFree).                                        *)
(*                                                                         *)
(* The exchange is external.  It answers a request from its state at some  *)
(* moment between the call and the reply, so that a reply may be stale     *)
(* when it is applied; a request whose caller has timed out may still be   *)
(* served.  Orders are numbered in the order of their creation, which is   *)
(* the iteration order of the dict _orders.                                *)
(***************************************************************************)
EXTENDS OrderStates

CONSTANTS
    MaxOrders,          \* bound: calls of submit
    MaxOpen,            \* RiskLimits.max_open_orders
    Endings,            \* how the exchange may end an order it has not filled
    Timeouts,           \* the calls that may end in an exception whatever
                        \* the exchange did with the request
    Unchecked,          \* TRUE: callers may pass reduce_only or no signal
    MaxCancels,         \* bound: calls of cancel
    MaxCrashes          \* bound: crashes of the process

Ids == 1..MaxOrders

\* create_order, fetch_open_orders, fetch_order, cancel_order
ExCalls == {"create", "list", "fetch", "cancel"}

ASSUME OMSAssumption ==
    /\ MaxOrders \in Nat /\ MaxOpen \in Nat
    /\ MaxCancels \in Nat /\ MaxCrashes \in Nat
    /\ Endings \subseteq {"canceled", "expired", "rejected"}
    /\ Timeouts \subseteq ExCalls /\ Unchecked \in BOOLEAN

VARIABLES
    \* _orders: the local Order objects
    status,             \* [Ids -> OrderStatus], "none" when not in _orders
    filled,             \* [Ids -> 0..Qty], filled_qty
    exId,               \* [Ids -> BOOLEAN], exchange_order_id is known
    \* coroutines
    sub,                \* [Ids -> SubmitPC], the call of submit of the order
    rpc, todo, snap, reply, \* reconcile: place, orders left, exchange answers
    cpc, cid,           \* cancel: place and order
    \* the exchange and the network
    ex,                 \* [Ids -> Deal], its own record of each order
    req,                \* [Ids -> request state], create_order requests
    \* bounds
    cancels, crashes

local == <<status, filled, exId>>
rec   == <<rpc, todo, snap, reply>>
can   == <<cpc, cid, cancels>>
vars  == <<local, sub, rec, can, ex, req, crashes>>

DealStatus == {"none", "open", "closed", "canceled", "expired", "rejected"}
Deal     == [st : DealStatus, filled : 0..Qty]
NoDeal   == [st |-> "none", filled |-> 0]
SubmitPC == {"unborn", "equity", "refused", "sending", "sent", "failed",
             "raised", "crashed"}
RecPC    == {"sleep", "fetch", "fetched", "loop", "sync", "synced"}
CancelPC == {"idle", "await", "ok", "err"}

TypeOK ==
    /\ status \in [Ids -> OrderStatus \cup {"none"}]
    /\ filled \in [Ids -> 0..Qty]
    /\ exId \in [Ids -> BOOLEAN]
    /\ sub \in [Ids -> SubmitPC]
    /\ rpc \in RecPC /\ todo \in SUBSET Ids
    /\ snap \in [Ids -> Deal] /\ reply \in Deal
    /\ cpc \in CancelPC /\ cid \in Ids \cup {0}
    /\ ex \in [Ids -> Deal]
    /\ req \in [Ids -> {"none", "flying", "served"}]
    /\ cancels \in 0..MaxCancels /\ crashes \in 0..MaxCrashes

Init ==
    /\ status = [i \in Ids |-> "none"]
    /\ filled = [i \in Ids |-> 0]
    /\ exId = [i \in Ids |-> FALSE]
    /\ sub = [i \in Ids |-> "unborn"]
    /\ rpc = "sleep" /\ todo = {}
    /\ snap = [i \in Ids |-> NoDeal] /\ reply = NoDeal
    /\ cpc = "idle" /\ cid = 0
    /\ ex = [i \in Ids |-> NoDeal]
    /\ req = [i \in Ids |-> "none"]
    /\ cancels = 0 /\ crashes = 0

-----------------------------------------------------------------------------
\* Helpers

LoopFree == rpc # "loop"

\* The orders that are in _orders and not terminal (_count_open_orders, and
\* the list reconcile starts from).
OpenOrders == {i \in Ids : status[i] \notin Terminal \cup {"none"}}

\* The order the reconciler is at: the first of those left.
AtOrder(i) == i \in todo /\ \A j \in todo : i <= j

\* status_map of _apply_exchange_state; "closed" is the exchange's "filled".
StatusMap == [open |-> "open", closed |-> "filled", canceled |-> "cancelled",
              expired |-> "expired", rejected |-> "rejected"]

\* _apply_exchange_state(order, r) on an order in status s: first the fill,
\* which may raise, then the exchange's status, where an illegal transition
\* is swallowed.
AfterReport(s, r) ==
    LET f == AfterFill(s, r.filled)
    IN  IF ~FillRaises(s, r.filled) /\ f \notin Terminal
              /\ CanMove(f, StatusMap[r.st])
        THEN StatusMap[r.st] ELSE f

\* Mutants of Apply: the exchange's status is written over ours ...
ApplyForced(i, r) ==
    /\ status' = [status EXCEPT ![i] = StatusMap[r.st]]
    /\ filled' = [filled EXCEPT ![i] = IF r.filled > 0 THEN r.filled ELSE @]
    /\ UNCHANGED exId

\* ... and the fills are taken from live orders only.
ApplyLiveFills(i, r) ==
    /\ status' = [status EXCEPT ![i] = AfterReport(@, r)]
    /\ filled' = [filled EXCEPT ![i] = IF r.st = "open" THEN r.filled ELSE @]
    /\ UNCHANGED exId

Apply(i, r) ==
    /\ status' = [status EXCEPT ![i] = AfterReport(@, r)]
    /\ filled' = [filled EXCEPT ![i] = IF r.filled > 0 THEN r.filled ELSE @]
    /\ UNCHANGED exId

-----------------------------------------------------------------------------
\* submit and _send_to_exchange.  The only caller awaits each call before the
\* next, so that one call is in progress at a time.

Submitting == \E i \in Ids : sub[i] \in {"equity", "sending"}

NextId(i) == sub[i] = "unborn" /\ \A j \in Ids : j < i => sub[j] # "unborn"

\* Store the order under its client id and put the create request on the
\* wire: nothing is awaited in between (the lock is free).
StoreAndSend(i) ==
    /\ status' = [status EXCEPT ![i] = "pending"]
    /\ req' = [req EXCEPT ![i] = "flying"]
    /\ sub' = [sub EXCEPT ![i] = "sending"]
    /\ UNCHANGED <<filled, exId>>

\* submit(signal=...): wait for the equity that the gate needs.
SubmitChecked(i) ==
    /\ LoopFree /\ ~Submitting /\ NextId(i)
    /\ sub' = [sub EXCEPT ![i] = "equity"]
    /\ UNCHANGED <<local, rec, can, ex, req, crashes>>

\* submit(reduce_only=True) or submit(signal=None): no gate.
SubmitUnchecked(i) ==
    /\ Unchecked /\ LoopFree /\ ~Submitting /\ NextId(i)
    /\ StoreAndSend(i)
    /\ UNCHANGED <<rec, can, ex, crashes>>

\* The gate approves.  Of its checks only the one on open orders depends on
\* this component's state.
GateApproves(i) ==
    /\ LoopFree /\ sub[i] = "equity"
    /\ Cardinality(OpenOrders) < MaxOpen
    /\ StoreAndSend(i)
    /\ UNCHANGED <<rec, can, ex, crashes>>

\* The gate rejects, on the open orders or on any of its other checks: the
\* order is returned rejected and never stored.
GateRejects(i) ==
    /\ LoopFree /\ sub[i] = "equity"
    /\ sub' = [sub EXCEPT ![i] = "refused"]
    /\ UNCHANGED <<local, rec, can, ex, req, crashes>>

\* create_order returns.  When the reconciler has opened the order already,
\* transition(OPEN) raises, and so does transition(REJECTED) in the handler:
\* the exception leaves submit, the exchange id stays set.
SubmitReturns(i) ==
    /\ LoopFree /\ sub[i] = "sending"
    /\ req[i] = "served" /\ ex[i].st # "none"
    /\ exId' = [exId EXCEPT ![i] = TRUE]
    /\ IF CanMove(status[i], "open")
       THEN /\ status' = [status EXCEPT ![i] = "open"]
            /\ sub' = [sub EXCEPT ![i] = "sent"]
       ELSE /\ sub' = [sub EXCEPT ![i] = "raised"]
            /\ UNCHANGED status
    /\ UNCHANGED <<filled, rec, can, ex, req, crashes>>

\* create_order raises: the exchange refused, or ten seconds have passed and
\* nobody knows what it did.
SubmitFails(i) ==
    /\ LoopFree /\ sub[i] = "sending"
    /\ "create" \in Timeouts \/ (req[i] = "served" /\ ex[i].st = "none")
    /\ IF CanMove(status[i], "rejected")
       THEN /\ status' = [status EXCEPT ![i] = "rejected"]
            /\ sub' = [sub EXCEPT ![i] = "failed"]
       ELSE /\ sub' = [sub EXCEPT ![i] = "raised"]
            /\ UNCHANGED status
    /\ UNCHANGED <<filled, exId, rec, can, ex, req, crashes>>

-----------------------------------------------------------------------------
\* reconcile and _sync_from_exchange

\* The orders still to treat; the call ends with the last of them.
Treated(i) ==
    /\ todo' = todo \ {i}
    /\ rpc' = IF todo \subseteq {i} THEN "sleep" ELSE "loop"

RecStart ==
    /\ rpc = "sleep" /\ OpenOrders # {}
    /\ rpc' = "fetch" /\ todo' = OpenOrders
    /\ snap' = [i \in Ids |-> NoDeal]
    /\ UNCHANGED <<reply, local, sub, can, ex, req, crashes>>

RecResume ==
    /\ rpc = "fetched"
    /\ rpc' = "loop"
    /\ UNCHANGED <<todo, snap, reply, local, sub, can, ex, req, crashes>>

\* fetch_open_orders raises: the whole call is given up (and an alert sent).
RecFails ==
    /\ "list" \in Timeouts /\ rpc \in {"fetch", "fetched"}
    /\ rpc' = "sleep" /\ todo' = {}
    /\ UNCHANGED <<snap, reply, local, sub, can, ex, req, crashes>>

\* The order is in the exchange's list.  An exception from apply_fill ends
\* the call for all the orders after it.
RecListed(i) ==
    /\ rpc = "loop" /\ AtOrder(i)
    /\ snap[i] # NoDeal
    /\ Apply(i, snap[i])
    /\ IF FillRaises(status[i], snap[i].filled)
       THEN rpc' = "sleep" /\ todo' = {}
       ELSE Treated(i)
    /\ UNCHANGED <<snap, reply, sub, can, ex, req, crashes>>

\* Mutant of RecUnknown: an order not in the list is taken for cancelled.
RecUnknownIsGone(i) ==
    /\ rpc = "loop" /\ AtOrder(i)
    /\ snap[i] = NoDeal /\ ~exId[i]
    /\ status' = [status EXCEPT ![i] = IF CanMove(@, "cancelled")
                                      THEN "cancelled" ELSE @]
    /\ Treated(i)
    /\ UNCHANGED <<snap, reply, filled, exId, sub, can, ex, req, crashes>>

\* It is not, and its exchange id is not known: nothing can be asked.
RecUnknown(i) ==
    /\ rpc = "loop" /\ AtOrder(i)
    /\ snap[i] = NoDeal /\ ~exId[i]
    /\ Treated(i)
    /\ UNCHANGED <<snap, reply, local, sub, can, ex, req, crashes>>

\* Mutant of RecMissing: an order not in the list is left for later.
RecMissingSkips(i) ==
    /\ rpc = "loop" /\ AtOrder(i)
    /\ snap[i] = NoDeal /\ exId[i]
    /\ Treated(i)
    /\ UNCHANGED <<snap, reply, local, sub, can, ex, req, crashes>>

\* It is not: ask for this order, and await the answer.
RecMissing(i) ==
    /\ rpc = "loop" /\ AtOrder(i)
    /\ snap[i] = NoDeal /\ exId[i]
    /\ rpc' = "sync"
    /\ UNCHANGED <<todo, snap, reply, local, sub, can, ex, req, crashes>>

\* fetch_order returns; what apply_fill raises is caught here.
RecSynced(i) ==
    /\ rpc = "synced" /\ AtOrder(i)
    /\ Apply(i, reply)
    /\ Treated(i)
    /\ UNCHANGED <<snap, reply, sub, can, ex, req, crashes>>

\* fetch_order raises: the order is left as it is.
RecSyncFails(i) ==
    /\ "fetch" \in Timeouts /\ rpc \in {"sync", "synced"} /\ AtOrder(i)
    /\ Treated(i)
    /\ UNCHANGED <<snap, reply, local, sub, can, ex, req, crashes>>

-----------------------------------------------------------------------------
\* cancel

\* Without an exchange id the exchange library raises.
CancelCall(i) ==
    /\ LoopFree /\ cpc = "idle" /\ cancels < MaxCancels
    /\ i \in OpenOrders
    /\ cpc' = (IF exId[i] THEN "await" ELSE "err") /\ cid' = i
    /\ cancels' = cancels + 1
    /\ UNCHANGED <<local, sub, rec, ex, req, crashes>>

\* The exchange has confirmed.  transition(CANCELLED) may still raise, when
\* the reconciler was faster; the call then reports failure.
CancelReturns ==
    /\ LoopFree /\ cpc = "ok"
    /\ status' = [status EXCEPT ![cid] =
                      IF CanMove(@, "cancelled") THEN "cancelled" ELSE @]
    /\ cpc' = "idle" /\ cid' = 0
    /\ UNCHANGED <<filled, exId, sub, rec, ex, req, cancels, crashes>>

\* Mutant of CancelFails: the order was marked before the call.
CancelFailsMarked ==
    /\ LoopFree /\ cpc # "idle" /\ ("cancel" \in Timeouts \/ cpc = "err")
    /\ status' = [status EXCEPT ![cid] =
                      IF CanMove(@, "cancelled") THEN "cancelled" ELSE @]
    /\ cpc' = "idle" /\ cid' = 0
    /\ UNCHANGED <<filled, exId, sub, rec, ex, req, cancels, crashes>>

CancelFails ==
    /\ LoopFree /\ cpc # "idle" /\ ("cancel" \in Timeouts \/ cpc = "err")
    /\ cpc' = "idle" /\ cid' = 0
    /\ UNCHANGED <<local, sub, rec, ex, req, cancels, crashes>>

-----------------------------------------------------------------------------
\* The exchange

ExAccepts(i) ==
    /\ req[i] = "flying"
    /\ req' = [req EXCEPT ![i] = "served"]
    /\ ex' = [ex EXCEPT ![i].st = "open"]
    /\ UNCHANGED <<local, sub, rec, can, crashes>>

ExRefuses(i) ==
    /\ req[i] = "flying"
    /\ req' = [req EXCEPT ![i] = "served"]
    /\ UNCHANGED <<local, sub, rec, can, ex, crashes>>

ExFills(i) ==
    /\ ex[i].st = "open"
    /\ ex' = [ex EXCEPT ![i] =
                 [st |-> IF @.filled + 1 = Qty THEN "closed" ELSE "open",
                  filled |-> @.filled + 1]]
    /\ UNCHANGED <<local, sub, rec, can, req, crashes>>

ExEnds(i) ==
    /\ ex[i].st = "open"
    /\ \E e \in Endings : ex' = [ex EXCEPT ![i].st = e]
    /\ UNCHANGED <<local, sub, rec, can, req, crashes>>

\* It serves the reconciler's requests ...
ExListsOpen ==
    /\ rpc = "fetch"
    /\ rpc' = "fetched"
    /\ snap' = [i \in Ids |-> IF ex[i].st = "open" THEN ex[i] ELSE NoDeal]
    /\ UNCHANGED <<todo, reply, local, sub, can, ex, req, crashes>>

ExReports(i) ==
    /\ rpc = "sync" /\ AtOrder(i)
    /\ rpc' = "synced" /\ reply' = ex[i]
    /\ UNCHANGED <<todo, snap, local, sub, can, ex, req, crashes>>

\* ... and cancel's.
ExCancels ==
    /\ cpc = "await"
    /\ IF ex[cid].st = "open"
       THEN cpc' = "ok" /\ ex' = [ex EXCEPT ![cid].st = "canceled"]
       ELSE cpc' = "err" /\ UNCHANGED ex
    /\ UNCHANGED <<cid, cancels, local, sub, rec, req, crashes>>

-----------------------------------------------------------------------------
\* The process dies and is started again: _orders was in memory only.

Crash ==
    /\ crashes < MaxCrashes
    /\ crashes' = crashes + 1
    /\ status' = [i \in Ids |-> "none"]
    /\ filled' = [i \in Ids |-> 0]
    /\ exId' = [i \in Ids |-> FALSE]
    /\ sub' = [i \in Ids |-> IF sub[i] = "unborn" THEN "unborn" ELSE "crashed"]
    /\ rpc' = "sleep" /\ todo' = {}
    /\ cpc' = "idle" /\ cid' = 0
    /\ UNCHANGED <<snap, reply, ex, req, cancels>>

-----------------------------------------------------------------------------
SubmitStep(i) == \/ SubmitChecked(i) \/ SubmitUnchecked(i)
                 \/ GateApproves(i) \/ GateRejects(i)
                 \/ SubmitReturns(i) \/ SubmitFails(i)

RecOrder(i) == \/ RecListed(i) \/ RecUnknown(i) \/ RecMissing(i)
               \/ RecSynced(i) \/ RecSyncFails(i)

RecStep == RecStart \/ RecResume \/ RecFails \/ \E i \in Ids : RecOrder(i)

CancelStep == CancelReturns \/ CancelFails \/ \E i \in Ids : CancelCall(i)

ExOrder(i) == \/ ExAccepts(i) \/ ExRefuses(i) \/ ExFills(i) \/ ExEnds(i)
              \/ ExReports(i)

ExStep == ExListsOpen \/ ExCancels \/ \E i \in Ids : ExOrder(i)

Next == \/ \E i \in Ids : SubmitStep(i)
        \/ RecStep \/ CancelStep \/ ExStep \/ Crash

Spec == Init /\ [][Next]_vars

\* What is fair: the exchange serves each request, the sixty-second sleep of
\* the reconcile loop ends, and a coroutine whose reply has come goes on.  The
\* last is strong fairness because "loop" disables the other coroutines for
\* the length of a step: the event loop runs what is ready in FIFO order.
Fairness ==
    /\ WF_vars(RecStep)
    /\ WF_vars(ExListsOpen) /\ WF_vars(\E i \in Ids : ExReports(i)) /\ WF_vars(ExCancels)
    /\ SF_vars(CancelReturns \/ CancelFails)
    /\ \A i \in Ids :
          /\ SF_vars(GateApproves(i) \/ GateRejects(i))
          /\ SF_vars(SubmitReturns(i) \/ SubmitFails(i))
          /\ WF_vars(ExAccepts(i) \/ ExRefuses(i))

FairSpec == Spec /\ Fairness

-----------------------------------------------------------------------------
\* Properties

View == INSTANCE OrderView WITH
            truth <- ex,
            view  <- [i \in Ids |-> [st |-> status[i], filled |-> filled[i]]]

\* Whatever replies are late, lost or stale, the local order follows the
\* transition graph, its fills never decrease, and it never records what the
\* exchange has not done (class OMS: "State machine transitions based on
\* exchange confirmations").
RefinesView == View!Spec

\* The inductive invariant behind the refinement, by part.
\* The exchange's record of an order: full means closed, and it has none
\* before the request was served.
ExchangeInv ==
    \A i \in Ids :
        /\ ex[i].st = "closed" <=> ex[i].filled = Qty
        /\ req[i] # "served" => ex[i] = NoDeal
        /\ ex[i].st = "none" => ex[i].filled = 0
        /\ sub[i] \in {"unborn", "equity", "refused"}
               => req[i] = "none" /\ status[i] = "none"
        /\ sub[i] \in {"sending", "sent", "failed", "raised"}
               => status[i] # "none"

\* Our record is justified by the exchange's, and its id by its existence.
LedgerInv ==
    \A i \in Ids :
        /\ View!Justified(status[i], ex[i])
        /\ filled[i] <= ex[i].filled
        /\ status[i] = "none" => filled[i] = 0
        /\ exId[i] => ex[i].st # "none"
        /\ status[i] = "rejected" => sub[i] = "failed" \/ ex[i].st = "rejected"

\* Answers on their way are old, but of this order's past, and newer than
\* what we hold.
AnswersInv ==
    \A i \in todo :
        /\ status[i] # "none"
        /\ rpc \in {"fetched", "loop", "sync", "synced"} /\ snap[i] # NoDeal
               => /\ snap[i].st = "open" /\ ex[i].st # "none"
                  /\ snap[i].filled \in filled[i]..ex[i].filled
                  /\ snap[i].filled < Qty
        /\ rpc \in {"sync", "synced"} /\ AtOrder(i) => exId[i]
        /\ rpc = "synced" /\ AtOrder(i)
               => /\ reply.st # "none"
                  /\ reply.filled \in filled[i]..ex[i].filled
                  /\ reply.st = "open" => reply.filled < Qty
                  /\ reply.st # "open" => reply = ex[i]

CancelInv ==
    /\ cpc # "idle" => cid \in Ids /\ status[cid] # "none"
    /\ cpc = "ok" => ex[cid].st = "canceled"

Inv == TypeOK /\ ExchangeInv /\ LedgerInv /\ AnswersInv /\ CancelInv

\* An order that is live on the exchange while we believe it ended, or do not
\* know it, got there in one of two ways only: its create call ended in an
\* exception (the reply was lost), or the process died.  No interleaving of
\* cancel, reconcile and stale snapshots produces one.
OrphansOnlyByLostReply ==
    \A i \in Ids :
        ex[i].st = "open" /\ status[i] \in Terminal \cup {"none"}
            => sub[i] \in {"failed", "crashed"}

\* When no reply is lost, the limit on open orders that the gate applies to
\* our records holds of the exchange: live orders and orders on the wire.
LiveBound ==
    Cardinality({i \in Ids : ex[i].st = "open" \/ req[i] = "flying"})
        <= MaxOpen

\* An order that the reconciler has brought to its end carries all the fills
\* the exchange has for it.
TerminalLedger ==
    \A i \in Ids : status[i] \in {"filled", "cancelled", "expired"}
                      => filled[i] = ex[i].filled

\* An order the exchange has ended does not stay open here (reconcile: "Fetch
\* single order status from exchange to resolve discrepancy").
Ended(i) == ex[i].st \notin {"none", "open"}
Converges == \A i \in Ids : Ended(i) /\ i \in OpenOrders
                                 ~> i \notin OpenOrders
=============================================================================
