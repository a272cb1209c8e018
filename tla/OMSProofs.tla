----------------------------- MODULE OMSProofs -----------------------------
(***************************************************************************)
(* Proofs about OMS, for any number of orders, any order size, any set of  *)
(* calls that may time out, and any number of cancels and crashes: the     *)
(* invariant Inv is inductive, the system implements OrderView, and only   *)
(* a lost reply or a crash makes an orphan.  And two that hold in better   *)
(* conditions: the limit on open orders if no reply is lost, the fills of  *)
(* ended orders if nobody cancels.                                         *)
(***************************************************************************)
EXTENDS OMS, FiniteSetTheorems, TLAPS

-----------------------------------------------------------------------------
\* The transition graph, edge by edge.
LEMMA Edges ==
    ASSUME NEW s \in OrderStatus, NEW t
    PROVE  CanMove(s, t) <=>
             \/ s = "pending" /\ t \in {"open", "rejected", "cancelled"}
             \/ s = "open" /\ t \in {"partial", "filled", "cancelled", "expired"}
             \/ s = "partial" /\ t \in {"filled", "cancelled"}
<1>1. CASE s = "pending"  BY <1>1 DEF CanMove, Transitions
<1>2. CASE s = "open"     BY <1>2 DEF CanMove, Transitions
<1>3. CASE s = "partial"  BY <1>3 DEF CanMove, Transitions
<1>4. CASE s \in Terminal
  BY <1>4 DEF CanMove, Transitions, Terminal
<1> QED
  BY <1>1, <1>2, <1>3, <1>4 DEF OrderStatus, Terminal

\* What the exchange's status means in ours.
LEMMA Mapped ==
    /\ StatusMap["open"] = "open"
    /\ StatusMap["closed"] = "filled"
    /\ StatusMap["canceled"] = "cancelled"
    /\ StatusMap["expired"] = "expired"
    /\ StatusMap["rejected"] = "rejected"
BY DEF StatusMap

\* Applying a report moves an order by at most one edge of the graph, to a
\* status that the report justifies.
LEMMA ReportMoves ==
    ASSUME NEW s \in OrderStatus, NEW r \in Deal, r.st # "none",
           r.st = "closed" <=> r.filled = Qty
    PROVE  LET t == AfterReport(s, r)
           IN  /\ t \in OrderStatus
               /\ t = s \/ CanMove(s, t)
               /\ t = s \/ View!Justified(t, r)
               /\ t = "rejected" => s = "rejected" \/ r.st = "rejected"
<1> DEFINE f == AfterFill(s, r.filled)
<1>0. r.filled \in 0..Qty /\ r.st \in DealStatus /\ Qty \in Nat \ {0}
  BY QtyAssumption DEF Deal
<1>1. /\ f \in OrderStatus
      /\ f = s \/ CanMove(s, f)
      /\ f # s => \/ f = "filled" /\ r.filled = Qty
                  \/ s = "open" /\ f = "partial" /\ r.filled > 0
  <2>1. CASE r.filled = Qty /\ CanMove(s, "filled")
    BY <2>1, <1>0 DEF AfterFill, OrderStatus
  <2>2. CASE ~(r.filled = Qty /\ CanMove(s, "filled")) /\ r.filled \in 1..(Qty-1) /\ s = "open"
    BY <2>2, <1>0, Edges DEF AfterFill, OrderStatus
  <2>3. CASE ~(r.filled = Qty /\ CanMove(s, "filled")) /\ ~(r.filled \in 1..(Qty-1) /\ s = "open")
    BY <2>3, <1>0 DEF AfterFill
  <2> QED BY <2>1, <2>2, <2>3
<1>2. CASE AfterReport(s, r) = f
  BY <1>0, <1>1, <1>2 DEF View!Justified, OrderStatus
<1>3. CASE AfterReport(s, r) # f
  <2>1. /\ f \notin Terminal
        /\ CanMove(f, StatusMap[r.st])
        /\ AfterReport(s, r) = StatusMap[r.st]
        /\ ~FillRaises(s, r.filled)
    BY <1>3 DEF AfterReport
  <2>2. r.st \in {"open", "closed", "canceled", "expired", "rejected"}
    BY <1>0 DEF DealStatus
  <2>3. CanMove(s, StatusMap[r.st])
    BY <2>1, <2>2, <1>0, <1>1, Edges, Mapped DEF OrderStatus, Terminal
  <2>4. View!Justified(StatusMap[r.st], r)
    BY <2>2, <1>0, Mapped DEF View!Justified
  <2>5. StatusMap[r.st] \in OrderStatus
    BY <2>2, Mapped DEF OrderStatus
  <2> QED
    BY <2>1, <2>2, <2>3, <2>4, <2>5, Mapped
<1> QED BY <1>2, <1>3

-----------------------------------------------------------------------------
\* The inductive invariant.
LEMMA Initially == Init => Inv
BY QtyAssumption, OMSAssumption
DEF Init, Inv, TypeOK, ExchangeInv, LedgerInv, AnswersInv, CancelInv, Ids,
    Deal, NoDeal, DealStatus, SubmitPC, RecPC, CancelPC, OrderStatus, Terminal,
    View!Justified

\* Storing an order and sending its create request.
LEMMA StoreKeepsInv ==
    ASSUME Inv, NEW i \in Ids, StoreAndSend(i),
           sub[i] \in {"unborn", "equity"},
           UNCHANGED <<rec, can, ex, crashes>>
    PROVE  Inv'
<1> USE DEF StoreAndSend, Inv, rec, can
<1>1. TypeOK'      BY DEF TypeOK, SubmitPC, OrderStatus
<1>2. ExchangeInv' BY DEF ExchangeInv, TypeOK
<1>3. LedgerInv'   BY DEF LedgerInv, ExchangeInv, TypeOK, View!Justified
<1>4. AnswersInv'  BY DEF AnswersInv, AtOrder, TypeOK
<1>5. CancelInv'   BY DEF CancelInv, TypeOK
<1> QED BY <1>1, <1>2, <1>3, <1>4, <1>5

\* The steps of submit.
LEMMA SubmitKeepsInv ==
    ASSUME Inv, NEW i \in Ids, SubmitStep(i)
    PROVE  Inv'
<1> USE DEF Inv
<1>1. CASE SubmitChecked(i)
  <2> USE <1>1 DEF SubmitChecked, local, rec, can, NextId
  <2>1. TypeOK'      BY DEF TypeOK, SubmitPC
  <2>2. ExchangeInv' BY DEF ExchangeInv, TypeOK
  <2>3. LedgerInv'   BY DEF LedgerInv, TypeOK
  <2>4. AnswersInv'  BY DEF AnswersInv, AtOrder
  <2>5. CancelInv'   BY DEF CancelInv
  <2> QED BY <2>1, <2>2, <2>3, <2>4, <2>5
<1>2. CASE SubmitUnchecked(i)
  BY <1>2, StoreKeepsInv DEF SubmitUnchecked, NextId
<1>3. CASE GateApproves(i)
  BY <1>3, StoreKeepsInv DEF GateApproves
<1>4. CASE GateRejects(i)
  <2> USE <1>4 DEF GateRejects, local, rec, can
  <2>1. TypeOK'      BY DEF TypeOK, SubmitPC
  <2>2. ExchangeInv' BY DEF ExchangeInv, TypeOK
  <2>3. LedgerInv'   BY DEF LedgerInv, TypeOK
  <2>4. AnswersInv'  BY DEF AnswersInv, AtOrder
  <2>5. CancelInv'   BY DEF CancelInv
  <2> QED BY <2>1, <2>2, <2>3, <2>4, <2>5
<1>5. CASE SubmitReturns(i)
  <2> USE <1>5 DEF SubmitReturns, rec, can
  <2>0. status[i] \in OrderStatus
    BY DEF TypeOK, ExchangeInv
  <2>1. TypeOK'      BY DEF TypeOK, SubmitPC, OrderStatus
  <2>2. ExchangeInv' BY DEF ExchangeInv, TypeOK
  <2>3. LedgerInv'
    BY <2>0, Edges DEF LedgerInv, TypeOK, View!Justified
  <2>4. AnswersInv'  BY DEF AnswersInv, AtOrder, TypeOK
  <2>5. CancelInv'   BY DEF CancelInv, TypeOK
  <2> QED BY <2>1, <2>2, <2>3, <2>4, <2>5
<1>6. CASE SubmitFails(i)
  <2> USE <1>6 DEF SubmitFails, rec, can
  <2>1. TypeOK'      BY DEF TypeOK, SubmitPC, OrderStatus
  <2>2. ExchangeInv' BY DEF ExchangeInv, TypeOK
  <2>3. LedgerInv'
    <3>0. status[i] \in OrderStatus
      BY DEF TypeOK, ExchangeInv
    <3> QED BY <3>0, Edges DEF LedgerInv, TypeOK, View!Justified
  <2>4. AnswersInv'  BY DEF AnswersInv, AtOrder, TypeOK
  <2>5. CancelInv'   BY DEF CancelInv, TypeOK
  <2> QED BY <2>1, <2>2, <2>3, <2>4, <2>5
<1> QED
  BY <1>1, <1>2, <1>3, <1>4, <1>5, <1>6 DEF SubmitStep

\* A report of the order's past, no older than what we hold.
Sound(i, r) ==
    /\ r \in Deal /\ r.st # "none" /\ ex[i].st # "none"
    /\ r.st = "closed" <=> r.filled = Qty
    /\ r.filled \in filled[i]..ex[i].filled
    /\ r.st # "open" => r = ex[i]

\* Applying it keeps our ledger behind the exchange's.
LEMMA ApplyKeepsLedger ==
    ASSUME Inv, NEW i \in Ids, status[i] # "none",
           NEW r, Sound(i, r), Apply(i, r), UNCHANGED <<sub, ex, req>>
    PROVE  /\ status' \in [Ids -> OrderStatus \cup {"none"}]
           /\ filled' \in [Ids -> 0..Qty]
           /\ \A j \in Ids : status'[j] = "none" <=> status[j] = "none"
           /\ \A j \in Ids : j # i => filled'[j] = filled[j]
           /\ LedgerInv'
<1> DEFINE t == AfterReport(status[i], r)
<1>1. status[i] \in OrderStatus /\ Qty \in Nat /\ Qty > 0
  BY QtyAssumption DEF Inv, TypeOK
<1>2. /\ t \in OrderStatus
      /\ t = status[i] \/ View!Justified(t, r)
      /\ t = "rejected" => status[i] = "rejected" \/ r.st = "rejected"
  BY <1>1, ReportMoves DEF Sound
<1>3. r.filled \in 0..Qty /\ ex[i] \in Deal /\ ex[i].filled \in 0..Qty
  BY DEF Sound, Deal, Inv, TypeOK
<1>4. status' = [status EXCEPT ![i] = t]
  BY DEF Apply
<1>5. filled' = [filled EXCEPT ![i] = IF r.filled > 0 THEN r.filled ELSE filled[i]]
  BY DEF Apply
<1>6. /\ status' \in [Ids -> OrderStatus \cup {"none"}]
      /\ filled' \in [Ids -> 0..Qty]
      /\ \A j \in Ids : status'[j] = "none" <=> status[j] = "none"
      /\ \A j \in Ids : j # i => filled'[j] = filled[j]
  BY <1>1, <1>2, <1>3, <1>4, <1>5 DEF Inv, TypeOK, OrderStatus
<1>7. LedgerInv'
  <2> SUFFICES ASSUME NEW j \in Ids
      PROVE  /\ View!Justified(status'[j], ex[j])
             /\ filled'[j] <= ex[j].filled
             /\ status'[j] = "none" => filled'[j] = 0
             /\ exId[j] => ex[j].st # "none"
             /\ status'[j] = "rejected"
                    => sub[j] = "failed" \/ ex[j].st = "rejected"
    BY DEF LedgerInv, Apply, View!Justified
  <2>1. CASE j # i
    BY <2>1, <1>4, <1>5 DEF Inv, LedgerInv, TypeOK
  <2>2. CASE j = i
    <3>1. View!Justified(t, ex[i])
      BY <1>2, <1>3 DEF Sound, View!Justified, Inv, LedgerInv
    <3>2. filled'[i] <= ex[i].filled /\ status'[i] = t
      BY <1>3, <1>4, <1>5 DEF Inv, LedgerInv, TypeOK, Sound
    <3>3. t = "rejected" => sub[i] = "failed" \/ ex[i].st = "rejected"
      BY <1>2 DEF Sound, Inv, LedgerInv
    <3> QED
      BY <2>2, <3>1, <3>2, <3>3, <1>2 DEF Inv, LedgerInv, OrderStatus
  <2> QED BY <2>1, <2>2
<1> QED BY <1>6, <1>7

\* The snapshot and the reply are sound when they are applied.
LEMMA AnswersSound ==
    ASSUME Inv, NEW i \in Ids, AtOrder(i)
    PROVE  /\ status[i] # "none"
           /\ rpc = "loop" /\ snap[i] # NoDeal => Sound(i, snap[i])
           /\ rpc = "synced" => Sound(i, reply)
<1>1. ex[i] \in Deal /\ snap[i] \in Deal /\ reply \in Deal
  BY DEF Inv, TypeOK
<1>2. /\ ex[i].st \in DealStatus /\ ex[i].filled \in 0..Qty
      /\ snap[i].st \in DealStatus /\ snap[i].filled \in 0..Qty
      /\ reply.st \in DealStatus /\ reply.filled \in 0..Qty
      /\ filled[i] \in 0..Qty
  BY <1>1 DEF Deal, Inv, TypeOK
<1> QED
  BY <1>1, <1>2, QtyAssumption
  DEF Inv, AnswersInv, LedgerInv, ExchangeInv, AtOrder, Sound

\* The steps of reconcile.
LEMMA ReconcileKeepsInv ==
    ASSUME Inv, RecStep
    PROVE  Inv'
<1> USE DEF Inv
<1>1. CASE RecStart
  <2> USE <1>1 DEF RecStart, local, can
  <2>1. TypeOK'
    BY QtyAssumption DEF TypeOK, RecPC, OpenOrders, Deal, NoDeal, DealStatus
  <2>2. ExchangeInv'
    BY DEF ExchangeInv, TypeOK
  <2>3. LedgerInv'
    BY DEF LedgerInv, TypeOK, View!Justified
  <2>4. AnswersInv'
    BY DEF AnswersInv, AtOrder, TypeOK, OpenOrders
  <2>5. CancelInv'
    BY DEF CancelInv, TypeOK
  <2> QED BY <2>1, <2>2, <2>3, <2>4, <2>5
<1>2. CASE RecResume
  <2> USE <1>2 DEF RecResume, local, can
  <2>1. TypeOK'
    BY DEF TypeOK, SubmitPC, RecPC, CancelPC, OrderStatus
  <2>2. ExchangeInv'
    BY DEF ExchangeInv, TypeOK
  <2>3. LedgerInv'
    BY DEF LedgerInv, TypeOK, View!Justified
  <2>4. AnswersInv'
    BY DEF AnswersInv, AtOrder, TypeOK
  <2>5. CancelInv'
    BY DEF CancelInv, TypeOK
  <2> QED BY <2>1, <2>2, <2>3, <2>4, <2>5
<1>3. CASE RecFails
  <2> USE <1>3 DEF RecFails, local, can
  <2>1. TypeOK'
    BY DEF TypeOK, SubmitPC, RecPC, CancelPC, OrderStatus
  <2>2. ExchangeInv'
    BY DEF ExchangeInv, TypeOK
  <2>3. LedgerInv'
    BY DEF LedgerInv, TypeOK, View!Justified
  <2>4. AnswersInv'
    BY DEF AnswersInv, AtOrder, TypeOK
  <2>5. CancelInv'
    BY DEF CancelInv, TypeOK
  <2> QED BY <2>1, <2>2, <2>3, <2>4, <2>5
<1>4. ASSUME NEW i \in Ids, RecListed(i) PROVE Inv'
  <2> USE <1>4 DEF RecListed, can
  <2>0. AtOrder(i) /\ status[i] # "none" /\ Sound(i, snap[i])
    BY AnswersSound
  <2>1. /\ status' \in [Ids -> OrderStatus \cup {"none"}]
        /\ filled' \in [Ids -> 0..Qty]
        /\ \A j \in Ids : status'[j] = "none" <=> status[j] = "none"
        /\ \A j \in Ids : j # i => filled'[j] = filled[j]
        /\ LedgerInv'
    BY <2>0, ApplyKeepsLedger
  <2>2. /\ exId' = exId
        /\ rpc' \in {"sleep", "loop"}
        /\ todo' \subseteq todo \ {i}
    BY DEF Apply, Treated
  <2>3. TypeOK'      BY <2>1, <2>2 DEF TypeOK, RecPC
  <2>4. ExchangeInv' BY <2>1 DEF ExchangeInv
  <2>5. AnswersInv'
    BY <2>1, <2>2 DEF AnswersInv, TypeOK
  <2>6. CancelInv'   BY <2>1 DEF CancelInv
  <2> QED BY <2>1, <2>3, <2>4, <2>5, <2>6
<1>5. ASSUME NEW i \in Ids, RecUnknown(i) PROVE Inv'
  <2> USE <1>5 DEF RecUnknown, Treated, local, can
  <2>1. TypeOK'
    BY DEF TypeOK, SubmitPC, RecPC, CancelPC, OrderStatus
  <2>2. ExchangeInv'
    BY DEF ExchangeInv, TypeOK
  <2>3. LedgerInv'
    BY DEF LedgerInv, TypeOK, View!Justified
  <2>4. AnswersInv'
    BY DEF AnswersInv, AtOrder, TypeOK
  <2>5. CancelInv'
    BY DEF CancelInv, TypeOK
  <2> QED BY <2>1, <2>2, <2>3, <2>4, <2>5
<1>6. ASSUME NEW i \in Ids, RecMissing(i) PROVE Inv'
  <2> USE <1>6 DEF RecMissing, local, can
  <2>1. TypeOK'
    BY DEF TypeOK, SubmitPC, RecPC, CancelPC, OrderStatus
  <2>2. ExchangeInv'
    BY DEF ExchangeInv, TypeOK
  <2>3. LedgerInv'
    BY DEF LedgerInv, TypeOK, View!Justified
  <2>4. AnswersInv'
    BY DEF AnswersInv, AtOrder, TypeOK, Ids
  <2>5. CancelInv'
    BY DEF CancelInv, TypeOK
  <2> QED BY <2>1, <2>2, <2>3, <2>4, <2>5
<1>7. ASSUME NEW i \in Ids, RecSynced(i) PROVE Inv'
  <2> USE <1>7 DEF RecSynced, can
  <2>0. AtOrder(i) /\ status[i] # "none" /\ Sound(i, reply)
    BY AnswersSound
  <2>1. /\ status' \in [Ids -> OrderStatus \cup {"none"}]
        /\ filled' \in [Ids -> 0..Qty]
        /\ \A j \in Ids : status'[j] = "none" <=> status[j] = "none"
        /\ \A j \in Ids : j # i => filled'[j] = filled[j]
        /\ LedgerInv'
    BY <2>0, ApplyKeepsLedger
  <2>2. /\ exId' = exId
        /\ rpc' \in {"sleep", "loop"}
        /\ todo' = todo \ {i}
    BY DEF Apply, Treated
  <2>3. TypeOK'      BY <2>1, <2>2 DEF TypeOK, RecPC
  <2>4. ExchangeInv' BY <2>1 DEF ExchangeInv
  <2>5. AnswersInv'  BY <2>1, <2>2 DEF AnswersInv, TypeOK
  <2>6. CancelInv'   BY <2>1 DEF CancelInv
  <2> QED BY <2>1, <2>3, <2>4, <2>5, <2>6
<1>8. ASSUME NEW i \in Ids, RecSyncFails(i) PROVE Inv'
  <2> USE <1>8 DEF RecSyncFails, Treated, local, can
  <2>1. TypeOK'
    BY DEF TypeOK, SubmitPC, RecPC, CancelPC, OrderStatus
  <2>2. ExchangeInv'
    BY DEF ExchangeInv, TypeOK
  <2>3. LedgerInv'
    BY DEF LedgerInv, TypeOK, View!Justified
  <2>4. AnswersInv'
    BY DEF AnswersInv, AtOrder, TypeOK
  <2>5. CancelInv'
    BY DEF CancelInv, TypeOK
  <2> QED BY <2>1, <2>2, <2>3, <2>4, <2>5
<1> QED
  BY <1>1, <1>2, <1>3, <1>4, <1>5, <1>6, <1>7, <1>8 DEF RecStep, RecOrder

\* The steps of cancel.
LEMMA CancelKeepsInv ==
    ASSUME Inv, CancelStep
    PROVE  Inv'
<1> USE DEF Inv
<1>1. ASSUME NEW i \in Ids, CancelCall(i) PROVE Inv'
  <2> USE <1>1 DEF CancelCall, local, rec
  <2>1. TypeOK'
    BY OMSAssumption DEF TypeOK, CancelPC
  <2>2. ExchangeInv'
    BY DEF ExchangeInv, TypeOK
  <2>3. LedgerInv'
    BY DEF LedgerInv, TypeOK, View!Justified
  <2>4. AnswersInv'
    BY DEF AnswersInv, AtOrder, TypeOK
  <2>5. CancelInv'
    BY DEF CancelInv, OpenOrders
  <2> QED BY <2>1, <2>2, <2>3, <2>4, <2>5
<1>2. CASE CancelReturns
  <2> USE <1>2 DEF CancelReturns, rec
  <2>0. cid \in Ids /\ status[cid] \in OrderStatus /\ ex[cid].st = "canceled"
    BY DEF CancelInv, TypeOK
  <2>1. TypeOK'      BY <2>0 DEF TypeOK, CancelPC, OrderStatus
  <2>2. ExchangeInv' BY <2>0 DEF ExchangeInv, TypeOK, OrderStatus
  <2>3. LedgerInv'   BY <2>0 DEF LedgerInv, TypeOK, View!Justified
  <2>4. AnswersInv'  BY <2>0 DEF AnswersInv, AtOrder, TypeOK
  <2>5. CancelInv'   BY DEF CancelInv
  <2> QED BY <2>1, <2>2, <2>3, <2>4, <2>5
<1>3. CASE CancelFails
  <2> USE <1>3 DEF CancelFails, local, rec
  <2>1. TypeOK'
    BY DEF TypeOK, SubmitPC, RecPC, CancelPC, OrderStatus
  <2>2. ExchangeInv'
    BY DEF ExchangeInv, TypeOK
  <2>3. LedgerInv'
    BY DEF LedgerInv, TypeOK, View!Justified
  <2>4. AnswersInv'
    BY DEF AnswersInv, AtOrder, TypeOK
  <2>5. CancelInv'
    BY DEF CancelInv, TypeOK
  <2> QED BY <2>1, <2>2, <2>3, <2>4, <2>5
<1> QED
  BY <1>1, <1>2, <1>3 DEF CancelStep

\* The exchange moves one order on: what it may change of Inv.
LEMMA DealMoves ==
    ASSUME Inv, NEW i \in Ids, NEW d \in Deal,
           ex[i].st \in {"none", "open"}, req[i] # "none",
           d.st # "none", d.st = "closed" <=> d.filled = Qty,
           d.filled >= ex[i].filled,
           ex' = [ex EXCEPT ![i] = d], req' = [req EXCEPT ![i] = "served"],
           UNCHANGED <<local, sub, rec>>
    PROVE  /\ ex' \in [Ids -> Deal]
           /\ req' \in [Ids -> {"none", "flying", "served"}]
           /\ ExchangeInv' /\ LedgerInv' /\ AnswersInv'
<1> USE DEF Inv, local, rec
<1>0. /\ d.filled \in Nat /\ ex[i].filled \in Nat
      /\ \A j \in Ids : filled[j] \in Nat /\ snap[j].filled \in Nat
      /\ reply.filled \in Nat
      /\ Qty \in Nat
  BY QtyAssumption DEF TypeOK, Deal
<1>1. /\ ex' \in [Ids -> Deal]
      /\ req' \in [Ids -> {"none", "flying", "served"}]
      /\ ex'[i] = d
      /\ \A j \in Ids : j # i => ex'[j] = ex[j]
  BY DEF TypeOK
<1>2. ExchangeInv'
  BY <1>1 DEF ExchangeInv, TypeOK
<1>3. LedgerInv'
  <2> SUFFICES ASSUME NEW j \in Ids
      PROVE  /\ View!Justified(status[j], ex'[j])
             /\ filled[j] <= ex'[j].filled
             /\ status[j] = "none" => filled[j] = 0
             /\ exId[j] => ex'[j].st # "none"
             /\ status[j] = "rejected"
                    => sub[j] = "failed" \/ ex'[j].st = "rejected"
    BY DEF LedgerInv, View!Justified
  <2>1. CASE j # i
    BY <2>1, <1>1 DEF LedgerInv
  <2>2. CASE j = i
    BY <2>2, <1>0, <1>1 DEF LedgerInv, View!Justified
  <2> QED BY <2>1, <2>2
<1>4. AnswersInv'
  <2> SUFFICES ASSUME NEW j \in todo
      PROVE  /\ status[j] # "none"
             /\ rpc \in {"fetched", "loop", "sync", "synced"} /\ snap[j] # NoDeal
                    => /\ snap[j].st = "open" /\ ex'[j].st # "none"
                       /\ snap[j].filled \in filled[j]..ex'[j].filled
                       /\ snap[j].filled < Qty
             /\ rpc \in {"sync", "synced"} /\ AtOrder(j) => exId[j]
             /\ rpc = "synced" /\ AtOrder(j)
                    => /\ reply.st # "none"
                       /\ reply.filled \in filled[j]..ex'[j].filled
                       /\ reply.st = "open" => reply.filled < Qty
                       /\ reply.st # "open" => reply = ex'[j]
    BY DEF AnswersInv, AtOrder
  <2>0. j \in Ids
    BY DEF TypeOK
  <2>1. CASE j # i
    BY <2>0, <2>1, <1>1 DEF AnswersInv
  <2>2. CASE j = i
    BY <2>2, <1>0, <1>1 DEF AnswersInv
  <2> QED BY <2>1, <2>2
<1> QED BY <1>1, <1>2, <1>3, <1>4

\* The steps of the exchange.
LEMMA ExchangeKeepsInv ==
    ASSUME Inv, ExStep
    PROVE  Inv'
<1> USE DEF Inv
<1>0. Qty \in Nat \ {0} /\ 0 \in 0..Qty
  BY QtyAssumption
<1>1. CASE ExListsOpen
  <2> USE <1>1 DEF ExListsOpen, local, can
  <2>1. TypeOK'      BY <1>0 DEF TypeOK, RecPC, Deal, NoDeal, DealStatus
  <2>2. ExchangeInv' BY DEF ExchangeInv
  <2>3. LedgerInv'   BY DEF LedgerInv, View!Justified
  <2>4. AnswersInv'
    <3> SUFFICES ASSUME NEW i \in todo, snap'[i] # NoDeal
        PROVE  /\ snap'[i].st = "open" /\ ex[i].st # "none"
               /\ snap'[i].filled \in filled[i]..ex[i].filled
               /\ snap'[i].filled < Qty
      BY DEF AnswersInv
    <3>1. i \in Ids /\ snap'[i] = ex[i] /\ ex[i].st = "open"
      BY DEF TypeOK
    <3>2. ex[i].filled \in 0..Qty /\ filled[i] \in 0..Qty
      BY <3>1 DEF TypeOK, Deal
    <3> QED BY <3>1, <3>2, <1>0 DEF LedgerInv, ExchangeInv
  <2>5. CancelInv'   BY DEF CancelInv
  <2> QED BY <2>1, <2>2, <2>3, <2>4, <2>5
<1>2. CASE ExCancels
  <2> USE <1>2 DEF ExCancels, local, rec
  <2>0. cid \in Ids /\ ex[cid] \in Deal /\ req[cid] \in {"none", "flying", "served"}
    BY DEF CancelInv, TypeOK
  <2>1. CASE ex[cid].st = "open"
    <3> DEFINE d == [ex[cid] EXCEPT !.st = "canceled"]
    <3>1. /\ d \in Deal /\ d.st = "canceled" /\ d.filled = ex[cid].filled
          /\ ex[cid].filled \in 0..Qty
      BY <2>0 DEF Deal, DealStatus
    <3>2. req[cid] = "served" /\ ex[cid].filled # Qty
      BY <2>0, <2>1 DEF ExchangeInv, NoDeal
    <3>3. req' = [req EXCEPT ![cid] = "served"] /\ ex' = [ex EXCEPT ![cid] = d]
      BY <2>1, <3>2 DEF TypeOK
    <3>4. /\ ex' \in [Ids -> Deal]
          /\ ExchangeInv' /\ LedgerInv' /\ AnswersInv'
      <4>1. d.filled >= ex[cid].filled /\ d.filled # Qty
        BY <3>1, <3>2, <1>0
      <4>2. UNCHANGED <<local, sub, rec>>
        OBVIOUS
      <4> HIDE DEF d
      <4> QED BY <2>0, <2>1, <3>1, <3>2, <3>3, <4>1, <4>2, DealMoves
    <3>5. ex'[cid].st = "canceled"
      BY <2>0, <3>1, <3>3 DEF TypeOK
    <3>6. TypeOK'    BY <2>1, <3>4 DEF TypeOK, CancelPC
    <3>7. CancelInv' BY <3>5 DEF CancelInv
    <3> QED BY <3>4, <3>6, <3>7
  <2>2. CASE ex[cid].st # "open"
    <3> USE <2>2
    <3>1. TypeOK'      BY DEF TypeOK, CancelPC
    <3>2. ExchangeInv' BY DEF ExchangeInv
    <3>3. LedgerInv'   BY DEF LedgerInv, View!Justified
    <3>4. AnswersInv'  BY DEF AnswersInv, AtOrder
    <3>5. CancelInv'   BY DEF CancelInv
    <3> QED BY <3>1, <3>2, <3>3, <3>4, <3>5
  <2> QED BY <2>1, <2>2
<1>3. ASSUME NEW i \in Ids, ExAccepts(i) PROVE Inv'
  <2> USE <1>3 DEF ExAccepts, can
  <2> DEFINE d == [st |-> "open", filled |-> 0]
  <2>1. ex[i] = NoDeal
    BY DEF ExchangeInv
  <2>2. d \in Deal /\ d.st = "open" /\ d.filled = 0 /\ d.filled # Qty
    BY <1>0 DEF Deal, DealStatus
  <2>3. ex' = [ex EXCEPT ![i] = d]
    <3>1. [ex[i] EXCEPT !.st = "open"] = d
      BY <2>1 DEF NoDeal
    <3> QED BY <3>1 DEF TypeOK
  <2>4. d.filled >= ex[i].filled /\ ex[i].st = "none" /\ req[i] # "none"
    BY <2>1, <2>2 DEF NoDeal
  <2>5. /\ ex' \in [Ids -> Deal]
        /\ req' \in [Ids -> {"none", "flying", "served"}]
        /\ ExchangeInv' /\ LedgerInv' /\ AnswersInv'
    <3> HIDE DEF d
    <3> QED BY <2>2, <2>3, <2>4, DealMoves
  <2>6. TypeOK'    BY <2>5 DEF TypeOK, local, rec
  <2>7. CancelInv' BY <2>1, <2>3 DEF CancelInv, TypeOK, NoDeal, local
  <2> QED BY <2>5, <2>6, <2>7
<1>4. ASSUME NEW i \in Ids, ExRefuses(i) PROVE Inv'
  <2> USE <1>4 DEF ExRefuses, local, rec, can
  <2>1. TypeOK'      BY DEF TypeOK
  <2>2. ExchangeInv' BY DEF ExchangeInv, TypeOK
  <2>3. LedgerInv'   BY DEF LedgerInv, View!Justified
  <2>4. AnswersInv'  BY DEF AnswersInv, AtOrder
  <2>5. CancelInv'   BY DEF CancelInv
  <2> QED BY <2>1, <2>2, <2>3, <2>4, <2>5
<1>5. ASSUME NEW i \in Ids, ex[i].st = "open",
             NEW d \in Deal, ex' = [ex EXCEPT ![i] = d],
             d.st # "none", d.st = "closed" <=> d.filled = Qty,
             d.filled >= ex[i].filled,
             UNCHANGED <<local, sub, rec, can, req, crashes>>
      PROVE  Inv'
  <2> USE <1>5 DEF can
  <2>1. req[i] = "served" /\ req' = [req EXCEPT ![i] = "served"]
    BY DEF ExchangeInv, TypeOK, NoDeal
  <2>2. /\ ex' \in [Ids -> Deal]
        /\ ExchangeInv' /\ LedgerInv' /\ AnswersInv'
    BY <2>1, DealMoves
  <2>3. TypeOK'    BY <2>2 DEF TypeOK, local, rec
  <2>4. CancelInv' BY DEF CancelInv, TypeOK, local
  <2> QED BY <2>2, <2>3, <2>4
<1>6. ASSUME NEW i \in Ids, ExFills(i) PROVE Inv'
  <2> DEFINE n == ex[i].filled + 1
             d == [st |-> IF n = Qty THEN "closed" ELSE "open", filled |-> n]
  <2>1. ex[i].st = "open" /\ ex' = [ex EXCEPT ![i] = d]
    BY <1>6 DEF ExFills
  <2>2. ex[i].filled \in 0..Qty /\ ex[i].filled # Qty
    BY <2>1 DEF ExchangeInv, TypeOK, Deal
  <2>3. n \in 0..Qty /\ n >= ex[i].filled
    BY <2>2, <1>0, QtyAssumption
  <2>4. /\ d \in Deal /\ d.st # "none" /\ d.filled = n
        /\ (d.st = "closed" <=> n = Qty)
    BY <2>3 DEF Deal, DealStatus
  <2> HIDE DEF d
  <2> QED BY <1>6, <1>5, <2>1, <2>3, <2>4 DEF ExFills
<1>7. ASSUME NEW i \in Ids, ExEnds(i) PROVE Inv'
  <2>1. PICK e \in Endings : ex' = [ex EXCEPT ![i].st = e]
    BY <1>7 DEF ExEnds
  <2> DEFINE d == [ex[i] EXCEPT !.st = e]
  <2>2. ex[i].st = "open" /\ ex[i] \in Deal
    BY <1>7 DEF ExEnds, TypeOK
  <2>3. e \in {"canceled", "expired", "rejected"}
    BY OMSAssumption
  <2>4. ex' = [ex EXCEPT ![i] = d]
    BY <2>1 DEF TypeOK
  <2>5. d \in Deal /\ d.st = e /\ d.filled = ex[i].filled /\ ex[i].filled \in 0..Qty
    BY <2>2, <2>3 DEF Deal, DealStatus
  <2>6. ex[i].filled # Qty
    BY <2>2 DEF ExchangeInv
  <2>7. d.filled >= ex[i].filled
    BY <2>5, QtyAssumption
  <2> HIDE DEF d
  <2> QED BY <1>7, <1>5, <2>2, <2>3, <2>4, <2>5, <2>6, <2>7 DEF ExEnds
<1>8. ASSUME NEW i \in Ids, ExReports(i) PROVE Inv'
  <2> USE <1>8 DEF ExReports, local, can
  <2>1. TypeOK'      BY DEF TypeOK, RecPC
  <2>2. ExchangeInv' BY DEF ExchangeInv
  <2>3. LedgerInv'   BY DEF LedgerInv, View!Justified
  <2>4. AnswersInv'
    <3>1. i \in Ids /\ \A j \in todo : AtOrder(j) => j = i
      BY DEF AtOrder, TypeOK, Ids
    <3>2. ex[i].filled \in 0..Qty /\ filled[i] \in 0..Qty
      BY DEF TypeOK, Deal
    <3>3. exId[i] /\ ex[i].st # "none" /\ filled[i] <= ex[i].filled
      BY DEF AnswersInv, LedgerInv, AtOrder
    <3>4. ex[i].st = "open" => ex[i].filled < Qty
      BY <3>2, QtyAssumption DEF ExchangeInv
    <3>5. ex[i].filled \in filled[i]..ex[i].filled
      BY <3>2, <3>3, QtyAssumption
    <3> QED BY <3>1, <3>3, <3>4, <3>5 DEF AnswersInv, AtOrder
  <2>5. CancelInv'   BY DEF CancelInv
  <2> QED BY <2>1, <2>2, <2>3, <2>4, <2>5
<1> QED
  BY <1>1, <1>2, <1>3, <1>4, <1>6, <1>7, <1>8 DEF ExStep, ExOrder

\* A crash.
LEMMA CrashKeepsInv ==
    ASSUME Inv, Crash
    PROVE  Inv'
<1> USE DEF Inv, Crash
<1>1. TypeOK'
  BY OMSAssumption, QtyAssumption DEF TypeOK, SubmitPC, RecPC, CancelPC
<1>2. ExchangeInv' BY DEF ExchangeInv
<1>3. LedgerInv'
  BY QtyAssumption DEF LedgerInv, TypeOK, Deal, View!Justified
<1>4. AnswersInv'  BY DEF AnswersInv
<1>5. CancelInv'   BY DEF CancelInv
<1> QED BY <1>1, <1>2, <1>3, <1>4, <1>5

-----------------------------------------------------------------------------
LEMMA NextKeepsInv == Inv /\ [Next]_vars => Inv'
<1> SUFFICES ASSUME Inv, [Next]_vars PROVE Inv'
  OBVIOUS
<1>1. CASE \E i \in Ids : SubmitStep(i)  BY <1>1, SubmitKeepsInv
<1>2. CASE RecStep                       BY <1>2, ReconcileKeepsInv
<1>3. CASE CancelStep                    BY <1>3, CancelKeepsInv
<1>4. CASE ExStep                        BY <1>4, ExchangeKeepsInv
<1>5. CASE Crash                         BY <1>5, CrashKeepsInv
<1>6. CASE UNCHANGED vars
  BY <1>6 DEF vars, local, rec, can, Inv, TypeOK, ExchangeInv, LedgerInv,
              AnswersInv, CancelInv, AtOrder, View!Justified
<1> QED BY <1>1, <1>2, <1>3, <1>4, <1>5, <1>6 DEF Next

\* Every reachable state satisfies the inductive invariant: the types, the
\* exchange's own bookkeeping, our ledger behind the exchange's, answers in
\* flight between the two, and a confirmed cancel.
THEOREM Invariance == Spec => []Inv
<1>1. Init => Inv                  BY Initially
<1>2. Inv /\ [Next]_vars => Inv'   BY NextKeepsInv
<1> QED BY <1>1, <1>2, PTL DEF Spec

-----------------------------------------------------------------------------
\* Only a lost reply or a crash makes an orphan: whatever the interleaving of
\* submit, cancel and reconcile, an order that is live on the exchange and
\* not open here had its create call end in an exception, or died with the
\* process.
THEOREM OrphansAreLostReplies == Spec => []OrphansOnlyByLostReply
<1>1. Inv => OrphansOnlyByLostReply
  <2> SUFFICES ASSUME Inv, NEW i \in Ids, ex[i].st = "open",
                      status[i] \in Terminal \cup {"none"}
               PROVE  sub[i] \in {"failed", "crashed"}
    BY DEF OrphansOnlyByLostReply
  <2>1. CASE status[i] = "none"
    BY <2>1 DEF Inv, TypeOK, SubmitPC, ExchangeInv, NoDeal
  <2>2. CASE status[i] = "rejected"
    BY <2>2 DEF Inv, LedgerInv
  <2>3. CASE status[i] \in {"filled", "cancelled", "expired"}
    BY <2>3 DEF Inv, LedgerInv, View!Justified
  <2> QED BY <2>1, <2>2, <2>3 DEF Terminal
<1> QED BY <1>1, Invariance, PTL

-----------------------------------------------------------------------------
\* The refinement: OMS implements OrderView.
ViewMap == [i \in Ids |-> [st |-> status[i], filled |-> filled[i]]]

\* A step that changes one local order, along the graph, is Learns.
LEMMA LearnStep ==
    ASSUME Inv, Inv', NEW i \in Ids, status[i] # "none",
           status'[i] = status[i] \/ CanMove(status[i], status'[i]),
           status'[i] # "none", filled[i] <= filled'[i],
           \A j \in Ids : j # i => status'[j] = status[j] /\ filled'[j] = filled[j],
           ex' = ex
    PROVE  View!Learns(i)
<1> DEFINE e == [st |-> status'[i], filled |-> filled'[i]]
<1>1. ViewMap' = [ViewMap EXCEPT ![i] = e]
  BY DEF ViewMap
<1>2. e \in View!Entry
  BY DEF View!Entry, View!OrderStatus, OrderStatus, Inv, TypeOK
<1>3. e.st \in {ViewMap[i].st} \cup Transitions[ViewMap[i].st]
  BY DEF ViewMap, CanMove
<1>4. View!Justified(e.st, ex[i])
  BY DEF Inv, LedgerInv, View!Justified
<1>5. e.filled \in ViewMap[i].filled .. ex[i].filled
  BY QtyAssumption DEF ViewMap, Inv, LedgerInv, TypeOK, Deal
<1>6. ViewMap[i].st # "none"
  BY DEF ViewMap
<1> HIDE DEF e
<1> QED
  BY <1>1, <1>2, <1>3, <1>4, <1>5, <1>6
  DEF View!Learns, View!Transitions, Transitions, ViewMap

\* A step that changes one order of the exchange, not yet ended, is Deals.
LEMMA DealStep ==
    ASSUME Inv, Inv', NEW i \in Ids, ex[i].st \in {"none", "open"},
           ex'[i].st # "none", ex'[i].filled >= ex[i].filled,
           \A j \in Ids : j # i => ex'[j] = ex[j],
           UNCHANGED local
    PROVE  View!Deals(i)
<1>1. ex' = [ex EXCEPT ![i] = ex'[i]] /\ ex'[i] \in Deal
  BY DEF Inv, TypeOK
<1>2. ex'[i] \in View!Deal
  BY <1>1 DEF Deal, DealStatus, View!Deal, View!DealStatus
<1> QED
  BY <1>1, <1>2 DEF View!Deals, local

\* Storing an order is Places.
LEMMA PlaceStep ==
    ASSUME Inv, Inv', NEW i \in Ids, StoreAndSend(i),
           sub[i] \in {"unborn", "equity"}, ex' = ex
    PROVE  View!Places(i)
<1>1. status[i] = "none" /\ filled[i] = 0 /\ ex[i].st = "none"
  BY DEF Inv, ExchangeInv, LedgerInv, NoDeal
<1>2. ViewMap' = [ViewMap EXCEPT ![i] = [st |-> "pending", filled |-> 0]]
  BY <1>1 DEF ViewMap, StoreAndSend, Inv, TypeOK
<1>3. ViewMap[i].st = "none"
  BY <1>1 DEF ViewMap
<1> QED BY <1>1, <1>2, <1>3 DEF View!Places, ViewMap

\* Applying a sound report, alone, is Learns.
LEMMA ApplyStep ==
    ASSUME Inv, Inv', NEW i \in Ids, status[i] # "none",
           NEW r, Sound(i, r), Apply(i, r), UNCHANGED <<sub, ex, req>>
    PROVE  View!Learns(i)
<1> DEFINE t == AfterReport(status[i], r)
<1>0. status[i] \in OrderStatus /\ Qty \in Nat
  BY QtyAssumption DEF Inv, TypeOK
<1>1. t \in OrderStatus /\ (t = status[i] \/ CanMove(status[i], t))
  BY <1>0, ReportMoves DEF Sound
<1>2. /\ status'[i] = t
      /\ filled'[i] = (IF r.filled > 0 THEN r.filled ELSE filled[i])
      /\ \A j \in Ids : j # i => status'[j] = status[j] /\ filled'[j] = filled[j]
  BY DEF Apply, Inv, TypeOK
<1>3. filled[i] \in Nat /\ ex[i].filled \in Nat
  BY <1>0 DEF Inv, TypeOK, Deal
<1>4. filled[i] <= filled'[i]
  BY <1>2, <1>3 DEF Sound
<1>5. t # "none"
  BY <1>1 DEF OrderStatus
<1> HIDE DEF t
<1> QED BY <1>1, <1>2, <1>4, <1>5, LearnStep

LEMMA StepsImplement ==
    ASSUME Inv, Inv', [Next]_vars
    PROVE  [View!Next]_View!vars
<1> USE DEF View!Next
<1>0. ASSUME UNCHANGED <<status, filled, ex>> PROVE UNCHANGED View!vars
  BY <1>0 DEF View!vars
<1>1. ASSUME NEW i \in Ids, SubmitStep(i) PROVE [View!Next]_View!vars
  <2>1. CASE SubmitChecked(i) \/ GateRejects(i)
    BY <2>1, <1>0 DEF SubmitChecked, GateRejects, local
  <2>2. CASE SubmitUnchecked(i)
    <3>1. View!Places(i)
      BY <2>2, PlaceStep DEF SubmitUnchecked, NextId
    <3> QED BY <3>1
  <2>3. CASE GateApproves(i)
    <3>1. View!Places(i)
      BY <2>3, PlaceStep DEF GateApproves
    <3> QED BY <3>1
  <2>4. CASE SubmitReturns(i)
    <3>1. CASE CanMove(status[i], "open")
      <4>1. View!Learns(i)
        BY <2>4, <3>1, LearnStep, QtyAssumption
        DEF SubmitReturns, Inv, TypeOK, ExchangeInv
      <4> QED BY <4>1
    <3>2. CASE ~CanMove(status[i], "open")
      BY <2>4, <3>2, <1>0 DEF SubmitReturns
    <3> QED BY <3>1, <3>2
  <2>5. CASE SubmitFails(i)
    <3>1. CASE CanMove(status[i], "rejected")
      <4>1. View!Learns(i)
        BY <2>5, <3>1, LearnStep, QtyAssumption
        DEF SubmitFails, Inv, TypeOK, ExchangeInv
      <4> QED BY <4>1
    <3>2. CASE ~CanMove(status[i], "rejected")
      BY <2>5, <3>2, <1>0 DEF SubmitFails
    <3> QED BY <3>1, <3>2
  <2> QED BY <1>1, <2>1, <2>2, <2>3, <2>4, <2>5 DEF SubmitStep
<1>2. CASE RecStep
  <2>1. CASE RecStart \/ RecResume \/ RecFails
    BY <2>1, <1>0 DEF RecStart, RecResume, RecFails, local
  <2>2. ASSUME NEW i \in Ids, RecListed(i) PROVE [View!Next]_View!vars
    <3>1. View!Learns(i)
      BY <2>2, AnswersSound, ApplyStep DEF RecListed
    <3> QED BY <3>1
  <2>3. ASSUME NEW i \in Ids, RecSynced(i) PROVE [View!Next]_View!vars
    <3>1. View!Learns(i)
      BY <2>3, AnswersSound, ApplyStep DEF RecSynced
    <3> QED BY <3>1
  <2>4. ASSUME NEW i \in Ids, RecUnknown(i) \/ RecMissing(i) \/ RecSyncFails(i)
        PROVE  [View!Next]_View!vars
    BY <2>4, <1>0 DEF RecUnknown, RecMissing, RecSyncFails, local
  <2> QED BY <1>2, <2>1, <2>2, <2>3, <2>4 DEF RecStep, RecOrder
<1>3. CASE CancelStep
  <2>1. CASE CancelReturns
    <3>1. PICK i \in Ids : i = cid /\ status[i] # "none"
      BY <2>1 DEF CancelReturns, Inv, CancelInv
    <3>2. CASE CanMove(status[i], "cancelled")
      <4>1. /\ status' = [status EXCEPT ![i] = "cancelled"]
            /\ UNCHANGED <<filled, ex>>
        BY <2>1, <3>1, <3>2 DEF CancelReturns
      <4>2. View!Learns(i)
        BY <3>1, <3>2, <4>1, LearnStep, QtyAssumption DEF Inv, TypeOK
      <4> QED BY <4>2
    <3>3. CASE ~CanMove(status[i], "cancelled")
      <4>1. status' = status
        BY <2>1, <3>1, <3>3 DEF CancelReturns, Inv, TypeOK
      <4> QED BY <2>1, <4>1, <1>0 DEF CancelReturns
    <3> QED BY <3>2, <3>3
  <2>2. CASE CancelFails \/ \E i \in Ids : CancelCall(i)
    BY <2>2, <1>0 DEF CancelFails, CancelCall, local
  <2> QED BY <1>3, <2>1, <2>2 DEF CancelStep
<1>4. CASE ExStep
  <2>0. \A i \in Ids : ex[i].filled \in Nat
    BY QtyAssumption DEF Inv, TypeOK, Deal
  <2>1. CASE ExListsOpen
    BY <2>1, <1>0 DEF ExListsOpen, local
  <2>2. CASE ExCancels
    <3>1. CASE ex[cid].st = "open"
      <4>1. PICK i \in Ids : i = cid
        BY <2>2 DEF ExCancels, Inv, CancelInv
      <4>2. ex' = [ex EXCEPT ![i].st = "canceled"] /\ UNCHANGED local
        BY <2>2, <3>1, <4>1 DEF ExCancels
      <4>3. /\ ex'[i].st # "none" /\ ex'[i].filled >= ex[i].filled
            /\ \A j \in Ids : j # i => ex'[j] = ex[j]
        BY <4>2, <2>0 DEF Inv, TypeOK, Deal
      <4>4. View!Deals(i)
        BY <3>1, <4>1, <4>2, <4>3, DealStep
      <4> QED BY <4>4
    <3>2. CASE ex[cid].st # "open"
      BY <2>2, <3>2, <1>0 DEF ExCancels, local
    <3> QED BY <3>1, <3>2
  <2>3. ASSUME NEW i \in Ids, ExAccepts(i) \/ ExFills(i) \/ ExEnds(i)
        PROVE  [View!Next]_View!vars
    <3>1. ex[i].st \in {"none", "open"} /\ UNCHANGED local
      BY <2>3 DEF ExAccepts, ExFills, ExEnds, Inv, ExchangeInv, NoDeal
    <3>2. /\ ex'[i].st # "none" /\ ex'[i].filled >= ex[i].filled
          /\ \A j \in Ids : j # i => ex'[j] = ex[j]
      <4>1. CASE ExAccepts(i)
        BY <4>1, <2>0 DEF ExAccepts, Inv, TypeOK, Deal
      <4>2. CASE ExFills(i)
        BY <4>2, <2>0 DEF ExFills, Inv, TypeOK
      <4>3. CASE ExEnds(i)
        BY <4>3, <2>0, OMSAssumption DEF ExEnds, Inv, TypeOK, Deal
      <4> QED BY <2>3, <4>1, <4>2, <4>3
    <3>3. View!Deals(i)
      BY <3>1, <3>2, DealStep
    <3> QED BY <3>3
  <2>4. ASSUME NEW i \in Ids, ExRefuses(i) \/ ExReports(i)
        PROVE  [View!Next]_View!vars
    BY <2>4, <1>0 DEF ExRefuses, ExReports, local
  <2> QED BY <1>4, <2>1, <2>2, <2>3, <2>4 DEF ExStep, ExOrder
<1>5. CASE Crash
  <2>1. ViewMap' = [i \in Ids |-> View!NoEntry]
    BY <1>5 DEF Crash, ViewMap, View!NoEntry
  <2>2. View!Forgets
    BY <1>5, <2>1 DEF View!Forgets, Crash, ViewMap
  <2> QED BY <2>2
<1>6. CASE UNCHANGED vars
  BY <1>6, <1>0 DEF vars, local
<1> QED BY <1>1, <1>2, <1>3, <1>4, <1>5, <1>6 DEF Next

\* The order management system implements OrderView: whatever replies are
\* late, lost or stale, our ledger of orders follows the transition graph and
\* never runs ahead of the exchange's.
THEOREM Refinement == Spec => RefinesView
<1>1. Init => View!Init
  BY DEF Init, View!Init, View!NoDeal, View!NoEntry, NoDeal
<1>2. Inv /\ Inv' /\ [Next]_vars => [View!Next]_View!vars
  BY StepsImplement
<1> QED
  BY <1>1, <1>2, Invariance, PTL DEF Spec, RefinesView, View!Spec

-----------------------------------------------------------------------------
\* The limit on open orders, when every call is checked by the gate, no reply is
\* lost and the process does not die.
NothingLost == Timeouts = {} /\ MaxCrashes = 0 /\ Unchecked = FALSE

\* Why: a request is on the wire as long as its call waits for it, and a call
\* that failed left no order.
WireInv ==
    \A i \in Ids :
        /\ req[i] = "flying" => sub[i] = "sending"
        /\ sub[i] = "failed" => req[i] = "served" /\ ex[i].st = "none"
        /\ sub[i] # "crashed"

\* Hence the orders that are live or on the wire are open here.
LEMMA LiveAreOpen ==
    ASSUME Inv, WireInv, NEW i \in Ids, ex[i].st = "open" \/ req[i] = "flying"
    PROVE  i \in OpenOrders
<1> SUFFICES status[i] \notin Terminal \cup {"none"}
  BY DEF OpenOrders
<1>1. status[i] # "none"
  BY DEF Inv, TypeOK, SubmitPC, ExchangeInv, WireInv, NoDeal
<1>2. status[i] # "rejected"
  BY DEF Inv, LedgerInv, ExchangeInv, WireInv, NoDeal
<1>3. status[i] \notin {"filled", "cancelled", "expired"}
  BY DEF Inv, LedgerInv, ExchangeInv, View!Justified, NoDeal
<1> QED BY <1>1, <1>2, <1>3 DEF Terminal

LEMMA WireNext ==
    ASSUME NothingLost, Inv, WireInv, [Next]_vars
    PROVE  WireInv'
<1> USE DEF NothingLost, Inv
<1>1. ASSUME NEW i \in Ids, SubmitStep(i) PROVE WireInv'
  <2>1. CASE SubmitChecked(i) \/ GateRejects(i)
    BY <2>1 DEF SubmitChecked, GateRejects, NextId, WireInv, ExchangeInv, TypeOK
  <2>2. CASE GateApproves(i)
    BY <2>2 DEF GateApproves, StoreAndSend, WireInv, TypeOK
  <2>3. CASE SubmitReturns(i)
    BY <2>3 DEF SubmitReturns, WireInv, TypeOK
  <2>4. CASE SubmitFails(i)
    BY <2>4 DEF SubmitFails, WireInv, TypeOK
  <2> QED BY <1>1, <2>1, <2>2, <2>3, <2>4 DEF SubmitStep, SubmitUnchecked
<1>2. CASE RecStep \/ CancelStep
  <2>1. UNCHANGED <<sub, ex, req>>
    BY <1>2 DEF RecStep, RecStart, RecResume, RecFails, RecOrder, RecListed,
                RecUnknown, RecMissing, RecSynced, RecSyncFails, CancelStep,
                CancelReturns, CancelFails, CancelCall
  <2> QED BY <2>1 DEF WireInv
<1>3. CASE ExStep
  <2>1. CASE ExListsOpen
    BY <2>1 DEF ExListsOpen, WireInv
  <2>2. CASE ExCancels
    BY <2>2 DEF ExCancels, WireInv, TypeOK, CancelInv
  <2>3. ASSUME NEW i \in Ids, ExOrder(i) PROVE WireInv'
    <3>1. CASE ExAccepts(i) \/ ExRefuses(i)
      BY <3>1 DEF ExAccepts, ExRefuses, WireInv, TypeOK, ExchangeInv
    <3>2. CASE ExFills(i) \/ ExEnds(i)
      BY <3>2 DEF ExFills, ExEnds, WireInv, TypeOK
    <3>3. CASE ExReports(i)
      BY <3>3 DEF ExReports, WireInv
    <3> QED BY <2>3, <3>1, <3>2, <3>3 DEF ExOrder
  <2> QED BY <1>3, <2>1, <2>2, <2>3 DEF ExStep
<1>4. ~Crash
  BY DEF Crash, TypeOK
<1>5. CASE UNCHANGED vars
  BY <1>5 DEF vars, WireInv
<1> QED BY <1>1, <1>2, <1>3, <1>4, <1>5 DEF Next

\* A terminal order stays as it is, whatever is applied to it.
LEMMA TerminalStays ==
    ASSUME NEW s \in Terminal
    PROVE  (\A t : ~CanMove(s, t)) /\ \A r : AfterReport(s, r) = s
<1>1. \A t : ~CanMove(s, t)
  BY Edges DEF Terminal, OrderStatus
<1>2. \A n : AfterFill(s, n) = s
  BY <1>1 DEF AfterFill, Terminal
<1> QED BY <1>1, <1>2 DEF AfterReport

\* Only the gate's approval opens an order.
LEMMA OpenShrinks ==
    ASSUME NothingLost, Inv, [Next]_vars, ~\E i \in Ids : GateApproves(i)
    PROVE  OpenOrders' \subseteq OpenOrders
<1> SUFFICES ASSUME NEW j \in Ids, status[j] \in Terminal \cup {"none"}
             PROVE  status'[j] = status[j]
  BY DEF OpenOrders
<1> USE DEF Inv
<1>1. status[j] # "none" => /\ \A t : ~CanMove(status[j], t)
                            /\ \A r : AfterReport(status[j], r) = status[j]
  BY TerminalStays
<1>2. ASSUME NEW i \in Ids, SubmitStep(i) PROVE status'[j] = status[j]
  <2>1. CASE SubmitChecked(i) \/ GateRejects(i)
    BY <2>1 DEF SubmitChecked, GateRejects, local
  <2>2. CASE SubmitReturns(i)
    BY <1>1, <2>2 DEF SubmitReturns, ExchangeInv, TypeOK
  <2>3. CASE SubmitFails(i)
    BY <1>1, <2>3 DEF SubmitFails, ExchangeInv, TypeOK
  <2> QED BY <1>2, <2>1, <2>2, <2>3 DEF SubmitStep, SubmitUnchecked, NothingLost
<1>3. CASE RecStep
  <2>1. ASSUME NEW i \in Ids, NEW r, i \in todo, Apply(i, r)
        PROVE  status'[j] = status[j]
    <3>1. status[i] # "none"
      BY <2>1 DEF AnswersInv
    <3>2. status' = [status EXCEPT ![i] = AfterReport(status[i], r)]
      BY <2>1 DEF Apply
    <3> QED BY <1>1, <3>1, <3>2 DEF TypeOK
  <2>2. ASSUME NEW i \in Ids, RecOrder(i) PROVE status'[j] = status[j]
    <3>1. CASE RecListed(i) \/ RecSynced(i)
      BY <2>1, <3>1 DEF RecListed, RecSynced, AtOrder
    <3>2. CASE RecUnknown(i) \/ RecMissing(i) \/ RecSyncFails(i)
      BY <3>2 DEF RecUnknown, RecMissing, RecSyncFails, local
    <3> QED BY <2>2, <3>1, <3>2 DEF RecOrder
  <2>3. CASE RecStart \/ RecResume \/ RecFails
    BY <2>3 DEF RecStart, RecResume, RecFails, local
  <2> QED BY <1>3, <2>2, <2>3 DEF RecStep
<1>4. CASE CancelStep
  <2>1. CASE CancelReturns
    BY <1>1, <2>1 DEF CancelReturns, CancelInv, TypeOK
  <2>2. CASE CancelFails \/ \E i \in Ids : CancelCall(i)
    BY <2>2 DEF CancelFails, CancelCall, local
  <2> QED BY <1>4, <2>1, <2>2 DEF CancelStep
<1>5. CASE ExStep
  BY <1>5 DEF ExStep, ExListsOpen, ExCancels, ExOrder, ExAccepts, ExRefuses,
              ExFills, ExEnds, ExReports, local
<1>6. ~Crash
  BY DEF Crash, NothingLost, TypeOK
<1>7. CASE UNCHANGED vars
  BY <1>7 DEF vars, local
<1> QED BY <1>2, <1>3, <1>4, <1>5, <1>6, <1>7 DEF Next

LEMMA OpenFinite == IsFiniteSet(OpenOrders) /\ Cardinality(OpenOrders) \in Nat
<1>1. IsFiniteSet(Ids)
  BY FS_Interval, OMSAssumption DEF Ids
<1>2. OpenOrders \in SUBSET Ids
  BY DEF OpenOrders
<1>3. IsFiniteSet(OpenOrders)
  BY <1>1, <1>2, FS_Subset
<1> QED BY <1>3, FS_CardinalityType

\* It opens one, and only below the limit.
LEMMA OpenBounded ==
    ASSUME NothingLost, Inv, [Next]_vars, Cardinality(OpenOrders) <= MaxOpen
    PROVE  Cardinality(OpenOrders') <= MaxOpen
<1>1. IsFiniteSet(OpenOrders) /\ Cardinality(OpenOrders) \in Nat
  BY OpenFinite
<1>2. CASE ~\E i \in Ids : GateApproves(i)
  <2>1. OpenOrders' \subseteq OpenOrders
    BY <1>2, OpenShrinks
  <2>2. Cardinality(OpenOrders') \in Nat /\ Cardinality(OpenOrders') <= Cardinality(OpenOrders)
    BY <1>1, <2>1, FS_Subset, FS_CardinalityType
  <2> QED BY <1>1, <2>2, OMSAssumption
<1>3. ASSUME NEW i \in Ids, GateApproves(i)
      PROVE  Cardinality(OpenOrders') <= MaxOpen
  <2>1. Cardinality(OpenOrders) < MaxOpen
    BY <1>3 DEF GateApproves
  <2>2. OpenOrders' \subseteq OpenOrders \cup {i}
    BY <1>3 DEF GateApproves, StoreAndSend, OpenOrders, Inv, TypeOK
  <2>3. /\ IsFiniteSet(OpenOrders \cup {i})
        /\ Cardinality(OpenOrders \cup {i}) \in Nat
        /\ Cardinality(OpenOrders \cup {i}) <= Cardinality(OpenOrders) + 1
    <3>1. IsFiniteSet(OpenOrders \cup {i})
      BY <1>1, FS_AddElement
    <3>2. Cardinality(OpenOrders \cup {i})
             = IF i \in OpenOrders THEN Cardinality(OpenOrders)
                                   ELSE Cardinality(OpenOrders) + 1
      BY <1>1, FS_AddElement, Zenon
    <3>3. Cardinality(OpenOrders \cup {i}) \in Nat
      BY <3>1, FS_CardinalityType
    <3> QED BY <1>1, <3>1, <3>2, <3>3
  <2>4. /\ Cardinality(OpenOrders') \in Nat
        /\ Cardinality(OpenOrders') <= Cardinality(OpenOrders \cup {i})
    BY <2>2, <2>3, FS_Subset, FS_CardinalityType
  <2> QED BY <1>1, <2>1, <2>3, <2>4, OMSAssumption
<1> QED BY <1>2, <1>3

\* If no reply is lost, the exchange has no more live orders of ours, those on
\* the wire included, than the gate allows (oms.py:218).
THEOREM LiveBoundAlways == ASSUME NothingLost PROVE Spec => []LiveBound
<1> DEFINE BoundInv == WireInv /\ Cardinality(OpenOrders) <= MaxOpen
<1>1. Init => BoundInv
  <2> SUFFICES ASSUME Init PROVE BoundInv
    OBVIOUS
  <2>1. WireInv
    BY DEF Init, WireInv
  <2>2. OpenOrders = {}
    BY DEF Init, OpenOrders
  <2> QED BY <2>1, <2>2, FS_EmptySet, OMSAssumption
<1>2. Inv /\ BoundInv /\ [Next]_vars => BoundInv'
  BY WireNext, OpenBounded
<1>3. Inv /\ BoundInv => LiveBound
  <2> SUFFICES ASSUME Inv, BoundInv PROVE LiveBound
    OBVIOUS
  <2> DEFINE live == {i \in Ids : ex[i].st = "open" \/ req[i] = "flying"}
  <2>1. live \subseteq OpenOrders
    BY LiveAreOpen
  <2>2. IsFiniteSet(OpenOrders)
    BY OpenFinite
  <2>3. /\ Cardinality(live) \in Nat /\ Cardinality(OpenOrders) \in Nat
        /\ Cardinality(live) <= Cardinality(OpenOrders)
    BY <2>1, <2>2, FS_Subset, FS_CardinalityType
  <2> QED BY <2>3, OMSAssumption DEF LiveBound
<1> QED BY <1>1, <1>2, <1>3, Invariance, PTL DEF Spec

-----------------------------------------------------------------------------
\* The fills of ended orders, when nobody cancels.  A cancel marks an order
\* without asking for what was filled before.
Settled == {"filled", "cancelled", "expired"}

SettledInv ==
    /\ cpc = "idle" /\ TerminalLedger
    /\ \A i \in todo : status[i] \notin Settled

\* A report settles an order only if it is the last, of an order that has ended.
LEMMA ReportSettles ==
    ASSUME NEW s \in OrderStatus \ Settled, NEW r \in Deal,
           r.st = "open" => r.filled < Qty,
           AfterReport(s, r) \in Settled
    PROVE  r.st # "open"
<1> SUFFICES ASSUME r.st = "open" PROVE FALSE
  OBVIOUS
<1>1. r.filled \in 0..Qty /\ r.filled # Qty
  BY QtyAssumption DEF Deal
<1>2. AfterFill(s, r.filled) \in {s, "partial"}
  BY <1>1 DEF AfterFill
<1>3. AfterReport(s, r) \in {s, "partial", "open"}
  BY <1>2, Mapped DEF AfterReport
<1> QED BY <1>3 DEF Settled

\* What the reconciler applies keeps our fills of settled orders complete.
LEMMA ApplySettles ==
    ASSUME Inv, SettledInv, NEW i \in todo, NEW r \in Deal, Apply(i, r),
           r.st = "open" => r.filled < Qty,
           r.st # "open" => r = ex[i],
           UNCHANGED <<ex, cpc>>, todo' \subseteq todo \ {i}
    PROVE  SettledInv'
<1> USE DEF Inv
<1>1. i \in Ids /\ status[i] \in OrderStatus \ Settled
  BY DEF TypeOK, AnswersInv, SettledInv
<1>2. /\ status' = [status EXCEPT ![i] = AfterReport(status[i], r)]
      /\ filled' = [filled EXCEPT ![i] = IF r.filled > 0 THEN r.filled
                                                        ELSE filled[i]]
  BY DEF Apply
<1>3. ASSUME AfterReport(status[i], r) \in Settled
      PROVE  filled'[i] = ex[i].filled
  <2>1. r = ex[i]
    BY <1>1, <1>3, ReportSettles
  <2>2. filled[i] \in Nat /\ ex[i].filled \in Nat /\ filled[i] <= ex[i].filled
    BY <1>1, QtyAssumption DEF TypeOK, Deal, LedgerInv
  <2>3. filled'[i] = IF ex[i].filled > 0 THEN ex[i].filled ELSE filled[i]
    BY <1>1, <1>2, <2>1 DEF TypeOK
  <2> QED BY <2>2, <2>3
<1>4. TerminalLedger'
  <2> SUFFICES ASSUME NEW j \in Ids, status'[j] \in Settled
               PROVE  filled'[j] = ex[j].filled
    BY DEF TerminalLedger, Settled
  <2>1. CASE j = i
    BY <1>1, <1>2, <1>3, <2>1 DEF TypeOK
  <2>2. CASE j # i
    <3>1. status'[j] = status[j] /\ filled'[j] = filled[j]
      BY <1>2, <2>2 DEF TypeOK
    <3> QED BY <3>1 DEF SettledInv, TerminalLedger, Settled
  <2> QED BY <2>1, <2>2
<1>5. ASSUME NEW j \in todo' PROVE status'[j] \notin Settled
  <2>1. j \in todo /\ j # i /\ j \in Ids
    BY <1>5 DEF TypeOK
  <2> QED BY <1>2, <2>1 DEF TypeOK, SettledInv
<1> QED BY <1>4, <1>5 DEF SettledInv

LEMMA SettledNext ==
    ASSUME MaxCancels = 0, Inv, SettledInv, [Next]_vars
    PROVE  SettledInv'
<1> USE DEF Inv
<1>1. ASSUME NEW i \in Ids, SubmitStep(i) PROVE SettledInv'
  <2>1. UNCHANGED <<filled, ex, todo, cpc>>
    BY <1>1 DEF SubmitStep, SubmitChecked, SubmitUnchecked, GateApproves,
                GateRejects, SubmitReturns, SubmitFails, StoreAndSend, local,
                rec, can
  <2>2. \A j \in Ids : status'[j] = status[j] \/ status'[j] \notin Settled
    BY <1>1 DEF SubmitStep, SubmitChecked, SubmitUnchecked, GateApproves,
                GateRejects, SubmitReturns, SubmitFails, StoreAndSend, local,
                TypeOK, Settled
  <2> QED BY <2>1, <2>2 DEF SettledInv, TerminalLedger, Settled, TypeOK
<1>2. ASSUME UNCHANGED <<status, filled, ex, cpc>>, todo' \subseteq todo
      PROVE  SettledInv'
  BY <1>2 DEF SettledInv, TerminalLedger
<1>3. CASE RecStep
  <2>1. CASE RecStart
    BY <2>1 DEF RecStart, SettledInv, TerminalLedger, OpenOrders, Terminal,
                Settled, local, can
  <2>2. CASE RecResume \/ RecFails
    BY <1>2, <2>2 DEF RecResume, RecFails, local, can
  <2>3. ASSUME NEW i \in Ids, RecListed(i) PROVE SettledInv'
    <3>1. snap[i] \in Deal /\ snap[i].st = "open" /\ snap[i].filled < Qty
      BY <2>3 DEF RecListed, AtOrder, AnswersInv, TypeOK
    <3>2. i \in todo /\ Apply(i, snap[i]) /\ UNCHANGED <<ex, cpc>>
          /\ todo' \subseteq todo \ {i}
      BY <2>3 DEF RecListed, AtOrder, Treated, can
    <3> QED BY <3>1, <3>2, ApplySettles
  <2>4. ASSUME NEW i \in Ids, RecSynced(i) PROVE SettledInv'
    <3>1. /\ reply \in Deal
          /\ reply.st = "open" => reply.filled < Qty
          /\ reply.st # "open" => reply = ex[i]
      BY <2>4 DEF RecSynced, AtOrder, AnswersInv, TypeOK
    <3>2. i \in todo /\ Apply(i, reply) /\ UNCHANGED <<ex, cpc>>
          /\ todo' \subseteq todo \ {i}
      BY <2>4 DEF RecSynced, AtOrder, Treated, can
    <3> QED BY <3>1, <3>2, ApplySettles
  <2>5. ASSUME NEW i \in Ids, RecUnknown(i) \/ RecMissing(i) \/ RecSyncFails(i)
        PROVE  SettledInv'
    BY <1>2, <2>5 DEF RecUnknown, RecMissing, RecSyncFails, Treated, local, can
  <2> QED BY <1>3, <2>1, <2>2, <2>3, <2>4, <2>5 DEF RecStep, RecOrder
<1>4. ~CancelStep /\ ~ExCancels
  BY DEF CancelStep, CancelReturns, CancelFails, CancelCall, ExCancels,
         SettledInv, TypeOK
<1>5. ASSUME NEW i \in Ids, ExOrder(i) PROVE SettledInv'
  <2>1. UNCHANGED <<status, filled, cpc, todo>>
    BY <1>5 DEF ExOrder, ExAccepts, ExRefuses, ExFills, ExEnds, ExReports,
                local, rec, can
  <2>2. CASE ExAccepts(i) \/ ExFills(i) \/ ExEnds(i)
    <3>1. ex[i].st \in {"none", "open"} /\ \A j \in Ids : j # i => ex'[j] = ex[j]
      BY <2>2 DEF ExAccepts, ExFills, ExEnds, ExchangeInv, NoDeal, TypeOK
    <3>2. status[i] \notin Settled
      BY <3>1 DEF LedgerInv, View!Justified, Settled
    <3> QED BY <2>1, <3>1, <3>2 DEF SettledInv, TerminalLedger, Settled
  <2>3. CASE ExRefuses(i) \/ ExReports(i)
    BY <1>2, <2>1, <2>3 DEF ExRefuses, ExReports
  <2> QED BY <1>5, <2>2, <2>3 DEF ExOrder
<1>6. CASE ExListsOpen
  BY <1>2, <1>6 DEF ExListsOpen, local, can
<1>7. CASE Crash
  BY <1>7 DEF Crash, SettledInv, TerminalLedger, Settled
<1>8. CASE UNCHANGED vars
  BY <1>2, <1>8 DEF vars, local, rec, can
<1> QED BY <1>1, <1>3, <1>4, <1>5, <1>6, <1>7, <1>8 DEF Next, ExStep

\* If nobody cancels, an order that we hold as filled, cancelled or expired
\* carries all its fills, whatever replies are lost and processes die: its end
\* is only ever read from the exchange's last word on it (oms.py:193).
THEOREM TerminalLedgerAlways ==
    ASSUME MaxCancels = 0
    PROVE  Spec => []TerminalLedger
<1>1. Init => SettledInv
  BY DEF Init, SettledInv, TerminalLedger, Settled
<1>2. Inv /\ SettledInv /\ [Next]_vars => SettledInv'
  BY SettledNext
<1>3. SettledInv => TerminalLedger
  BY DEF SettledInv
<1> QED BY <1>1, <1>2, <1>3, Invariance, PTL DEF Spec
=============================================================================
