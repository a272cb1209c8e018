----------------------------- MODULE OrderView -----------------------------
(***************************************************************************)
(* What the order management system promises, without coroutines, requests *)
(* or replies: two ledgers, the exchange's and ours.  The exchange's moves *)
(* by itself.  Ours may lag behind it and may be lost in a crash, but it   *)
(* follows the transition graph and never runs ahead: it records a fill, a *)
(* cancellation or an expiry only when the exchange's ledger already has   *)
(* it.  The one status it may assign without the exchange is "rejected".   *)
(***************************************************************************)
EXTENDS OrderStates

CONSTANT Ids            \* client order ids

VARIABLES
    truth,              \* the exchange: [Ids -> Deal]
    view                \* this process: [Ids -> Entry]

vars == <<truth, view>>

DealStatus == {"none", "open", "closed", "canceled", "expired", "rejected"}
Deal  == [st : DealStatus, filled : 0..Qty]
Entry == [st : OrderStatus \cup {"none"}, filled : 0..Qty]

NoDeal  == [st |-> "none", filled |-> 0]
NoEntry == [st |-> "none", filled |-> 0]

\* What the exchange's record d must say for ours to have status s.
Justified(s, d) ==
    CASE s = "open"      -> d.st # "none"
      [] s = "partial"   -> d.filled > 0
      [] s = "filled"    -> d.st = "closed" /\ d.filled = Qty
      [] s = "cancelled" -> d.st = "canceled"
      [] s = "expired"   -> d.st = "expired"
      [] OTHER           -> TRUE

Init == /\ truth = [i \in Ids |-> NoDeal]
        /\ view  = [i \in Ids |-> NoEntry]

\* The exchange takes an order, fills part of it, or ends it.  What has ended
\* stays as it is.
Deals(i) ==
    /\ truth[i].st \in {"none", "open"}
    /\ \E d \in Deal :
          /\ d.st # "none"
          /\ d.filled >= truth[i].filled
          /\ truth' = [truth EXCEPT ![i] = d]
    /\ UNCHANGED view

\* We create an entry, always before the exchange has the order.
Places(i) ==
    /\ view[i].st = "none" /\ truth[i].st = "none"
    /\ view' = [view EXCEPT ![i] = [st |-> "pending", filled |-> 0]]
    /\ UNCHANGED truth

\* We learn something of an order we hold.
Learns(i) ==
    /\ view[i].st # "none"
    /\ \E e \in Entry :
          /\ e.st \in {view[i].st} \cup Transitions[view[i].st]
          /\ Justified(e.st, truth[i])
          /\ e.filled \in view[i].filled .. truth[i].filled
          /\ view' = [view EXCEPT ![i] = e]
    /\ UNCHANGED truth

\* The process dies, and all entries with it.
Forgets ==
    /\ view' = [i \in Ids |-> NoEntry]
    /\ UNCHANGED truth

Next == \/ \E i \in Ids : Deals(i) \/ Places(i) \/ Learns(i)
        \/ Forgets

Spec == Init /\ [][Next]_vars
=============================================================================
