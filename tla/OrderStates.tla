---------------------------- MODULE OrderStates ----------------------------
(***************************************************************************)
(* The order state machine of backend/app/oms/order.py: the statuses, the  *)
(* graph of legal transitions, and the two methods that move an order      *)
(* (transition, apply_fill), as pure operators on a status.  Quantities    *)
(* are counted in lots; every order asks for Qty of them.                  *)
(***************************************************************************)
EXTENDS Naturals, FiniteSets

CONSTANT Qty            \* lots an order asks for (Order.qty)

ASSUME QtyAssumption == Qty \in Nat \ {0}

OrderStatus == {"pending", "open", "partial", "filled",
                "cancelled", "rejected", "expired"}

\* The graph _TRANSITIONS.
Transitions ==
    [pending   |-> {"open", "rejected", "cancelled"},
     open      |-> {"partial", "filled", "cancelled", "expired"},
     partial   |-> {"filled", "cancelled"},
     filled    |-> {}, cancelled |-> {}, rejected |-> {}, expired |-> {}]

\* Order.is_terminal.
Terminal == {"filled", "cancelled", "rejected", "expired"}

\* Order.transition(t) returns from status s; otherwise it raises ValueError
\* and leaves the order alone.
CanMove(s, t) == t \in Transitions[s]

\* Mutant of AfterFill: any fill is taken for the whole order.
AfterFillWhole(s, n) ==
    IF n > 0 /\ CanMove(s, "filled") THEN "filled" ELSE s

\* Order.apply_fill(n) on an order in status s: the status it leaves ...
AfterFill(s, n) ==
    CASE n = Qty /\ CanMove(s, "filled")        -> "filled"
      [] n \in 1..(Qty - 1) /\ s = "open"       -> "partial"
      [] OTHER                                  -> s

\* ... and whether it raises (after it has stored the quantity).
FillRaises(s, n) == n = Qty /\ ~CanMove(s, "filled")
=============================================================================
