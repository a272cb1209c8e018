------------------------------ MODULE MCTrader ------------------------------
(***************************************************************************)
(* Small instances of Trader for TLC.  The listener treats all that the    *)
(* API publishes alike, so that one such message stands for the three.     *)
(***************************************************************************)
EXTENDS Trader

ApiKill     == [key : {"cmd"}, value : {"kill_switch"}]
AllMessages == ApiKill \cup RawMessages \cup {BadMessage}
JustKill    == [key : {"action"}, value : {"kill"}]
=============================================================================
