----------------------------- MODULE MCRiskGate -----------------------------
(***************************************************************************)
(* Small instances of RiskGate for TLC.  An equity of 0 meets the division *)
(* by zero, 100 to 95 exceeds the daily loss limit only, 100 to 80 both.   *)
(***************************************************************************)
EXTENDS RiskGate

SomeEquities == {0, 80, 95, 100}
SomeWeights  == {50, 150}
=============================================================================
