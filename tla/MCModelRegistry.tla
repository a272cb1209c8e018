-------------------------- MODULE MCModelRegistry --------------------------
(***************************************************************************)
(* Small instances of ModelRegistry for TLC.                               *)
(***************************************************************************)
EXTENDS ModelRegistry

OneStrategy == [m \in Models |-> "s"]
=============================================================================
