------------------------------- MODULE MCApi --------------------------------
(***************************************************************************)
(* One instance for TLC of four parts behind the API, which share no state *)
(* in the models: the registry of models, the schema of the database, the  *)
(* cross-validation splitters and the backtester.  A behavior is one of a  *)
(* single part, with the others at rest; in the registry at rest no job is *)
(* there that fairness would ask to go on.                                 *)
(***************************************************************************)
EXTENDS MCModelRegistry, Schema, MCSplits, MCBacktest

VARIABLE part       \* which of the four moves

\* Arbitrary arguments of the tools that are not called.
AtRest == /\ part # "splits" => call = CHOOSE c \in WalkCalls : TRUE
          /\ part # "backtest" =>
                bars = 0 /\ config = CHOOSE c \in Configs : TRUE
          /\ part # "registry" => taskFirst = CHOOSE b \in TaskFirst : TRUE

ApiInit ==
    /\ Init /\ SchemaInit /\ SplitsInit /\ BacktestInit
    /\ part \in {"registry", "schema", "splits", "backtest"}
    /\ AtRest

ApiNext ==
    \/ /\ part = "registry" /\ Next
       /\ UNCHANGED <<part, schemaVars, splitsVars, backtest>>
    \/ /\ part = "schema" /\ SchemaNext
       /\ UNCHANGED <<part, vars, splitsVars, backtest>>
    \/ /\ part = "splits" /\ SplitsNext
       /\ UNCHANGED <<part, vars, schemaVars, backtest>>
    \/ /\ part = "backtest" /\ BacktestNext
       /\ UNCHANGED <<part, vars, schemaVars, splitsVars>>

ApiSpec ==
    /\ ApiInit /\ [][ApiNext]_<<part, vars, schemaVars, splitsVars, backtest>>
    /\ Fairness
=============================================================================
