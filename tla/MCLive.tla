------------------------------- MODULE MCLive -------------------------------
(***************************************************************************)
(* One instance for TLC of two parts of the live process that share no     *)
(* state in the model, the process itself and its risk gate: a behavior is *)
(* one of the first, with the second at rest, or the other way round.      *)
(***************************************************************************)
EXTENDS MCTrader, MCRiskGate

VARIABLE part       \* which of the two moves

\* No process runs, and none is started.
TraderRests ==
    /\ up = FALSE /\ running = TRUE /\ trading = TRUE
    /\ model = TRUE /\ gateOn = TRUE
    /\ done = {} /\ listener = "subscribe" /\ inbox = <<>> /\ bar = "watch"
    /\ late = NoLate /\ told = FALSE
    /\ wire = 0 /\ book = 0 /\ pos = FALSE
    /\ sent = 0 /\ msgs = 0 /\ crashes = 0 /\ signals = 0

LiveInit ==
    /\ GateInit
    /\ \/ part = "trader" /\ Init
       \/ part = "gate" /\ TraderRests

LiveNext ==
    \/ part = "trader" /\ Next /\ UNCHANGED <<part, gateVars>>
    \/ part = "gate" /\ GateNext /\ UNCHANGED <<part, vars>>

LiveSpec ==
    /\ LiveInit /\ [][LiveNext]_<<part, vars, gateVars>>
    /\ Fairness
=============================================================================
