------------------------------- MODULE MCOMS -------------------------------
(***************************************************************************)
(* Small instances of OMS for TLC.                                         *)
(***************************************************************************)
EXTENDS OMS

NoCalls  == {}
AllCalls == ExCalls
SilentEndings == {"expired", "rejected"}
OnlyCanceled == {"canceled"}
=============================================================================
