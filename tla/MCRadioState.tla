----------------------------- MODULE MCRadioState -----------------------------
(***************************************************************************)
(* RadioState for TLC.                                                     *)
(***************************************************************************)
EXTENDS RadioState

CONSTANT dispatch

AllStates == {"notready", "ready", "locked"}
=============================================================================
