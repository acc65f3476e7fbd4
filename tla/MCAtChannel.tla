----------------------------- MODULE MCAtChannel -----------------------------
(***************************************************************************)
(* AtChannel for TLC.  The reference RIL sends every command from the      *)
(* thread of the event loop: one commander.                                *)
(***************************************************************************)
EXTENDS AtChannel

CONSTANT c1

Dispatch == {c1}
Various == {"HANDSHAKE", "MULTILINE", "CMGR", "SMS"}
Plain == {"HANDSHAKE", "SMS"}
=============================================================================
