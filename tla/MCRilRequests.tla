----------------------------- MODULE MCRilRequests -----------------------------
(***************************************************************************)
(* RilRequests for TLC: the event loop and one other thread of the vendor  *)
(* code (the reader of the reference RIL).                                 *)
(***************************************************************************)
EXTENDS RilRequests

CONSTANTS loop1, reader, p1, p2

OneReader == {reader}
LoopOnly == {loop1}
AnyThread == {loop1, reader}
TwoCells == {p1, p2}
=============================================================================
