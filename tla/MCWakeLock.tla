------------------------------ MODULE MCWakeLock ------------------------------
(***************************************************************************)
(* WakeLock for TLC: the event loop and one or two other threads.          *)
(***************************************************************************)
EXTENDS WakeLock

CONSTANTS loop1, reader, poller, a1, a2, a3, a4

TwoThreads == {reader, poller}
FourAddresses == {a1, a2, a3, a4}
=============================================================================
