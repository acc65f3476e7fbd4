----------------------------- MODULE MCRilEvent -----------------------------
(***************************************************************************)
(* RilEvent on two events of ril.cpp, the wakeup pipe and the one-shot     *)
(* listen socket, which takes turns at two descriptors.                    *)
(***************************************************************************)
EXTENDS RilEvent

CONSTANTS wake, listen, t1, t2, a1, loopThread

MCTwoEvents == {wake, listen}
MCPersistWake == {wake}
MCTimers == {t1, t2}
MCAdders == {a1}
MCTwoFds == {4, 5}
MCDelays == {0, 1}
MCNoDelTimers == {}
=============================================================================
