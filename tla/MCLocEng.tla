------------------------------ MODULE MCLocEng ------------------------------
(***************************************************************************)
(* LocEng for TLC: the deferred thread, the NI thread and one thread of    *)
(* the framework, which is enough for three requests to be under way.      *)
(***************************************************************************)
EXTENDS LocEng

CONSTANTS d, n, c1

AllThreads == {d, n, c1}
Framework == {c1}

(* For the deletion of aiding data: a session and a report during it.      *)
Session == {"ENGINE_ON", "POSITION"}
=============================================================================
