---------------------------- MODULE EventService ----------------------------
(***************************************************************************)
(* What the RIL event loop (libril/ril_event.cpp, with the timed-callback  *)
(* half of libril/ril.cpp) promises to the code that uses it, with no      *)
(* lists, tables, locks or threads:                                        *)
(*                                                                         *)
(*   - a timed callback runs at most once, never before its time, and      *)
(*     never before one that is due earlier;                               *)
(*   - a descriptor's handler runs only while the descriptor is watched,   *)
(*     or once after a one-shot watch was taken off because it was ready.  *)
(*                                                                         *)
(* RilEvent implements this specification (RilEvent!Service).              *)
(***************************************************************************)
EXTENDS Naturals

CONSTANTS Timers,      \* the timed callbacks (one ril_event each)
          FdEvents,    \* the events that watch a descriptor
          Persist,     \* those that stay watched after they fire
          MaxTime,     \* the last tick of the clock
          None

VARIABLES now,         \* the clock
          due,         \* due[m]: when timer m becomes due (0 before it is armed)
          armed,       \* the timers that are requested and have not run
          fired,       \* the timers whose callback has been called
          watching,    \* the events whose handler may be called
          running      \* the event whose callback is running, or None

svars == <<now, due, armed, fired, watching, running>>

SInit ==
  /\ now = 0
  /\ due = [m \in Timers |-> 0]
  /\ armed = {}
  /\ fired = {}
  /\ watching = {}
  /\ running = None

Clock ==
  /\ now < MaxTime
  /\ now' = now + 1
  /\ UNCHANGED <<due, armed, fired, watching, running>>

Request(m) ==
  /\ m \notin armed \cup fired
  /\ armed' = armed \cup {m}
  /\ \E t \in now..MaxTime : due' = [due EXCEPT ![m] = t]
  /\ UNCHANGED <<now, fired, watching, running>>

\* Timers run in the order of their times, each strictly after its time.
RunTimer(m) ==
  /\ running = None
  /\ m \in armed
  /\ due[m] < now
  /\ \A k \in armed : due[m] <= due[k]
  /\ armed' = armed \ {m}
  /\ fired' = fired \cup {m}
  /\ running' = m
  /\ UNCHANGED <<now, due, watching>>

Watch(e) ==
  /\ e \notin watching
  /\ watching' = watching \cup {e}
  /\ UNCHANGED <<now, due, armed, fired, running>>

\* A handler may end its own watch.
Unwatch ==
  /\ running \in watching
  /\ watching' = watching \ {running}
  /\ UNCHANGED <<now, due, armed, fired, running>>

\* Calling the handler of a one-shot event is what ends its watch.
RunHandler(e) ==
  /\ running = None
  /\ e \in watching
  /\ running' = e
  /\ watching' = IF e \in Persist THEN watching ELSE watching \ {e}
  /\ UNCHANGED <<now, due, armed, fired>>

Return ==
  /\ running # None
  /\ running' = None
  /\ UNCHANGED <<now, due, armed, fired, watching>>

SNext ==
  \/ Clock
  \/ \E m \in Timers : Request(m) \/ RunTimer(m)
  \/ \E e \in FdEvents : Watch(e) \/ RunHandler(e)
  \/ Unwatch
  \/ Return

SSpec == SInit /\ [][SNext]_svars
=============================================================================
