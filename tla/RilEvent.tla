------------------------------ MODULE RilEvent ------------------------------
(***************************************************************************)
(* The event loop of the radio interface layer: libril/ril_event.cpp, and  *)
(* the part of libril/ril.cpp through which other threads reach it         *)
(* (rilEventAddWakeup, internalRequestTimedCallback, triggerEvLoop and the *)
(* wakeup pipe).                                                           *)
(*                                                                         *)
(* One thread runs the loop and every callback.  Any thread may add a      *)
(* descriptor event or request a timed callback.  The tables are protected *)
(* by listMutex, but the loop copies readFds, reads the head of timer_list *)
(* and passes nfds to select() without it; the wakeup pipe is what makes   *)
(* that safe.  Time is a discrete clock.                                   *)
(*                                                                         *)
(* The clients of this module keep the contract that ril.cpp keeps: an     *)
(* event is (re)initialised and added only when it is neither watched nor  *)
(* queued, every descriptor in use is distinct, and a handler removes no   *)
(* event but its own.                                                      *)
(***************************************************************************)
EXTENDS Integers, Sequences, SequencesExt

CONSTANTS
  FdEvents,        \* the ril_event objects that watch a descriptor
  Persist,         \* the FdEvents initialised with persist = true
  WakeEv,          \* s_wakeupfd_event
  Timers,          \* the ril_event objects inside UserCallbackInfo
  Loop,            \* the dispatch thread (s_tid_dispatch)
  Adders,          \* the other threads that call libril
  Fds,             \* descriptor numbers
  WakeFd,          \* s_fdWakeupRead
  MAX_FD_EVENTS,   \* slots of watch_table
  Delays,          \* relative times asked of RIL_requestTimedCallback
  MaxTime,         \* bound of the clock
  DelTimers,       \* timers that a handler hands to ril_event_del
  None

Events == FdEvents \cup Timers
Threads == Adders \cup {Loop}
Slots == 0..(MAX_FD_EVENTS - 1)
Forever == -1      \* select() is given no timeout

ASSUME EventsAssumption ==
  /\ Persist \subseteq FdEvents
  /\ WakeEv \in Persist
  /\ FdEvents \cap Timers = {}
  /\ None \notin Events \cup Threads
ASSUME ThreadsAssumption == Loop \notin Adders
ASSUME NumbersAssumption ==
  /\ Fds \subseteq Nat
  /\ WakeFd \in Fds
  /\ MAX_FD_EVENTS \in Nat \ {0}
  /\ Delays \subseteq Nat
  /\ MaxTime \in Nat
ASSUME DelTimersAssumption == DelTimers \subseteq Timers

VARIABLES
  mutex,           \* holder of listMutex, or None
  watch_table,     \* slot -> event or None
  fd, index,       \* the fields of each ril_event
  readFds, nfds,
  timer_list,      \* sorted by timeout
  timeout,         \* timeout[m]: absolute time of timer m
  pending_list,
  now,             \* getNow()
  readable,        \* descriptors with input waiting, the wakeup pipe apart
  wakeup,          \* the wakeup pipe holds a byte
  lpc, cur,        \* where the loop is; the event whose callback runs
  rfds, tv, slot,  \* the loop's locals: fd_set, timeout, i (reset once dead)
  deadline,        \* when the kernel ends the select() in progress
  pc, arg,         \* where each thread is inside libril, and with what event
  requested, fired,\* history: timers allocated, timers whose callback was called
  aim              \* history: the timer time the sleep is computed from

tables == <<watch_table, fd, index, readFds, nfds>>
timers == <<timer_list, timeout>>
loop == <<lpc, cur, rfds, tv, slot, deadline>>
env == <<now, readable, wakeup>>
calls == <<pc, arg>>
history == <<requested, fired, aim>>
vars == <<mutex, tables, timers, pending_list, loop, env, calls, history>>

Watched == {e \in FdEvents : \E i \in Slots : watch_table[i] = e}
Adding == {arg[t] : t \in {u \in Threads : pc[u] = "add"}}
Pending == ToSet(pending_list)
InUse == Watched \cup Adding \cup ((Pending \cup {cur}) \cap FdEvents)
Readable == readable \cup (IF wakeup THEN {WakeFd} ELSE {})
Ready == rfds \cap Readable

-----------------------------------------------------------------------------
\* RIL_startEventLoop has returned: ril_event_init ran, the loop thread is
\* about to create the pipe, and the other threads are free to call libril.
Init ==
  /\ mutex = None
  /\ watch_table = [i \in Slots |-> None]
  /\ fd = [e \in FdEvents |-> WakeFd]
  /\ index = [e \in Events |-> -1]
  /\ readFds = {}
  /\ nfds = 0
  /\ timer_list = <<>>
  /\ timeout = [m \in Timers |-> 0]
  /\ pending_list = <<>>
  /\ now = 0
  /\ readable = {}
  /\ wakeup = FALSE
  /\ lpc = "boot"
  /\ cur = None
  /\ rfds = {}
  /\ tv = Forever
  /\ slot = 0
  /\ deadline = Forever
  /\ pc = [t \in Threads |-> "idle"]
  /\ arg = [t \in Threads |-> None]
  /\ requested = {}
  /\ fired = {}
  /\ aim = Forever

-----------------------------------------------------------------------------
(* The client interface: a thread outside the loop, or the running callback *)

MayCall(t) ==
  /\ pc[t] = "idle"
  /\ t = Loop => lpc = "callback" /\ cur # WakeEv

Enter(t, where, e) ==
  /\ pc' = [pc EXCEPT ![t] = where]
  /\ arg' = [arg EXCEPT ![t] = e]

\* Bug to look for: the tables change and nobody is told.
LeaveSilently(t) ==
  /\ pc' = [pc EXCEPT ![t] = "idle"]
  /\ arg' = [arg EXCEPT ![t] = None]

\* Out of rilEventAddWakeup or internalRequestTimedCallback: triggerEvLoop is
\* called by every thread, and does nothing in the loop's own.
Leave(t) ==
  /\ pc' = [pc EXCEPT ![t] = IF t = Loop THEN "idle" ELSE "trigger"]
  /\ arg' = [arg EXCEPT ![t] = None]

\* ril_event_set, then into ril_event_add.
CallEventAdd(t, e, f) ==
  /\ MayCall(t)
  /\ e \notin Watched \cup Adding \cup Pending \cup {WakeEv}
  /\ f \notin {fd[x] : x \in InUse \ {e}} \cup {WakeFd}
  /\ fd' = [fd EXCEPT ![e] = f]
  /\ index' = [index EXCEPT ![e] = -1]
  /\ Enter(t, "add", e)
  /\ UNCHANGED <<mutex, watch_table, readFds, nfds, timers, pending_list, loop, env, history>>

\* ril_event_add takes the mutex, fills the first free slot and sets the bit
\* (a full table drops the event in silence) ...
EventAddTable(t) ==
  /\ pc[t] = "add"
  /\ mutex = None
  /\ mutex' = t
  /\ pc' = [pc EXCEPT ![t] = "addNfds"]
  /\ IF \E i \in Slots : watch_table[i] = None
     THEN \E i \in Slots :
            /\ watch_table[i] = None
            /\ \A j \in 0..(i - 1) : watch_table[j] # None
            /\ watch_table' = [watch_table EXCEPT ![i] = arg[t]]
            /\ index' = [index EXCEPT ![arg[t]] = i]
            /\ readFds' = readFds \cup {fd[arg[t]]}
     ELSE UNCHANGED <<watch_table, index, readFds>>
  /\ UNCHANGED <<fd, nfds, arg, timers, pending_list, loop, env, history>>

\* ... and then raises nfds and releases the mutex.
EventAddNfds(t) ==
  /\ pc[t] = "addNfds"
  /\ mutex' = None
  /\ nfds' = IF index[arg[t]] # -1 /\ fd[arg[t]] >= nfds THEN fd[arg[t]] + 1 ELSE nfds
  /\ Leave(t)
  /\ UNCHANGED <<watch_table, fd, index, readFds, timers, pending_list, loop, env, history>>

\* internalRequestTimedCallback: a fresh UserCallbackInfo, then ril_timer_add.
CallTimerAdd(t, m) ==
  /\ MayCall(t)
  /\ m \notin requested
  /\ now < MaxTime
  /\ requested' = requested \cup {m}
  /\ Enter(t, "timer", m)
  /\ UNCHANGED <<mutex, tables, timers, pending_list, loop, env, fired, aim>>

\* Bug to look for: new timers go to the end of the list.
TimerPositionAppend(p, tm) == p = Len(timer_list) + 1

\* Where ril_timer_add puts an event due at tm: before the first one that is
\* not due strictly earlier.
TimerPosition(p, tm) ==
  /\ \A i \in 1..(p - 1) : timeout[timer_list[i]] < tm
  /\ p <= Len(timer_list) => tm <= timeout[timer_list[p]]

\* ril_timer_add, which is all under the mutex.
TimerAdd(t) ==
  /\ pc[t] = "timer"
  /\ mutex = None
  /\ \E d \in Delays :
       /\ now + d < MaxTime
       /\ timeout' = [timeout EXCEPT ![arg[t]] = now + d]
       /\ \E p \in 1..(Len(timer_list) + 1) :
            /\ TimerPosition(p, now + d)
            /\ timer_list' = InsertAt(timer_list, p, arg[t])
  /\ Leave(t)
  /\ UNCHANGED <<mutex, tables, pending_list, loop, env, history>>

\* The write to the wakeup pipe; before the pipe exists it goes nowhere.
TriggerEvLoop(t) ==
  /\ pc[t] = "trigger"
  /\ wakeup' = (wakeup \/ lpc # "boot")
  /\ pc' = [pc EXCEPT ![t] = "idle"]
  /\ UNCHANGED <<mutex, tables, timers, pending_list, loop, now, readable, arg, history>>

-----------------------------------------------------------------------------
(* Removal *)

\* Bugs to look for: the slot is cleared and the bit is not; nfds one short.
RemoveWatchKeepBit(ev, i) ==
  /\ watch_table' = [watch_table EXCEPT ![i] = None]
  /\ index' = [index EXCEPT ![ev] = -1]
  /\ UNCHANGED <<fd, readFds, nfds>>

RemoveWatchShortNfds(ev, i) ==
  /\ watch_table' = [watch_table EXCEPT ![i] = None]
  /\ index' = [index EXCEPT ![ev] = -1]
  /\ readFds' = readFds \ {fd[ev]}
  /\ LET left == {0} \cup {fd[e] : e \in Watched \ {ev}}
     IN \E h \in left : (\A f \in left : f <= h) /\ nfds' = h
  /\ UNCHANGED fd

\* nfds is recomputed (from 0) only when the highest descriptor goes.
RemoveWatch(ev, i) ==
  /\ watch_table' = [watch_table EXCEPT ![i] = None]
  /\ index' = [index EXCEPT ![ev] = -1]
  /\ readFds' = readFds \ {fd[ev]}
  /\ LET left == {0} \cup {fd[e] : e \in Watched \ {ev}}
     IN IF fd[ev] + 1 = nfds
        THEN \E h \in left : (\A f \in left : f <= h) /\ nfds' = h + 1
        ELSE nfds' = nfds
  /\ UNCHANGED fd

\* ril_event_del, called by a handler for its own event.  An event that is in
\* no slot takes the early return, which does not release the mutex.
EventDel(e) ==
  /\ MayCall(Loop)
  /\ mutex = None
  /\ e \in DelTimers \cup {x \in {cur} : x \in FdEvents /\ index[x] # -1}
  /\ IF index[e] \in Slots
     THEN RemoveWatch(e, index[e]) /\ UNCHANGED mutex
     ELSE mutex' = Loop /\ UNCHANGED tables
  /\ UNCHANGED <<timers, pending_list, loop, env, calls, history>>

-----------------------------------------------------------------------------
(* The loop thread *)

LoopStep(from, to) ==
  /\ lpc = from
  /\ lpc' = to
  /\ pc[Loop] = "idle"

\* eventLoop: the pipe, and its event, set and added.
CreatePipe ==
  /\ LoopStep("boot", "booted")
  /\ fd' = [fd EXCEPT ![WakeEv] = WakeFd]
  /\ Enter(Loop, "add", WakeEv)
  /\ UNCHANGED <<mutex, watch_table, index, readFds, nfds, timers, pending_list,
                 cur, rfds, tv, slot, deadline, env, history>>

EnterLoop ==
  /\ LoopStep("booted", "copy")
  /\ UNCHANGED <<mutex, tables, timers, pending_list, cur, rfds, tv, slot, deadline,
                 env, calls, history>>

\* rfds is a copy of readFds, taken without the mutex.
CopyReadFds ==
  /\ LoopStep("copy", "calc")
  /\ rfds' = readFds
  /\ UNCHANGED <<mutex, tables, timers, pending_list, cur, tv, slot, deadline,
                 env, calls, history>>

\* Bug to look for: the time left is not clamped at zero.
TimeLeftUnclamped(tm) == tm - now

TimeLeft(tm) == IF tm > now THEN tm - now ELSE 0

\* calcNextTimeout reads the head of the list without the mutex.
CalcNextTimeout ==
  /\ LoopStep("calc", "select")
  /\ tv' = IF timer_list = <<>> THEN Forever ELSE TimeLeft(timeout[Head(timer_list)])
  /\ aim' = IF timer_list = <<>> THEN Forever ELSE timeout[Head(timer_list)]
  /\ UNCHANGED <<mutex, tables, timers, pending_list, cur, rfds, slot, deadline,
                 env, calls, requested, fired>>

\* select() looks at the descriptors below nfds, which is read only now.
SelectCall ==
  /\ LoopStep("select", "blocked")
  /\ rfds' = {f \in rfds : f < nfds}
  /\ deadline' = IF tv = Forever THEN Forever ELSE now + tv
  /\ tv' = Forever
  /\ UNCHANGED <<mutex, tables, timers, pending_list, cur, slot, env, calls, history>>

SelectDone == Ready # {} \/ (deadline # Forever /\ now >= deadline)

\* rfds becomes the set of the ready descriptors; its size is select()'s result.
SelectReturn ==
  /\ SelectDone
  /\ LoopStep("blocked", "timeouts")
  /\ rfds' = Ready
  /\ deadline' = Forever
  /\ aim' = Forever
  /\ UNCHANGED <<mutex, tables, timers, pending_list, cur, tv, slot, env, calls, requested, fired>>

\* A signal interrupts the wait: the loop starts over.
SelectInterrupted ==
  /\ ~SelectDone
  /\ LoopStep("blocked", "copy")
  /\ rfds' = {}
  /\ deadline' = Forever
  /\ aim' = Forever
  /\ UNCHANGED <<mutex, tables, timers, pending_list, cur, tv, slot, env, calls, requested, fired>>

\* Any other error: ril_event_loop returns, and the thread ends.
SelectFails ==
  /\ LoopStep("blocked", "dead")
  /\ rfds' = {}
  /\ deadline' = Forever
  /\ aim' = Forever
  /\ UNCHANGED <<mutex, tables, timers, pending_list, cur, tv, slot, env, calls, requested, fired>>

\* timercmp(&now, &tev->timeout, >): strictly later than its time.
Expired(tm) == now > tm

\* processTimeouts moves the expired prefix of timer_list to pending_list.
ProcessTimeouts ==
  /\ mutex = None
  /\ LoopStep("timeouts", "readies")
  /\ \E k \in 0..Len(timer_list) :
       /\ \A i \in 1..k : Expired(timeout[timer_list[i]])
       /\ k < Len(timer_list) => ~Expired(timeout[timer_list[k + 1]])
       /\ pending_list' = pending_list \o SubSeq(timer_list, 1, k)
       /\ timer_list' = SubSeq(timer_list, k + 1, Len(timer_list))
  /\ UNCHANGED <<mutex, tables, timeout, cur, rfds, tv, slot, deadline, env, calls, history>>

\* processReadReadies walks the table under the mutex until it has found every
\* descriptor that select() counted (rfds shrinks as they are found; the code
\* counts n down instead).
BeginReadReadies ==
  /\ mutex = None
  /\ LoopStep("readies", "scan")
  /\ mutex' = Loop
  /\ slot' = 0
  /\ UNCHANGED <<tables, timers, pending_list, cur, rfds, tv, deadline, env, calls, history>>

SlotReady ==
  /\ watch_table[slot] # None
  /\ fd[watch_table[slot]] \in rfds

\* A ready event is queued, and taken off the table if it is one-shot.
ScanSlot ==
  /\ slot < MAX_FD_EVENTS /\ rfds # {}
  /\ LoopStep("scan", "scan")
  /\ slot' = slot + 1
  /\ IF SlotReady
     THEN LET rev == watch_table[slot]
          IN /\ pending_list' = Append(pending_list, rev)
             /\ rfds' = rfds \ {fd[rev]}
             /\ IF rev \in Persist THEN UNCHANGED tables ELSE RemoveWatch(rev, slot)
     ELSE UNCHANGED <<pending_list, rfds, tables>>
  /\ UNCHANGED <<mutex, timers, cur, tv, deadline, env, calls, history>>

EndReadReadies ==
  /\ ~(slot < MAX_FD_EVENTS /\ rfds # {})
  /\ LoopStep("scan", "fire")
  /\ mutex' = None
  /\ slot' = 0
  /\ rfds' = {}
  /\ UNCHANGED <<tables, timers, pending_list, cur, tv, deadline, env, calls, history>>

\* firePending takes the next event off the list and enters its callback, which
\* consumes the input of its descriptor or leaves some of it.
FirePending ==
  /\ pending_list # <<>>
  /\ LoopStep("fire", "callback")
  /\ cur' = Head(pending_list)
  /\ pending_list' = Tail(pending_list)
  /\ fired' = fired \cup ({cur'} \cap Timers)
  /\ readable' \in {readable} \cup {readable \ {fd[e]} : e \in {cur'} \cap FdEvents}
  /\ UNCHANGED <<mutex, tables, timers, rfds, tv, slot, deadline, now, wakeup, calls, requested, aim>>

\* processWakeupCallback empties the pipe.
DrainWakeup ==
  /\ cur = WakeEv
  /\ LoopStep("callback", "fire")
  /\ wakeup' = FALSE
  /\ cur' = None
  /\ UNCHANGED <<mutex, tables, timers, pending_list, rfds, tv, slot, deadline,
                 now, readable, calls, history>>

CallbackReturns ==
  /\ cur # WakeEv
  /\ LoopStep("callback", "fire")
  /\ cur' = None
  /\ UNCHANGED <<mutex, tables, timers, pending_list, rfds, tv, slot, deadline,
                 env, calls, history>>

FireDone ==
  /\ pending_list = <<>>
  /\ LoopStep("fire", "copy")
  /\ UNCHANGED <<mutex, tables, timers, pending_list, cur, rfds, tv, slot, deadline,
                 env, calls, history>>

-----------------------------------------------------------------------------
(* The environment *)

\* MaxTime bounds the clock: its last tick waits for requests in progress, so
\* that every timer that is requested is due before it, and a sleep that has
\* been computed ends by it.
Tick ==
  /\ now < MaxTime
  /\ now + 1 = MaxTime => \A t \in Threads : pc[t] # "timer"
  /\ lpc = "select" => now + 1 + tv <= MaxTime
  /\ now' = now + 1
  /\ UNCHANGED <<mutex, tables, timers, pending_list, loop, readable, wakeup, calls, history>>

InputArrives(f) ==
  /\ f \in {fd[e] : e \in Watched} \ (readable \cup {WakeFd})
  /\ readable' = readable \cup {f}
  /\ UNCHANGED <<mutex, tables, timers, pending_list, loop, now, wakeup, calls, history>>

LoopThread ==
  \/ CreatePipe \/ EnterLoop
  \/ CopyReadFds \/ CalcNextTimeout \/ SelectCall
  \/ SelectReturn \/ SelectInterrupted \/ SelectFails
  \/ ProcessTimeouts
  \/ BeginReadReadies \/ ScanSlot \/ EndReadReadies
  \/ FirePending \/ DrainWakeup \/ CallbackReturns \/ FireDone

InLibril(t) ==
  EventAddTable(t) \/ EventAddNfds(t) \/ TimerAdd(t) \/ TriggerEvLoop(t)

Next ==
  \/ LoopThread
  \/ \E e \in Events : EventDel(e)
  \/ \E t \in Threads :
       \/ InLibril(t)
       \/ \E e \in FdEvents, f \in Fds : CallEventAdd(t, e, f)
       \/ \E m \in Timers : CallTimerAdd(t, m)
  \/ Tick
  \/ \E f \in Fds : InputArrives(f)

Spec == Init /\ [][Next]_vars

\* The threads are scheduled, callbacks return, and a thread that waits for the
\* mutex gets it in the end (SF: others may take it in between); the clock
\* runs.  Nobody is obliged to call libril, to send input or to interrupt or
\* fail select().
Fairness ==
  /\ SF_vars(LoopThread /\ ~SelectFails /\ ~SelectInterrupted)
  /\ SF_vars(CallbackReturns)
  /\ \A t \in Threads : SF_vars(InLibril(t))
  /\ WF_vars(Tick)

FairSpec == Spec /\ Fairness

-----------------------------------------------------------------------------
(* Properties *)

\* The range of every variable; in particular the time left that is handed to
\* select() is never negative, and no slot number is out of the table.
TypeOK ==
  /\ mutex \in Threads \cup {None}
  /\ watch_table \in [Slots -> FdEvents \cup {None}]
  /\ fd \in [FdEvents -> Fds]
  /\ index \in [Events -> Slots \cup {-1}]
  /\ readFds \in SUBSET Fds
  /\ nfds \in Nat
  /\ timer_list \in Seq(Timers)
  /\ timeout \in [Timers -> 0..MaxTime]
  /\ pending_list \in Seq(Events)
  /\ now \in 0..MaxTime
  /\ readable \in SUBSET Fds
  /\ wakeup \in BOOLEAN
  /\ lpc \in {"boot", "booted", "copy", "calc", "select", "blocked", "timeouts",
              "readies", "scan", "fire", "callback", "dead"}
  /\ cur \in Events \cup {None}
  /\ rfds \in SUBSET Fds
  /\ tv \in Nat \cup {Forever}
  /\ slot \in 0..MAX_FD_EVENTS
  /\ deadline \in Nat \cup {Forever}
  /\ pc \in [Threads -> {"idle", "add", "addNfds", "timer", "trigger"}]
  /\ arg \in [Threads -> Events \cup {None}]
  /\ aim \in 0..MaxTime \cup {Forever}
  /\ requested \in SUBSET Timers
  /\ fired \in SUBSET Timers

\* The table, the index fields, readFds and nfds agree whenever nobody holds
\* the mutex: what ril_event_add and removeWatch must maintain between them.
TablesAgree ==
  /\ \A e \in FdEvents, i \in Slots : watch_table[i] = e <=> index[e] = i
  /\ readFds = {fd[e] : e \in Watched}
  /\ \A e \in Watched : fd[e] < nfds \/ (mutex # None /\ arg[mutex] = e)

\* A thread that has changed the tables and has yet to write to the pipe.
WakeupComing ==
  \/ wakeup
  \/ \E t \in Adders : pc[t] \in {"addNfds", "trigger"}

\* No lost wakeup.  The loop decides what to sleep on (which descriptors, and
\* how long) without the mutex, and other threads change both underneath it.
\* If it sleeps on stale data then a byte is in the wakeup pipe or about to be
\* written, and it does listen to the pipe.
NoLostWakeup ==
  lpc \in {"select", "blocked"} =>
    /\ WakeFd \in rfds
    /\ ~WakeupComing =>
         /\ rfds = readFds
         /\ timer_list # <<>> => aim # Forever /\ aim <= timeout[Head(timer_list)]

\* The event loop implements the event service: timers run once, in order and
\* never early, handlers run only for watched events, one callback at a time.
Service == INSTANCE EventService WITH
  due <- timeout,
  armed <- ToSet(timer_list) \cup (Pending \cap Timers),
  watching <- Watched \cup (Pending \cap FdEvents),
  running <- cur

ImplementsService == Service!SSpec

\* Every requested timed callback runs, however its request interleaves with
\* the loop (unless select() failed and ended the thread).
TimersRun ==
  \A m \in Timers : m \in requested ~> (m \in fired \/ lpc = "dead")

\* A watched descriptor that has input gets its handler called.
InputServed ==
  \A e \in FdEvents :
    (e \in Watched /\ fd[e] \in readable)
      ~> (cur = e \/ e \notin Watched \/ lpc = "dead")
=============================================================================
