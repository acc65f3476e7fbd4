------------------------------- MODULE LocEng -------------------------------
(***************************************************************************)
(* libloc_api/loc_eng.cpp: the location engine of the Qualcomm modem.  An  *)
(* RPC callback leaves each event of the modem in a one-place slot and     *)
(* wakes the deferred thread, which processes events, reports ioctl        *)
(* answers to the threads that wait (LocIoctl), hands in notifications     *)
(* (LocNi), asks the framework for data connections and makes requests of  *)
(* its own, among them the stop put off until a data call is done.         *)
(*                                                                         *)
(* Threads: Deferred (loc_eng_process_deferred_action), NiThread, the RPC  *)
(* thread (loc_event_cb) and Callers, the framework's threads.  A critical *)
(* section of deferred_action_mutex or deferred_stop_mutex is one step.    *)
(* The engine is initialised and never cleaned up (DISABLE_CLEANUP).       *)
(***************************************************************************)
EXTENDS LocNi, Sequences

CONSTANTS Deferred,   \* the deferred action thread
          Callers,    \* the framework's threads
          EventKinds, \* the events the modem sends, a subset of AllKinds
          MaxEvents, MaxCalls  \* bounds: events of the modem, calls of the framework

(* SERVER_OPEN and SERVER_CLOSE are the two location server requests,      *)
(* STATUS_OTHER a status report that is not about the engine's state,      *)
(* POSITION any report that is only handed on to a callback.               *)
AllKinds == {"IOCTL_REPORT", "ENGINE_ON", "ENGINE_OFF", "STATUS_OTHER", "SERVER_OPEN",
             "SERVER_CLOSE", "NI_REQUEST", "POSITION"}

Connection == {"REQUEST", "RELEASE"}

ASSUME LocEngAssumption ==
  /\ Threads = Callers \cup {Deferred, NiThread}
  /\ Deferred # NiThread /\ Deferred \notin Callers /\ NiThread \notin Callers
  /\ EventKinds \subseteq AllKinds
  /\ None \notin AllKinds \cup IoctlTypes \cup Connection
  /\ MaxEvents \in Nat /\ MaxCalls \in Nat

(* DEFERRED_ACTION_*: why the thread is woken.                             *)
DataFlags == {"DATA_SUCCESS", "DATA_CLOSED", "DATA_FAILED"}
Flags == {"EVENT", "DELETE_AIDING", "AGPS_STATUS"} \cup DataFlags

VARIABLES
  loc_event,              \* the slot, or None
  deferred_action_flags,
  agps_status,            \* "REQUEST" or "RELEASE" a data connection, or None
  aiding_data_for_deletion, engine_status,
  agps_request_pending, stop_request_pending,
  wake_lock,              \* what the framework's wake lock callbacks leave
  signalled,              \* deferred_action_cond signalled while Deferred waits
  dpc, local,             \* where Deferred is; its copies of the shared data
  cpc,                    \* where each caller is
  due,                    \* connection requests the framework has not answered
  events, calls,          \* counters for the bounds
  asked, told,            \* history: requests processed, requests passed on
  stopOwed                \* history: a stop was put off and not made yet

deferredVars == <<loc_event, deferred_action_flags, agps_status, aiding_data_for_deletion,
                  engine_status, wake_lock, signalled, dpc, local>>
stopVars == <<agps_request_pending, stop_request_pending, stopOwed>>
callerVars == <<cpc, due, events, calls>>
historyVars == <<asked, told>>
vars == <<ioctlVars, niVars, deferredVars, stopVars, callerVars, historyVars>>

Event == [kind : EventKinds, type : IoctlTypes \cup {None}, ok : BOOLEAN]

Nothing == [event |-> None, flags |-> {}, status |-> None, aiding |-> FALSE]

Init ==
  /\ IoctlInit /\ NiInit
  /\ loc_event = None /\ deferred_action_flags = {}
  /\ agps_status = None /\ aiding_data_for_deletion = FALSE
  /\ engine_status = "NONE"
  /\ agps_request_pending = FALSE /\ stop_request_pending = FALSE
  /\ wake_lock = FALSE /\ signalled = FALSE
  /\ dpc = "start" /\ local = Nothing
  /\ cpc = [c \in Callers |-> "idle"] /\ due = {}
  /\ events = 0 /\ calls = 0
  /\ asked = <<>> /\ told = <<>> /\ stopOwed = FALSE

TypeOK ==
  /\ IoctlTypeOK /\ NiTypeOK
  /\ loc_event \in Event \cup {None} /\ deferred_action_flags \subseteq Flags
  /\ agps_status \in Connection \cup {None}
  /\ aiding_data_for_deletion \in BOOLEAN
  /\ engine_status \in {"NONE", "SESSION_BEGIN", "ENGINE_OFF"}
  /\ agps_request_pending \in BOOLEAN /\ stop_request_pending \in BOOLEAN
  /\ wake_lock \in BOOLEAN /\ signalled \in BOOLEAN
  /\ dpc \in {"start", "top", "asleep", "event", "signal", "ni", "aiding", "atl", "informed",
              "tell"}
  /\ local \in [event : Event \cup {None}, flags : SUBSET Flags,
                status : Connection \cup {None}, aiding : BOOLEAN]
  /\ cpc \in [Callers -> {"idle", "mode", "slp", "stopping", "answer", "answering"}]
  /\ due \subseteq Connection
  /\ events \in 0..MaxEvents /\ calls \in 0..MaxCalls
  /\ asked \in Seq(Connection) /\ told \in Seq(Connection)
  /\ stopOwed \in BOOLEAN

-----------------------------------------------------------------------------
(* A variant that sets the flag and does not signal.                       *)
RaiseSilently(flag) ==
  /\ wake_lock' = TRUE
  /\ deferred_action_flags' = deferred_action_flags \cup {flag}
  /\ UNCHANGED signalled

(* Giving the deferred thread something to do, always with its mutex held: *)
(* the wake lock is taken first.                                           *)
Raise(flag) ==
  /\ wake_lock' = TRUE
  /\ deferred_action_flags' = deferred_action_flags \cup {flag}
  /\ signalled' = (signalled \/ dpc = "asleep")

(* loc_event_cb, on the RPC thread: the slot is overwritten.               *)
LocEventCb(event) ==
  /\ events < MaxEvents /\ events' = events + 1
  /\ event.kind \in EventKinds
  /\ loc_event' = event
  /\ Raise("EVENT")
  /\ UNCHANGED <<agps_status, aiding_data_for_deletion, engine_status, dpc, local>>
  /\ UNCHANGED <<niVars, stopVars, cpc, due, calls, historyVars>>

Plain(kind) == [kind |-> kind, type |-> None, ok |-> TRUE]

ModemEvent ==
  /\ \E kind \in EventKinds \ {"IOCTL_REPORT"} : LocEventCb(Plain(kind))
  /\ UNCHANGED ioctlVars

ModemReport ==
  \E type \in {y \in IoctlTypes : owed[y] > 0}, ok \in BOOLEAN :
    /\ LocEventCb([kind |-> "IOCTL_REPORT", type |-> type, ok |-> ok])
    /\ owed' = [owed EXCEPT ![type] = @ - 1]
    /\ UNCHANGED <<cb_is_selected, cb_has_arrived, ioctl_type, cb_payload, call>>

-----------------------------------------------------------------------------
(* The deferred thread.                                                    *)
At(place) == dpc = place
DeferredReturned == call[Deferred].at = "out"

(* What a step of the thread leaves alone when it only moves on.           *)
NoShared ==
  UNCHANGED <<loc_event, deferred_action_flags, agps_status, aiding_data_for_deletion,
              engine_status, wake_lock, signalled>>

(* What the turn still has to do, given the copies it began with: each     *)
(* part looks only at those.  The local variable called engine_status was  *)
(* copied from agps_status, not from engine_status, and is compared with   *)
(* GPS_STATUS_SESSION_BEGIN, which has the value of                        *)
(* GPS_REQUEST_AGPS_DATA_CONN.                                             *)
LooksOff(copies) == copies.status # "REQUEST"

(* A variant that takes a failed connection for nothing to inform of.      *)
AfterAidingUnlessFailed(copies) ==
  IF copies.flags \cap {"DATA_SUCCESS", "DATA_CLOSED"} # {} THEN "atl"
  ELSE IF copies.status # None THEN "tell" ELSE "top"

AfterAiding(copies) ==
  IF copies.flags \cap DataFlags # {} THEN "atl"
  ELSE IF copies.status # None THEN "tell" ELSE "top"

AfterEvent(copies) ==
  IF LooksOff(copies) /\ copies.aiding THEN "aiding" ELSE AfterAiding(copies)

(* Copies that are not needed any more are forgotten.                      *)
GoOn(copies, place) ==
  /\ dpc' = place
  /\ local' = IF place = "top" THEN Nothing ELSE [copies EXCEPT !.event = None]

(* The thread begins by releasing the engine's privacy lock.               *)
StartDeferred ==
  /\ At("start") /\ dpc' = "top"
  /\ Setup(Deferred, "ENGINE_LOCK")
  /\ NoShared /\ UNCHANGED <<local, niVars, stopVars, callerVars, historyVars>>

(* A variant that leaves agps_status as it is.                             *)
TakeButStatus ==
  /\ LET copies == [event |-> loc_event, flags |-> deferred_action_flags,
                    status |-> agps_status, aiding |-> aiding_data_for_deletion]
     IN  IF loc_event = None THEN GoOn(copies, AfterEvent(copies))
         ELSE dpc' = "event" /\ local' = copies
  /\ loc_event' = None
  /\ deferred_action_flags' = {}
  /\ UNCHANGED <<agps_status, aiding_data_for_deletion, engine_status>>
  /\ UNCHANGED <<ioctlVars, niVars, stopVars, callerVars, historyVars>>

(* Everything shared is copied and cleared before the mutex is released.   *)
TakeAll ==
  /\ LET copies == [event |-> loc_event, flags |-> deferred_action_flags,
                    status |-> agps_status, aiding |-> aiding_data_for_deletion]
     IN  IF loc_event = None THEN GoOn(copies, AfterEvent(copies))
         ELSE dpc' = "event" /\ local' = copies
  /\ loc_event' = None
  /\ deferred_action_flags' = {}
  /\ agps_status' = None
  /\ UNCHANGED <<aiding_data_for_deletion, engine_status>>
  /\ UNCHANGED <<ioctlVars, niVars, stopVars, callerVars, historyVars>>

(* A variant that waits without a look at the flags.                       *)
SleepUntested ==
  /\ At("top") /\ DeferredReturned
  /\ wake_lock' = FALSE
  /\ dpc' = "asleep"
  /\ UNCHANGED <<loc_event, deferred_action_flags, agps_status, aiding_data_for_deletion,
                 engine_status, signalled, local>>
  /\ UNCHANGED <<ioctlVars, niVars, stopVars, callerVars, historyVars>>

Sleep ==
  /\ At("top") /\ DeferredReturned /\ deferred_action_flags = {}
  /\ wake_lock' = FALSE
  /\ dpc' = "asleep"
  /\ UNCHANGED <<loc_event, deferred_action_flags, agps_status, aiding_data_for_deletion,
                 engine_status, signalled, local>>
  /\ UNCHANGED <<ioctlVars, niVars, stopVars, callerVars, historyVars>>

Proceed ==
  /\ At("top") /\ DeferredReturned /\ deferred_action_flags # {}
  /\ TakeAll
  /\ UNCHANGED <<wake_lock, signalled>>

(* A variant that does not take the wake lock again.                       *)
AwakeUnlocked ==
  /\ At("asleep")
  /\ signalled' = FALSE
  /\ TakeAll
  /\ UNCHANGED wake_lock

(* The wait is not in a loop: the thread goes on whatever woke it.         *)
Awake ==
  /\ At("asleep")
  /\ wake_lock' = TRUE
  /\ signalled' = FALSE
  /\ TakeAll

Woken == signalled /\ Awake
SpuriousWake == ~signalled /\ Awake

(* loc_eng_process_loc_event, one operation for each kind of event.        *)
Processing(kinds) == At("event") /\ local.event.kind \in kinds

Processed == GoOn(local, AfterEvent(local))

(* loc_eng_report_position, _sv, _nmea, the XTRA request: a callback.      *)
HandOn ==
  /\ Processing({"POSITION"}) /\ Processed
  /\ NoShared /\ UNCHANGED <<ioctlVars, niVars, stopVars, callerVars, historyVars>>

(* loc_eng_ioctl_process_cb: the signal, if any, is a step of its own.     *)
ProcessReport ==
  /\ Processing({"IOCTL_REPORT"})
  /\ StoreReport(local.event.type, local.event.ok)
  /\ GoOn(local, IF Matches(local.event.type) THEN "signal" ELSE AfterEvent(local))
  /\ NoShared /\ UNCHANGED <<niVars, stopVars, callerVars, historyVars>>

Signal ==
  /\ At("signal") /\ Processed
  /\ SignalWaiter
  /\ NoShared /\ UNCHANGED <<niVars, stopVars, callerVars, historyVars>>

(* loc_eng_report_status.  Aiding data marked for deletion while the       *)
(* engine was on is deleted on the next turn of the thread.                *)
StatusOf(kind) ==
  CASE kind = "ENGINE_ON" -> "SESSION_BEGIN" [] kind = "ENGINE_OFF" -> "ENGINE_OFF"
    [] OTHER -> "NONE"

ReportStatus ==
  /\ Processing({"ENGINE_ON", "ENGINE_OFF", "STATUS_OTHER"})
  /\ Processed
  /\ engine_status' = StatusOf(local.event.kind)
  /\ IF engine_status' # "SESSION_BEGIN" /\ aiding_data_for_deletion
     THEN Raise("DELETE_AIDING")
     ELSE UNCHANGED <<deferred_action_flags, wake_lock, signalled>>
  /\ UNCHANGED <<loc_event, agps_status, aiding_data_for_deletion>>
  /\ UNCHANGED <<ioctlVars, niVars, stopVars, callerVars, historyVars>>

(* loc_eng_process_conn_request.  agps_request_pending belongs to          *)
(* deferred_stop_mutex; here it is written under the other mutex.          *)
ConnRequest ==
  /\ Processing({"SERVER_OPEN", "SERVER_CLOSE"})
  /\ Processed
  /\ LET open == local.event.kind = "SERVER_OPEN"
     IN  /\ agps_status' = IF open THEN "REQUEST" ELSE "RELEASE"
         /\ agps_request_pending' = open
  /\ Raise("AGPS_STATUS")
  /\ asked' = Append(asked, agps_status')
  /\ UNCHANGED <<loc_event, aiding_data_for_deletion, engine_status>>
  /\ UNCHANGED <<stop_request_pending, stopOwed, told, ioctlVars, niVars, callerVars>>

(* loc_ni_request_handler: an overlapping request is ignored.  The test is *)
(* made without the lock, the rest under it.                               *)
NiRequest ==
  /\ Processing({"NI_REQUEST"})
  /\ GoOn(local, IF notif_in_progress THEN AfterEvent(local) ELSE "ni")
  /\ NoShared /\ UNCHANGED <<ioctlVars, niVars, stopVars, callerVars, historyVars>>

NiSave ==
  /\ At("ni") /\ Processed
  /\ SaveRequest
  /\ NoShared /\ UNCHANGED <<ioctlVars, stopVars, callerVars, historyVars>>

ProcessEvent ==
  \/ HandOn \/ ProcessReport \/ Signal
  \/ ReportStatus \/ ConnRequest \/ NiRequest \/ NiSave

(* The deletion of aiding data, as the turn began.                         *)
DeleteAidingDeferred ==
  /\ At("aiding") /\ GoOn(local, AfterAiding(local))
  /\ aiding_data_for_deletion' = FALSE
  /\ Setup(Deferred, "DELETE_ASSIST")
  /\ UNCHANGED <<loc_event, deferred_action_flags, agps_status, engine_status, wake_lock,
                 signalled, niVars, stopVars, callerVars, historyVars>>

(* loc_eng_process_atl_deferred_action: the modem is told what became of   *)
(* the data connection; a close hides an open that came with it.           *)
InformModem ==
  /\ At("atl") /\ DeferredReturned /\ GoOn(local, "informed")
  /\ Setup(Deferred, IF "DATA_CLOSED" \in local.flags THEN "CLOSE_STATUS" ELSE "OPEN_STATUS")
  /\ NoShared /\ UNCHANGED <<niVars, stopVars, callerVars, historyVars>>

(* Then the stop that was put off is made.  Nothing ever clears            *)
(* stop_request_pending.                                                   *)
Informed ==
  /\ At("informed") /\ DeferredReturned
  /\ GoOn(local, IF local.status # None THEN "tell" ELSE "top")
  /\ agps_request_pending' = FALSE
  /\ stopOwed' = (stopOwed /\ ~stop_request_pending)
  /\ NoShared
  /\ UNCHANGED <<stop_request_pending, ioctlVars, niVars, callerVars, historyVars>>

(* agps_status_cb: the framework is asked for the connection, or to let it *)
(* go, and owes an answer.                                                 *)
Tell ==
  /\ At("tell") /\ DeferredReturned /\ GoOn(local, "top")
  /\ due' = due \cup {local.status}
  /\ told' = Append(told, local.status)
  /\ NoShared
  /\ UNCHANGED <<ioctlVars, niVars, stopVars, cpc, events, calls, asked>>

DeferredStep ==
  \/ StartDeferred \/ Sleep \/ Proceed \/ Woken \/ ProcessEvent
  \/ DeleteAidingDeferred \/ InformModem \/ Informed \/ Tell

-----------------------------------------------------------------------------
(* The framework.                                                          *)
Begin(c, place) ==
  /\ cpc[c] = "idle" /\ calls < MaxCalls
  /\ calls' = calls + 1
  /\ cpc' = [cpc EXCEPT ![c] = place]

Goes(c, place) == cpc' = [cpc EXCEPT ![c] = place] /\ UNCHANGED <<due, events, calls>>

(* loc_eng_set_position_mode, loc_eng_inject_time, the last part of an     *)
(* XTRA injection; loc_eng_start when the address of the server goes       *)
(* before loc_start_fix.  The result of the request is only logged.        *)
SetPositionMode(c) ==
  /\ Begin(c, "mode") /\ Setup(c, "FIX_CRITERIA")
  /\ UNCHANGED <<due, events, niVars, deferredVars, stopVars, historyVars>>

Start(c) ==
  /\ Begin(c, "slp") /\ Setup(c, "SLP_ADDR")
  /\ UNCHANGED <<due, events, niVars, deferredVars, stopVars, historyVars>>

(* loc_eng_stop: put off while a data connection is pending; the RPC is    *)
(* made after the mutex is released.                                       *)
Stop(c) ==
  /\ IF agps_request_pending
     THEN /\ Begin(c, "idle")
          /\ stop_request_pending' = TRUE
          /\ stopOwed' = TRUE
     ELSE Begin(c, "stopping") /\ UNCHANGED <<stop_request_pending, stopOwed>>
  /\ UNCHANGED <<agps_request_pending, due, events, ioctlVars, niVars, deferredVars, historyVars>>

StopFix(c) ==
  /\ cpc[c] = "stopping" /\ Goes(c, "idle")
  /\ stopOwed' = FALSE
  /\ UNCHANGED <<agps_request_pending, stop_request_pending>>
  /\ UNCHANGED <<ioctlVars, niVars, deferredVars, historyVars>>

(* loc_eng_delete_aiding_data.                                             *)
DeleteAidingData(c) ==
  /\ Begin(c, "idle")
  /\ aiding_data_for_deletion' = TRUE
  /\ IF engine_status # "SESSION_BEGIN"
     THEN Raise("DELETE_AIDING")
     ELSE UNCHANGED <<deferred_action_flags, wake_lock, signalled>>
  /\ UNCHANGED <<loc_event, agps_status, engine_status, dpc, local>>
  /\ UNCHANGED <<due, events, ioctlVars, niVars, stopVars, historyVars>>

(* loc_eng_ni_respond: the user answers notification id.                   *)
NiRespond(c) ==
  /\ \E id \in 1..notifs : AnswerAccepted(id)
  /\ Begin(c, "answer")
  /\ UNCHANGED <<due, events, ioctlVars, niVars, deferredVars, stopVars, historyVars>>

SendAnswer(c) ==
  /\ cpc[c] = "answer" /\ Goes(c, "answering")
  /\ Setup(c, "NI_RESPONSE")
  /\ UNCHANGED <<niVars, deferredVars, stopVars, historyVars>>

Answered(c) ==
  /\ cpc[c] = "answering" /\ call[c].at = "out" /\ Goes(c, "idle")
  /\ ClearNotif
  /\ UNCHANGED <<ioctlVars, deferredVars, stopVars, historyVars>>

Returns(c) ==
  /\ cpc[c] \in {"mode", "slp"} /\ call[c].at = "out" /\ Goes(c, "idle")
  /\ UNCHANGED <<ioctlVars, niVars, deferredVars, stopVars, historyVars>>

CallerReturns(c) == StopFix(c) \/ SendAnswer(c) \/ Answered(c) \/ Returns(c)

CallerBegins(c) ==
  SetPositionMode(c) \/ Start(c) \/ Stop(c) \/ DeleteAidingData(c) \/ NiRespond(c)

(* loc_eng_agps_data_conn_open, _failed, _closed: the answer.              *)
DataConnAnswer ==
  /\ \/ \E flag \in {"DATA_SUCCESS", "DATA_FAILED"} :
          "REQUEST" \in due /\ due' = due \ {"REQUEST"} /\ Raise(flag)
     \/ "RELEASE" \in due /\ due' = due \ {"RELEASE"} /\ Raise("DATA_CLOSED")
  /\ UNCHANGED <<loc_event, agps_status, aiding_data_for_deletion, engine_status, dpc, local>>
  /\ UNCHANGED <<cpc, events, calls, ioctlVars, niVars, stopVars, historyVars>>

-----------------------------------------------------------------------------
InIoctl(t) ==
  /\ IoctlStep(t)
  /\ UNCHANGED <<niVars, deferredVars, stopVars, callerVars, historyVars>>

NiStep ==
  /\ NiThreadStep
  /\ UNCHANGED <<deferredVars, stopVars, callerVars, historyVars>>

Next ==
  \/ ModemEvent \/ ModemReport
  \/ DeferredStep \/ SpuriousWake
  \/ \E t \in Threads : InIoctl(t)
  \/ NiStep
  \/ \E c \in Callers : CallerBegins(c) \/ CallerReturns(c)
  \/ DataConnAnswer

Spec == Init /\ [][Next]_vars

(* Threads run, waits with a timeout end, seconds pass, and the framework  *)
(* answers each connection it was asked for.  Nothing obliges the modem,   *)
(* the callers or spurious wake-ups.                                       *)
Fairness ==
  /\ WF_vars(DeferredStep) /\ WF_vars(NiStep) /\ WF_vars(DataConnAnswer)
  /\ \A t \in Threads : WF_vars(InIoctl(t))
  /\ \A c \in Callers : WF_vars(CallerReturns(c))

FairSpec == Spec /\ Fairness

-----------------------------------------------------------------------------
(* The deferred thread is the one that processes reports, so no report     *)
(* ever answers a request of its own: each of its waits ends at the        *)
(* timeout, and every event that comes meanwhile waits a second, if it is  *)
(* not overwritten.                                                        *)
DeferredNeverAnswered ==
  /\ call[Deferred].at # "woken" /\ ~call[Deferred].ok
  /\ call[Deferred].at \in {"send", "wait", "asleep"} => ~cb_has_arrived

(* The NI thread keeps loc_ni_lock while it waits for a report that only   *)
(* the deferred thread can deliver: the deferred thread must not be        *)
(* waiting for that lock.                                                  *)
DeliveryNotBlocked == At("ni") => loc_ni_lock # NiThread

(* The wake lock is held while anything is waiting for the deferred thread *)
(* and while that thread is at work.                                       *)
AwakeWhileBusy ==
  /\ deferred_action_flags # {} => wake_lock
  /\ dpc \notin {"start", "top", "asleep"} => wake_lock

(* Nothing that was left for the deferred thread is overlooked: a full     *)
(* slot has its flag, and a thread that waits while a flag is up has been  *)
(* signalled, although the wait is not in a loop and is entered on a test  *)
(* of the flags alone.                                                     *)
NothingOverlooked ==
  /\ loc_event # None => "EVENT" \in deferred_action_flags
  /\ agps_status # None => "AGPS_STATUS" \in deferred_action_flags
  /\ At("asleep") /\ deferred_action_flags # {} => signalled

(* Every connection the modem asked for or let go, once its event has been *)
(* processed, is passed on to the framework exactly once and in order,     *)
(* although agps_status has room for one.                                  *)
Present(status) == IF status = None THEN <<>> ELSE <<status>>

StatusToldInOrder == told \o Present(local.status) \o Present(agps_status) = asked

(* A stop that was put off is not stranded: while it waits, the one flag   *)
(* that lets loc_eng_process_atl_deferred_action make it is set, and the   *)
(* data connection it waits for is somewhere on its way: still to be asked *)
(* for or let go, with the framework, or answered and not yet told to the  *)
(* modem.  The same holds while loc_eng_stop would put a stop off.         *)
ConnectionUnderWay ==
  \/ agps_status # None \/ local.status # None
  \/ due # {}
  \/ deferred_action_flags \cap DataFlags # {}
  \/ local.flags \cap DataFlags # {} /\ dpc # "tell"

StopNotStranded ==
  /\ agps_request_pending \/ stopOwed => ConnectionUnderWay
  /\ stopOwed => stop_request_pending

(* Aiding data that is marked for deletion while the engine is on is       *)
(* deleted when the engine is turned off (loc_eng.cpp:543-546, 1491): a    *)
(* turn of the thread that only has an event of the modem to process       *)
(* deletes nothing while the engine is on.                                 *)
AidingDeletedWhenOff ==
  [][At("aiding") /\ dpc' # "aiding" /\ local.flags = {"EVENT"}
       => engine_status # "SESSION_BEGIN"]_vars

(* What is raised is taken: no wake-up of the deferred thread is lost.     *)
FlagsTaken == deferred_action_flags # {} ~> deferred_action_flags = {}

(* A stop put off for a data connection is made once the framework has     *)
(* answered.                                                               *)
StopHonoured == stopOwed ~> ~stopOwed

(* A notification the user leaves alone is over in the end.                *)
NiClears == notif_in_progress ~> ~notif_in_progress
=============================================================================
