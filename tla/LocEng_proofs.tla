---------------------------- MODULE LocEng_proofs ----------------------------
(***************************************************************************)
(* Proofs about the location engine, for any number of threads of the      *)
(* framework, any events and any number of them.                           *)
(***************************************************************************)
EXTENDS LocEng, SequenceTheorems, TLAPS

-----------------------------------------------------------------------------
(* The inductive invariant, in the parts that the steps disturb.           *)

Copies == [event : Event \cup {None}, flags : SUBSET Flags,
           status : Connection \cup {None}, aiding : BOOLEAN]

DeferredPlaces ==
  {"start", "top", "asleep", "event", "signal", "ni", "aiding", "atl", "informed", "tell"}

EngTypeOK ==
  /\ loc_event \in Event \cup {None} /\ deferred_action_flags \subseteq Flags
  /\ agps_status \in Connection \cup {None}
  /\ aiding_data_for_deletion \in BOOLEAN
  /\ engine_status \in {"NONE", "SESSION_BEGIN", "ENGINE_OFF"}
  /\ wake_lock \in BOOLEAN /\ signalled \in BOOLEAN
  /\ dpc \in DeferredPlaces
  /\ local \in Copies

StopTypeOK ==
  agps_request_pending \in BOOLEAN /\ stop_request_pending \in BOOLEAN /\ stopOwed \in BOOLEAN

CallerTypeOK ==
  /\ cpc \in [Callers -> {"idle", "mode", "slp", "stopping", "answer", "answering"}]
  /\ due \subseteq Connection
  /\ events \in 0..MaxEvents /\ calls \in 0..MaxCalls

HistoryTypeOK == asked \in Seq(Connection) /\ told \in Seq(Connection)

\* The requests of the deferred thread are never answered.
IoctlOK == IoctlTypeOK /\ DeferredNeverAnswered

\* The NI thread answers only while a notification is in progress.
NiOK == NiTypeOK /\ NiTimed /\ (loc_ni_lock = NiThread => notif_in_progress)

\* What the deferred thread carries where it is.
Carried ==
  /\ dpc \in {"start", "top", "asleep"} => local = Nothing
  /\ dpc = "event" => local.event # None /\ agps_status = None
  /\ dpc = "tell" => local.status # None

EngOK == EngTypeOK /\ Carried /\ AwakeWhileBusy

\* Where the deferred thread has no request under way.
Handling == {"start", "asleep", "event", "signal", "ni", "aiding"}
FreeToHandle == dpc \in Handling => call[Deferred].at = "out"

\* The deferred thread waits for the lock only if nothing is in progress.
LockSoon == dpc = "ni" => ~notif_in_progress

IInv ==
  /\ IoctlOK /\ NiOK /\ EngOK /\ StopTypeOK /\ CallerTypeOK /\ HistoryTypeOK
  /\ FreeToHandle /\ LockSoon /\ StatusToldInOrder

-----------------------------------------------------------------------------
(* Requests                                                                *)

\* call changes at thread t only, to a record r.
Becomes(t, r) ==
  /\ call' \in [Threads -> Call]
  /\ call'[t] = r
  /\ \A x \in Threads \ {t} : call'[x] = call[x]

LEMMA OneCall ==
  ASSUME call \in [Threads -> Call], NEW t \in Threads, NEW r \in Call,
         call' = [call EXCEPT ![t] = r]
  PROVE  Becomes(t, r)
BY DEF Becomes

\* The two ways a thread moves on inside the function.
LEMMA MovesOn ==
  ASSUME call \in [Threads -> Call], NEW t \in Threads, NEW place \in Places,
         GoTo(t, place)
  PROVE  Becomes(t, [at |-> place, type |-> call[t].type, ok |-> call[t].ok])
<1>1. call[t] \in Call
  OBVIOUS
<1>2. [at |-> place, type |-> call[t].type, ok |-> call[t].ok] \in Call
  BY <1>1 DEF Call
<1>3. [call[t] EXCEPT !.at = place] = [at |-> place, type |-> call[t].type, ok |-> call[t].ok]
  BY <1>1 DEF Call
<1>4. call' = [call EXCEPT ![t] = [call[t] EXCEPT !.at = place]]
  BY DEF GoTo
<1>. QED BY <1>2, <1>3, <1>4, OneCall

LEMMA Finishes ==
  ASSUME call \in [Threads -> Call], NEW t \in Threads, NEW ok \in BOOLEAN,
         Finish(t, ok)
  PROVE  Becomes(t, [at |-> "reset", type |-> call[t].type, ok |-> ok])
<1>1. call[t] \in Call
  OBVIOUS
<1>2. [at |-> "reset", type |-> call[t].type, ok |-> ok] \in Call
  BY <1>1 DEF Call, Places
<1>3. [[call[t] EXCEPT !.at = "reset"] EXCEPT !.ok = ok]
        = [at |-> "reset", type |-> call[t].type, ok |-> ok]
  <2>1. [call[t] EXCEPT !.at = "reset"]
          = [at |-> "reset", type |-> call[t].type, ok |-> call[t].ok]
    BY <1>1 DEF Call
  <2>2. \A y : [[at |-> "reset", type |-> call[t].type, ok |-> y] EXCEPT !.ok = ok]
                 = [at |-> "reset", type |-> call[t].type, ok |-> ok]
    OBVIOUS
  <2>. QED BY <2>1, <2>2, Zenon
<1>4. call' = [call EXCEPT ![t] = [[call[t] EXCEPT !.at = "reset"] EXCEPT !.ok = ok]]
  BY DEF Finish
<1>. QED BY <1>2, <1>3, <1>4, OneCall

\* What the deferred thread may look like in a request, a the arrival flag.
Unanswered(r, a) ==
  r.at # "woken" /\ r.ok = FALSE /\ (r.at \in {"send", "wait", "asleep"} => a = FALSE)

\* A step that changes one thread's call keeps the invariant if it leaves
\* the deferred thread without an answer.
LEMMA OneCallOK ==
  ASSUME IoctlOK, NEW t \in Threads, NEW r \in Call, Becomes(t, r),
         cb_is_selected' \in BOOLEAN, cb_has_arrived' \in BOOLEAN, cb_payload' \in BOOLEAN,
         ioctl_type' \in IoctlTypes \cup {None}, owed' \in [IoctlTypes -> Nat],
         t = Deferred => Unanswered(r, cb_has_arrived'),
         cb_has_arrived' = cb_has_arrived \/ cb_has_arrived' = FALSE
  PROVE  IoctlOK'
<1>. Deferred \in Threads
  BY LocEngAssumption
<1>1. Unanswered(call[Deferred], cb_has_arrived)
  BY DEF IoctlOK, IoctlTypeOK, DeferredNeverAnswered, Unanswered, Call
<1>2. IoctlTypeOK'
  BY DEF IoctlTypeOK, Becomes
<1>3. Unanswered(call'[Deferred], cb_has_arrived')
  <2>1. CASE t = Deferred
    BY <2>1 DEF Becomes
  <2>2. CASE t # Deferred
    <3>1. call'[Deferred] = call[Deferred]
      BY <2>2 DEF Becomes
    <3>. QED BY <1>1, <3>1 DEF Unanswered
  <2>. QED BY <2>1, <2>2
<1>. QED BY <1>2, <1>3 DEF IoctlOK, DeferredNeverAnswered, Unanswered

\* The setup of a request by thread t.
LEMMA SetupOK ==
  ASSUME IoctlOK, NEW t \in Threads, NEW type \in IoctlTypes, Setup(t, type)
  PROVE  IoctlOK' /\ (t # Deferred => call'[Deferred] = call[Deferred])
<1>. Deferred \in Threads
  BY LocEngAssumption
<1>. IoctlTypeOK
  BY DEF IoctlOK
<1>. DEFINE R(place) == [at |-> place, type |-> type, ok |-> FALSE]
<1>1. R("send") \in Call /\ R("reset") \in Call
  BY DEF Call, Places
<1>2. CASE cb_is_selected
  <2>1. Becomes(t, R("reset"))
    BY <1>1, <1>2, OneCall DEF Setup, IoctlTypeOK
  <2>2. Unanswered(R("reset"), cb_has_arrived')
    BY DEF Unanswered
  <2>3. IoctlOK'
    BY <1>1, <1>2, <2>1, <2>2, OneCallOK DEF Setup, IoctlTypeOK
  <2>. QED BY <2>1, <2>3 DEF Becomes
<1>3. CASE ~cb_is_selected
  <2>1. Becomes(t, R("send"))
    BY <1>1, <1>3, OneCall DEF Setup, IoctlTypeOK
  <2>2. cb_is_selected' = TRUE /\ cb_has_arrived' = FALSE /\ ioctl_type' = type
          /\ cb_payload' = TRUE /\ owed' = owed
    BY <1>3 DEF Setup
  <2>3. Unanswered(R("send"), cb_has_arrived')
    BY <2>2 DEF Unanswered
  <2>4. IoctlOK'
    BY <1>1, <2>1, <2>2, <2>3, OneCallOK DEF IoctlTypeOK
  <2>. QED BY <2>1, <2>4 DEF Becomes
<1>. QED BY <1>2, <1>3

\* A step of thread t inside loc_eng_ioctl.
LEMMA IoctlStepOK ==
  ASSUME IoctlOK, NEW t \in Threads, IoctlStep(t)
  PROVE  IoctlOK' /\ (call[Deferred].at = "out" => call'[Deferred].at = "out")
<1>. Deferred \in Threads
  BY LocEngAssumption
<1>. IoctlTypeOK /\ call[t] \in Call /\ call \in [Threads -> Call]
  BY DEF IoctlOK, IoctlTypeOK
<1>. DEFINE R(place, ok) == [at |-> place, type |-> call[t].type, ok |-> ok]
<1>1. \A place \in Places, ok \in BOOLEAN : R(place, ok) \in Call
  BY DEF Call
<1>2. t = Deferred => Unanswered(call[t], cb_has_arrived)
  BY DEF IoctlOK, DeferredNeverAnswered, Unanswered, Call
<1>3. SUFFICES ASSUME call[t].at # "out"
               PROVE  IoctlOK' /\ \E r \in Call : Becomes(t, r)
  <2>1. call[t].at # "out"
    BY DEF IoctlStep, Rpc, WaitCb, Timeout, TakePayload, Reset
  <2>2. IoctlOK' /\ \E r \in Call : Becomes(t, r)
    BY <1>3, <2>1
  <2>. QED BY <2>1, <2>2 DEF Becomes
<1>4. CASE Rpc(t)
  <2>1. call[t].at = "send" /\ call[t].type \in IoctlTypes \cup {None}
    BY <1>4 DEF Rpc, Call
  <2>2. owed' \in [IoctlTypes -> Nat]
    <3>1. owed \in [IoctlTypes -> Nat]
      BY DEF IoctlTypeOK
    <3>2. CASE owed' = owed
      BY <3>1, <3>2
    <3>3. CASE owed' = [owed EXCEPT ![call[t].type] = owed[call[t].type] + 1]
      <4>. DEFINE y == call[t].type
      <4>. HIDE DEF IoctlTypes
      <4>1. CASE y \in IoctlTypes
        BY <3>1, <3>3, <4>1
      <4>2. CASE y \notin IoctlTypes
        BY <3>1, <3>3, <4>2
      <4>. QED BY <4>1, <4>2
    <3>. QED BY <1>4, <3>2, <3>3 DEF Rpc
  <2>3. UNCHANGED <<cb_is_selected, cb_has_arrived, ioctl_type, cb_payload>>
    BY <1>4 DEF Rpc
  <2>4. CASE GoTo(t, "wait")
    <3>1. R("wait", call[t].ok) \in Call /\ Becomes(t, R("wait", call[t].ok))
      BY <1>1, <2>4, MovesOn DEF Places, Call
    <3>2. t = Deferred => Unanswered(R("wait", call[t].ok), cb_has_arrived')
      BY <1>2, <2>1, <2>3 DEF Unanswered
    <3>. QED BY <2>2, <2>3, <3>1, <3>2, OneCallOK DEF IoctlTypeOK
  <2>5. CASE Finish(t, FALSE)
    <3>1. R("reset", FALSE) \in Call /\ Becomes(t, R("reset", FALSE))
      BY <1>1, <2>5, Finishes DEF Places
    <3>2. t = Deferred => Unanswered(R("reset", FALSE), cb_has_arrived')
      BY DEF Unanswered
    <3>. QED BY <2>2, <2>3, <3>1, <3>2, OneCallOK DEF IoctlTypeOK
  <2>. QED BY <1>4, <2>4, <2>5 DEF Rpc
<1>5. CASE WaitCb(t)
  <2>1. UNCHANGED <<cb_is_selected, cb_has_arrived, ioctl_type, cb_payload, owed>>
    BY <1>5 DEF WaitCb
  <2>2. call[t].at = "wait"
    BY <1>5 DEF WaitCb
  <2>3. CASE Finish(t, FALSE)
    <3>1. R("reset", FALSE) \in Call /\ Becomes(t, R("reset", FALSE))
      BY <1>1, <2>3, Finishes DEF Places
    <3>2. t = Deferred => Unanswered(R("reset", FALSE), cb_has_arrived')
      BY DEF Unanswered
    <3>. QED BY <2>1, <3>1, <3>2, OneCallOK DEF IoctlTypeOK
  <2>4. CASE cb_has_arrived /\ Finish(t, cb_payload)
    <3>1. R("reset", cb_payload) \in Call /\ Becomes(t, R("reset", cb_payload))
      BY <1>1, <2>4, Finishes DEF Places, IoctlTypeOK
    <3>2. t # Deferred
      BY <1>2, <2>2, <2>4 DEF Unanswered
    <3>. QED BY <2>1, <3>1, <3>2, OneCallOK DEF IoctlTypeOK
  <2>5. CASE GoTo(t, "asleep")
    <3>1. R("asleep", call[t].ok) \in Call /\ Becomes(t, R("asleep", call[t].ok))
      BY <1>1, <2>5, MovesOn DEF Places, Call
    <3>2. t = Deferred => Unanswered(R("asleep", call[t].ok), cb_has_arrived')
      BY <1>2, <2>1, <2>2 DEF Unanswered
    <3>. QED BY <2>1, <3>1, <3>2, OneCallOK DEF IoctlTypeOK
  <2>. QED BY <1>5, <2>3, <2>4, <2>5 DEF WaitCb
<1>6. CASE Timeout(t)
  <2>1. UNCHANGED <<cb_is_selected, cb_has_arrived, ioctl_type, cb_payload, owed>>
    BY <1>6 DEF Timeout
  <2>2. R("reset", FALSE) \in Call /\ Becomes(t, R("reset", FALSE))
    BY <1>1, <1>6, Finishes DEF Places, Timeout
  <2>3. t = Deferred => Unanswered(R("reset", FALSE), cb_has_arrived')
    BY DEF Unanswered
  <2>. QED BY <2>1, <2>2, <2>3, OneCallOK DEF IoctlTypeOK
<1>7. CASE TakePayload(t)
  <2>1. UNCHANGED <<cb_is_selected, cb_has_arrived, ioctl_type, cb_payload, owed>>
    BY <1>7 DEF TakePayload
  <2>2. R("reset", cb_payload) \in Call /\ Becomes(t, R("reset", cb_payload))
    BY <1>1, <1>7, Finishes DEF Places, TakePayload, IoctlTypeOK
  <2>3. t # Deferred
    BY <1>2, <1>7 DEF Unanswered, TakePayload
  <2>. QED BY <2>1, <2>2, <2>3, OneCallOK DEF IoctlTypeOK
<1>8. CASE Reset(t)
  <2>1. cb_is_selected' = FALSE /\ cb_has_arrived' = FALSE
          /\ UNCHANGED <<ioctl_type, cb_payload, owed>>
    BY <1>8 DEF Reset
  <2>2. NoCall \in Call
    BY DEF NoCall, Call, Places
  <2>3. Becomes(t, NoCall)
    BY <1>8, <2>2, OneCall DEF Reset
  <2>4. Unanswered(NoCall, cb_has_arrived')
    BY <2>1 DEF Unanswered, NoCall
  <2>. QED BY <2>1, <2>2, <2>3, <2>4, OneCallOK DEF IoctlTypeOK
<1>. QED BY <1>4, <1>5, <1>6, <1>7, <1>8 DEF IoctlStep

\* A report processed by the deferred thread, which is in no request then.
LEMMA StoreOK ==
  ASSUME IoctlOK, call[Deferred].at = "out", NEW type, NEW ok \in BOOLEAN,
         StoreReport(type, ok)
  PROVE  IoctlOK' /\ call' = call
<1>1. cb_payload' \in BOOLEAN /\ cb_has_arrived' \in BOOLEAN
        /\ UNCHANGED <<cb_is_selected, ioctl_type, call, owed>>
  <2>1. CASE Matches(type)
    BY <2>1 DEF StoreReport
  <2>2. CASE ~Matches(type)
    BY <2>2 DEF StoreReport, IoctlOK, IoctlTypeOK
  <2>. QED BY <2>1, <2>2
<1>. QED BY <1>1 DEF IoctlOK, IoctlTypeOK, DeferredNeverAnswered

LEMMA SignalOK ==
  ASSUME IoctlOK, call[Deferred].at = "out", SignalWaiter
  PROVE  IoctlOK' /\ call'[Deferred].at = "out"
<1>. Deferred \in Threads
  BY LocEngAssumption
<1>. call \in [Threads -> Call] /\ IoctlTypeOK
  BY DEF IoctlOK, IoctlTypeOK
<1>0. UNCHANGED <<cb_is_selected, cb_has_arrived, ioctl_type, cb_payload, owed>>
  BY DEF SignalWaiter
<1>1. CASE Asleep = {}
  <2>1. call' = call
    BY <1>1 DEF SignalWaiter
  <2>. QED BY <1>0, <2>1 DEF IoctlOK, IoctlTypeOK, DeferredNeverAnswered
<1>2. CASE Asleep # {}
  <2>1. PICK t \in Asleep : GoTo(t, "woken")
    BY <1>2 DEF SignalWaiter
  <2>2. t \in Threads /\ t # Deferred
    BY DEF Asleep
  <2>. DEFINE r == [at |-> "woken", type |-> call[t].type, ok |-> call[t].ok]
  <2>3. Becomes(t, r)
    BY <2>1, <2>2, MovesOn DEF Places
  <2>4. call[t] \in Call
    BY <2>2
  <2>5. r \in Call
    BY <2>4 DEF Call, Places
  <2>6. IoctlOK'
    BY <1>0, <2>2, <2>3, <2>5, OneCallOK DEF IoctlTypeOK
  <2>. QED BY <2>2, <2>3, <2>6 DEF Becomes
<1>. QED BY <1>1, <1>2

LEMMA SameIoctl ==
  ASSUME IoctlOK, UNCHANGED ioctlVars
  PROVE  IoctlOK' /\ call' = call
BY DEF ioctlVars, IoctlOK, IoctlTypeOK, DeferredNeverAnswered

-----------------------------------------------------------------------------
(* Notifications                                                           *)

LEMMA SaveOK ==
  ASSUME NiOK, SaveRequest
  PROVE  NiOK'
<1>1. /\ loc_ni_lock = None /\ loc_ni_lock' = loc_ni_lock
      /\ notif_in_progress' = TRUE /\ response_time_left' = ResponseTime
      /\ notifs' = notifs + 1 /\ current_notif_id' = notifs + 1
  BY DEF SaveRequest
<1>2. NiTypeOK'
  BY <1>1, NiAssumption DEF NiOK, NiTypeOK
<1>3. NiTimed' /\ (loc_ni_lock = NiThread => notif_in_progress)'
  BY <1>1, NiAssumption DEF NiTimed
<1>. QED BY <1>2, <1>3 DEF NiOK

LEMMA TickOK ==
  ASSUME NiOK, Tick
  PROVE  NiOK' /\ notif_in_progress' = notif_in_progress /\ UNCHANGED ioctlVars
<1>1. /\ loc_ni_lock' = loc_ni_lock /\ response_time_left > 1
      /\ response_time_left' = response_time_left - 1
      /\ notif_in_progress' = notif_in_progress
      /\ UNCHANGED <<notifs, current_notif_id, ioctlVars>>
  BY DEF Tick
<1>2. response_time_left \in 0..ResponseTime
  BY DEF NiOK, NiTypeOK
<1>3. response_time_left' \in 0..ResponseTime /\ response_time_left' > 0
  BY <1>1, <1>2, NiAssumption
<1>4. NiTypeOK'
  BY <1>1, <1>3 DEF NiOK, NiTypeOK
<1>5. NiTimed' /\ (loc_ni_lock = NiThread => notif_in_progress)'
  BY <1>1, <1>3 DEF NiTimed, NiOK
<1>. QED BY <1>1, <1>4, <1>5 DEF NiOK

LEMMA ExpireOK ==
  ASSUME NiOK, IoctlOK, Expire
  PROVE  /\ NiOK' /\ notif_in_progress' = notif_in_progress
         /\ IoctlOK' /\ call'[Deferred] = call[Deferred]
<1>1. /\ loc_ni_lock' = NiThread /\ response_time_left' = 0
      /\ notif_in_progress /\ notif_in_progress' = notif_in_progress
      /\ notifs' = notifs /\ current_notif_id' = current_notif_id
  BY DEF Expire
<1>2. NiTypeOK'
  <2>1. 0 \in 0..ResponseTime
    BY NiAssumption
  <2>2. /\ notif_in_progress' \in BOOLEAN /\ notifs' \in Nat
        /\ current_notif_id' \in 0..notifs'
    BY <1>1 DEF NiOK, NiTypeOK
  <2>3. response_time_left' \in 0..ResponseTime /\ loc_ni_lock' \in {NiThread, None}
    <3>1. response_time_left' = 0 /\ loc_ni_lock' = NiThread
      BY <1>1
    <3>. QED BY ONLY <2>1, <3>1
  <2>. QED BY ONLY <2>2, <2>3 DEF NiTypeOK
<1>3. NiTimed' /\ (loc_ni_lock = NiThread => notif_in_progress)'
  BY <1>1, NiAssumption DEF NiTimed
<1>4. NiThread \in Threads /\ NiThread # Deferred /\ "NI_RESPONSE" \in IoctlTypes
  BY LocEngAssumption DEF IoctlTypes
<1>5. IoctlOK' /\ call'[Deferred] = call[Deferred]
  BY <1>4, SetupOK DEF Expire
<1>. QED BY <1>1, <1>2, <1>3, <1>5 DEF NiOK

LEMMA ExpiredOK ==
  ASSUME NiOK, Expired
  PROVE  NiOK' /\ notif_in_progress' = FALSE /\ UNCHANGED ioctlVars
<1>1. /\ loc_ni_lock' = None /\ notif_in_progress' = FALSE
      /\ UNCHANGED <<response_time_left, current_notif_id, notifs, ioctlVars>>
  BY DEF Expired
<1>2. NiTypeOK'
  BY <1>1 DEF NiOK, NiTypeOK
<1>3. NiTimed' /\ (loc_ni_lock = NiThread => notif_in_progress)'
  BY <1>1, NiAssumption DEF NiTimed
<1>. QED BY <1>1, <1>2, <1>3 DEF NiOK

LEMMA ClearOK ==
  ASSUME NiOK, ClearNotif
  PROVE  NiOK' /\ notif_in_progress' = FALSE
<1>1. /\ loc_ni_lock = None /\ loc_ni_lock' = None /\ notif_in_progress' = FALSE
      /\ response_time_left' = 0 /\ current_notif_id' = 0 /\ notifs' = notifs
  BY DEF ClearNotif
<1>2. NiTypeOK'
  <2>1. notifs \in Nat /\ ResponseTime \in Nat
    BY NiAssumption DEF NiOK, NiTypeOK
  <2>2. 0 \in 0..ResponseTime /\ 0 \in 0..notifs
    BY ONLY <2>1
  <2>. QED BY <1>1, <2>1, <2>2 DEF NiTypeOK
<1>3. NiTimed' /\ (loc_ni_lock = NiThread => notif_in_progress)'
  BY <1>1, NiAssumption DEF NiTimed
<1>. QED BY <1>1, <1>2, <1>3 DEF NiOK

LEMMA SameNi ==
  ASSUME NiOK, UNCHANGED niVars
  PROVE  NiOK' /\ notif_in_progress' = notif_in_progress
<1>1. /\ notif_in_progress' = notif_in_progress /\ response_time_left' = response_time_left
      /\ current_notif_id' = current_notif_id /\ loc_ni_lock' = loc_ni_lock
      /\ notifs' = notifs
  BY DEF niVars
<1>. QED BY <1>1 DEF NiOK, NiTypeOK, NiTimed

-----------------------------------------------------------------------------
(* The deferred thread's way                                               *)

LEMMA AfterAidingOK ==
  ASSUME NEW copies \in Copies
  PROVE  /\ AfterAiding(copies) \in {"atl", "tell", "top"}
         /\ AfterAiding(copies) = "top" => copies.status = None
         /\ AfterAiding(copies) = "tell" => copies.status # None
BY DEF AfterAiding

LEMMA AfterEventOK ==
  ASSUME NEW copies \in Copies
  PROVE  /\ AfterEvent(copies) \in {"aiding", "atl", "tell", "top"}
         /\ AfterEvent(copies) = "top" => copies.status = None
         /\ AfterEvent(copies) = "tell" => copies.status # None
<1>1. CASE LooksOff(copies) /\ copies.aiding
  BY <1>1 DEF AfterEvent
<1>2. CASE ~(LooksOff(copies) /\ copies.aiding)
  BY <1>2, AfterAidingOK DEF AfterEvent
<1>. QED BY <1>1, <1>2

LEMMA NothingOK == Nothing \in Copies /\ Nothing.status = None
BY DEF Nothing, Copies

\* The thread goes on with its turn; the status it has taken stays with it.
LEMMA GoOnOK ==
  ASSUME NEW copies \in Copies,
         NEW place \in {"top", "signal", "ni", "aiding", "atl", "informed", "tell"},
         place = "top" => copies.status = None, place = "tell" => copies.status # None,
         GoOn(copies, place)
  PROVE  /\ dpc' = place /\ local' \in Copies /\ local'.status = copies.status
         /\ Carried'
<1>1. dpc' = place
  BY DEF GoOn
<1>2. CASE place = "top"
  <2>1. local' = Nothing
    BY <1>2 DEF GoOn
  <2>. QED BY <1>1, <1>2, <2>1, NothingOK DEF Carried
<1>3. CASE place # "top"
  <2>1. local' = [copies EXCEPT !.event = None]
    BY <1>3 DEF GoOn
  <2>2. local' \in Copies /\ local'.status = copies.status
    BY <2>1 DEF Copies
  <2>. QED BY <1>1, <1>3, <2>2 DEF Carried
<1>. QED BY <1>2, <1>3

\* Something is raised, and the deferred thread stays where it is.
LEMMA RaiseOK ==
  ASSUME EngOK, NEW flag \in Flags, Raise(flag),
         loc_event' \in Event \cup {None}, aiding_data_for_deletion' \in BOOLEAN,
         UNCHANGED <<agps_status, engine_status, dpc, local>>
  PROVE  EngOK'
<1>1. wake_lock' = TRUE /\ deferred_action_flags' = deferred_action_flags \cup {flag}
        /\ signalled' = (signalled \/ dpc = "asleep")
  BY DEF Raise
<1>2. deferred_action_flags' \subseteq Flags /\ signalled' \in BOOLEAN
  BY <1>1 DEF EngOK, EngTypeOK
<1>3. EngTypeOK'
  BY <1>1, <1>2 DEF EngOK, EngTypeOK
<1>4. Carried'
  BY DEF EngOK, Carried
<1>5. AwakeWhileBusy'
  BY <1>1 DEF AwakeWhileBusy
<1>. QED BY <1>3, <1>4, <1>5 DEF EngOK

LEMMA SameEng ==
  ASSUME EngOK, UNCHANGED deferredVars
  PROVE  EngOK' /\ dpc' = dpc /\ local' = local /\ agps_status' = agps_status
<1>1. /\ loc_event' = loc_event /\ deferred_action_flags' = deferred_action_flags
      /\ agps_status' = agps_status /\ aiding_data_for_deletion' = aiding_data_for_deletion
      /\ engine_status' = engine_status /\ wake_lock' = wake_lock /\ signalled' = signalled
      /\ dpc' = dpc /\ local' = local
  BY DEF deferredVars
<1>2. EngTypeOK'
  BY <1>1 DEF EngOK, EngTypeOK
<1>3. Carried' /\ AwakeWhileBusy'
  BY <1>1 DEF EngOK, Carried, AwakeWhileBusy
<1>. QED BY <1>1, <1>2, <1>3 DEF EngOK

LEMMA SameStop ==
  ASSUME StopTypeOK, UNCHANGED stopVars
  PROVE  StopTypeOK'
BY DEF StopTypeOK, stopVars

LEMMA SameCaller ==
  ASSUME CallerTypeOK, UNCHANGED callerVars
  PROVE  CallerTypeOK'
BY DEF CallerTypeOK, callerVars

LEMMA SameHistory ==
  ASSUME HistoryTypeOK, UNCHANGED historyVars
  PROVE  HistoryTypeOK' /\ asked' = asked /\ told' = told
BY DEF HistoryTypeOK, historyVars

\* The story is the same while the two places of the status hold the same.
LEMMA SameStory ==
  ASSUME StatusToldInOrder, asked' = asked, told' = told,
         local'.status = local.status, agps_status' = agps_status
  PROVE  StatusToldInOrder'
BY DEF StatusToldInOrder, Present

-----------------------------------------------------------------------------
(* Steps of the deferred thread                                            *)

\* Appending to the sequences of the history.
LEMMA Histories ==
  ASSUME NEW s \in Seq(Connection), NEW x \in Connection
  PROVE  s \o <<>> = s /\ s \o <<x>> = Append(s, x) /\ Append(s, x) \in Seq(Connection)
OBVIOUS

LEMMA StartStep ==
  ASSUME IInv, StartDeferred
  PROVE  IInv'
<1>1. At("start") /\ dpc' = "top" /\ UNCHANGED local /\ Setup(Deferred, "ENGINE_LOCK")
  BY DEF StartDeferred
<1>2. IoctlOK'
  BY <1>1, SetupOK, LocEngAssumption DEF IInv, IoctlTypes
<1>3. NiOK' /\ StopTypeOK' /\ CallerTypeOK' /\ HistoryTypeOK' /\ asked' = asked /\ told' = told
  BY SameNi, SameStop, SameCaller, SameHistory DEF IInv, StartDeferred
<1>4. UNCHANGED <<loc_event, deferred_action_flags, agps_status, aiding_data_for_deletion,
                  engine_status, wake_lock, signalled>>
  BY DEF StartDeferred, NoShared
<1>5. EngOK'
  <2>1. EngTypeOK'
    BY <1>1, <1>4 DEF IInv, EngOK, EngTypeOK, DeferredPlaces
  <2>2. Carried' /\ AwakeWhileBusy'
    BY <1>1, <1>4 DEF IInv, EngOK, Carried, AwakeWhileBusy, At
  <2>. QED BY <2>1, <2>2 DEF EngOK
<1>6. FreeToHandle' /\ LockSoon'
  BY <1>1 DEF FreeToHandle, LockSoon, Handling
<1>7. StatusToldInOrder'
  BY <1>1, <1>3, <1>4, SameStory DEF IInv
<1>. QED BY <1>2, <1>3, <1>5, <1>6, <1>7 DEF IInv

LEMMA SleepStep ==
  ASSUME IInv, Sleep
  PROVE  IInv'
<1>1. At("top") /\ DeferredReturned /\ deferred_action_flags = {}
        /\ wake_lock' = FALSE /\ dpc' = "asleep"
        /\ UNCHANGED <<loc_event, deferred_action_flags, agps_status,
                       aiding_data_for_deletion, engine_status, signalled, local>>
  BY DEF Sleep
<1>2. IoctlOK' /\ call' = call
  BY SameIoctl DEF IInv, Sleep
<1>3. NiOK' /\ StopTypeOK' /\ CallerTypeOK' /\ HistoryTypeOK' /\ asked' = asked /\ told' = told
  BY SameNi, SameStop, SameCaller, SameHistory DEF IInv, Sleep
<1>4. EngOK'
  <2>1. EngTypeOK'
    BY <1>1 DEF IInv, EngOK, EngTypeOK, DeferredPlaces
  <2>2. Carried' /\ AwakeWhileBusy'
    BY <1>1 DEF IInv, EngOK, Carried, AwakeWhileBusy, At
  <2>. QED BY <2>1, <2>2 DEF EngOK
<1>5. FreeToHandle' /\ LockSoon'
  BY <1>1, <1>2 DEF FreeToHandle, LockSoon, DeferredReturned
<1>6. StatusToldInOrder'
  BY <1>1, <1>3, SameStory DEF IInv
<1>. QED BY <1>2, <1>3, <1>4, <1>5, <1>6 DEF IInv

\* A turn begins: the copies are all there is to tell.
LEMMA TakeStep ==
  ASSUME IInv, local = Nothing, DeferredReturned, TakeAll, wake_lock' = TRUE,
         signalled' \in BOOLEAN
  PROVE  IInv'
<1>. DEFINE copies == [event |-> loc_event, flags |-> deferred_action_flags,
                       status |-> agps_status, aiding |-> aiding_data_for_deletion]
<1>1. /\ loc_event' = None /\ deferred_action_flags' = {} /\ agps_status' = None
      /\ UNCHANGED <<aiding_data_for_deletion, engine_status>>
  BY DEF TakeAll
<1>2. copies \in Copies
  BY DEF IInv, EngOK, EngTypeOK, Copies
<1>3. /\ dpc' \in {"event", "aiding", "atl", "tell", "top"}
      /\ local' \in Copies /\ local'.status = agps_status /\ Carried'
  <2>1. CASE loc_event = None
    <3>1. GoOn(copies, AfterEvent(copies))
      BY <2>1 DEF TakeAll
    <3>. HIDE DEF copies
    <3>2. Carried' /\ dpc' \in {"aiding", "atl", "tell", "top"}
            /\ local' \in Copies /\ local'.status = copies.status
      BY <1>2, <3>1, AfterEventOK, GoOnOK
    <3>. QED BY <3>2 DEF copies
  <2>2. CASE loc_event # None
    <3>1. dpc' = "event" /\ local' = copies
      BY <2>2 DEF TakeAll
    <3>. QED BY <1>1, <1>2, <2>2, <3>1 DEF Carried
  <2>. QED BY <2>1, <2>2
<1>4. EngTypeOK'
  <2>1. deferred_action_flags' \subseteq Flags /\ wake_lock' \in BOOLEAN
          /\ dpc' \in DeferredPlaces
    BY <1>1, <1>3 DEF DeferredPlaces
  <2>2. aiding_data_for_deletion' \in BOOLEAN
          /\ engine_status' \in {"NONE", "SESSION_BEGIN", "ENGINE_OFF"}
    BY <1>1 DEF IInv, EngOK, EngTypeOK
  <2>. QED BY <1>1, <1>3, <2>1, <2>2 DEF EngTypeOK
<1>5. AwakeWhileBusy'
  BY DEF AwakeWhileBusy
<1>6. IoctlOK' /\ call' = call
  BY SameIoctl DEF IInv, TakeAll
<1>7. NiOK' /\ StopTypeOK' /\ CallerTypeOK' /\ HistoryTypeOK' /\ asked' = asked /\ told' = told
  BY SameNi, SameStop, SameCaller, SameHistory DEF IInv, TakeAll
<1>8. FreeToHandle' /\ LockSoon'
  BY <1>3, <1>6 DEF FreeToHandle, LockSoon, DeferredReturned
<1>9. StatusToldInOrder'
  <2>1. told \o Present(None) \o Present(agps_status) = asked
    BY NothingOK DEF IInv, StatusToldInOrder
  <2>2. told \in Seq(Connection) /\ agps_status \in Connection \cup {None}
    BY DEF IInv, HistoryTypeOK, EngOK, EngTypeOK
  <2>3. told \o Present(agps_status) \o Present(None) = asked
    BY <2>1, <2>2 DEF Present
  <2>. QED BY <1>1, <1>3, <1>7, <2>3 DEF StatusToldInOrder
<1>. QED BY <1>3, <1>4, <1>5, <1>6, <1>7, <1>8, <1>9 DEF IInv, EngOK

LEMMA TurnStep ==
  ASSUME IInv, Proceed \/ Awake
  PROVE  IInv'
<1>1. local = Nothing /\ DeferredReturned
  BY DEF IInv, EngOK, Carried, FreeToHandle, Handling, DeferredReturned, Proceed, Awake, At
<1>2. wake_lock' = TRUE /\ signalled' \in BOOLEAN /\ TakeAll
  <2>1. CASE Proceed
    <3>1. wake_lock /\ wake_lock \in BOOLEAN /\ signalled \in BOOLEAN
      BY <2>1 DEF IInv, EngOK, AwakeWhileBusy, EngTypeOK, Proceed
    <3>. QED BY <2>1, <3>1 DEF Proceed
  <2>2. CASE Awake
    BY <2>2 DEF Awake
  <2>. QED BY <2>1, <2>2
<1>. QED BY <1>1, <1>2, TakeStep

\* What holds of the rest when a step of the deferred thread goes on with
\* the turn: the place it leaves is not one where it waits for work.
LEMMA MoveOK ==
  ASSUME EngOK, dpc \notin {"start", "top", "asleep"},
         NEW place \in {"top", "signal", "ni", "aiding", "atl", "informed", "tell"},
         place = "top" => local.status = None, place = "tell" => local.status # None,
         GoOn(local, place),
         UNCHANGED loc_event, agps_status' \in Connection \cup {None},
         aiding_data_for_deletion' \in BOOLEAN,
         engine_status' \in {"NONE", "SESSION_BEGIN", "ENGINE_OFF"},
         \/ UNCHANGED <<deferred_action_flags, wake_lock, signalled>>
         \/ \E flag \in Flags : Raise(flag)
  PROVE  EngOK' /\ dpc' = place /\ local'.status = local.status
<1>1. local \in Copies /\ loc_event \in Event \cup {None}
        /\ deferred_action_flags \subseteq Flags /\ wake_lock \in BOOLEAN
        /\ signalled \in BOOLEAN
  BY DEF EngOK, EngTypeOK
<1>2. wake_lock = TRUE
  BY <1>1 DEF EngOK, AwakeWhileBusy
<1>3. wake_lock' = TRUE /\ deferred_action_flags' \subseteq Flags /\ signalled' \in BOOLEAN
  <2>1. CASE UNCHANGED <<deferred_action_flags, wake_lock, signalled>>
    BY <1>1, <1>2, <2>1
  <2>2. CASE \E flag \in Flags : Raise(flag)
    BY <1>1, <2>2 DEF Raise
  <2>. QED BY <2>1, <2>2
<1>4. dpc' = place /\ local' \in Copies /\ local'.status = local.status /\ Carried'
  BY <1>1, GoOnOK
<1>5. EngTypeOK'
  BY <1>1, <1>3, <1>4 DEF EngTypeOK, DeferredPlaces
<1>6. AwakeWhileBusy'
  BY <1>3 DEF AwakeWhileBusy
<1>. QED BY <1>4, <1>5, <1>6 DEF EngOK

\* The same when the event has been processed.
LEMMA ProcessedOK ==
  ASSUME EngOK, dpc \in {"event", "signal", "ni"}, Processed,
         UNCHANGED loc_event, agps_status' \in Connection \cup {None},
         aiding_data_for_deletion' \in BOOLEAN,
         engine_status' \in {"NONE", "SESSION_BEGIN", "ENGINE_OFF"},
         \/ UNCHANGED <<deferred_action_flags, wake_lock, signalled>>
         \/ \E flag \in Flags : Raise(flag)
  PROVE  EngOK' /\ dpc' \in {"aiding", "atl", "tell", "top"} /\ local'.status = local.status
<1>1. local \in Copies
  BY DEF EngOK, EngTypeOK
<1>2. /\ AfterEvent(local) \in {"aiding", "atl", "tell", "top"}
      /\ AfterEvent(local) = "top" => local.status = None
      /\ AfterEvent(local) = "tell" => local.status # None
  BY <1>1, AfterEventOK
<1>3. GoOn(local, AfterEvent(local))
  BY DEF Processed
<1>4. dpc \notin {"start", "top", "asleep"}
  OBVIOUS
<1>. HIDE DEF Processed
<1>5. EngOK' /\ dpc' = AfterEvent(local) /\ local'.status = local.status
  BY ONLY EngOK, <1>2, <1>3, <1>4, MoveOK, UNCHANGED loc_event,
          agps_status' \in Connection \cup {None},
          aiding_data_for_deletion' \in BOOLEAN,
          engine_status' \in {"NONE", "SESSION_BEGIN", "ENGINE_OFF"},
          \/ UNCHANGED <<deferred_action_flags, wake_lock, signalled>>
          \/ \E flag \in Flags : Raise(flag)
<1>. QED BY <1>2, <1>5

\* The types of what the deferred thread shares, for a step that leaves it.
LEMMA NoSharedOK ==
  ASSUME EngOK, NoShared
  PROVE  /\ UNCHANGED loc_event /\ agps_status' = agps_status
         /\ agps_status' \in Connection \cup {None}
         /\ aiding_data_for_deletion' \in BOOLEAN
         /\ engine_status' \in {"NONE", "SESSION_BEGIN", "ENGINE_OFF"}
         /\ UNCHANGED <<deferred_action_flags, wake_lock, signalled>>
BY DEF NoShared, EngOK, EngTypeOK

\* Places where the thread is free are left with no request under way.
LEMMA FreeOK ==
  ASSUME FreeToHandle, dpc \in Handling
  PROVE  call[Deferred].at = "out"
BY DEF FreeToHandle

LEMMA ProcessEventStep ==
  ASSUME IInv, ProcessEvent
  PROVE  IInv'
<1>1. dpc \in {"event", "signal", "ni"}
  BY DEF ProcessEvent, HandOn, ProcessReport, Signal, ReportStatus, ConnRequest, NiRequest,
         NiSave, Processing, At
<1>2. call[Deferred].at = "out"
  BY <1>1, FreeOK DEF IInv, Handling
<1>3. local \in Copies
  BY DEF IInv, EngOK, EngTypeOK
<1>4. CASE HandOn
  <2>1. Processed /\ NoShared
    BY <1>4 DEF HandOn
  <2>2. EngOK' /\ dpc' \in {"aiding", "atl", "tell", "top"} /\ local'.status = local.status
    BY <1>1, <2>1, NoSharedOK, ProcessedOK DEF IInv
  <2>3. IoctlOK' /\ call' = call
    BY <1>4, SameIoctl DEF IInv, HandOn
  <2>4. NiOK' /\ StopTypeOK' /\ CallerTypeOK' /\ HistoryTypeOK' /\ asked' = asked /\ told' = told
    BY <1>4, SameNi, SameStop, SameCaller, SameHistory DEF IInv, HandOn
  <2>5. FreeToHandle' /\ LockSoon'
    BY <1>2, <2>2, <2>3 DEF FreeToHandle, LockSoon
  <2>6. StatusToldInOrder'
    BY <2>1, <2>2, <2>4, SameStory, NoSharedOK DEF IInv
  <2>. QED BY <2>2, <2>3, <2>4, <2>5, <2>6 DEF IInv
<1>5. CASE ProcessReport
  <2>1. dpc = "event" /\ NoShared /\ StoreReport(local.event.type, local.event.ok)
          /\ GoOn(local, IF Matches(local.event.type) THEN "signal" ELSE AfterEvent(local))
    BY <1>5 DEF ProcessReport, Processing, At
  <2>2. local.event.ok \in BOOLEAN
    <3>1. local.event \in Event
      BY <1>3, <2>1 DEF IInv, EngOK, Carried, Copies
    <3>. QED BY <3>1 DEF Event
  <2>3. EngOK' /\ dpc' \in {"signal", "aiding", "atl", "tell", "top"}
          /\ local'.status = local.status
    <3>1. CASE Matches(local.event.type)
      <4>1. GoOn(local, "signal")
        BY <2>1, <3>1
      <4>. QED BY <2>1, <4>1, NoSharedOK, MoveOK DEF IInv
    <3>2. CASE ~Matches(local.event.type)
      <4>1. Processed
        BY <2>1, <3>2 DEF Processed
      <4>. QED BY <2>1, <4>1, NoSharedOK, ProcessedOK DEF IInv
    <3>. QED BY <3>1, <3>2
  <2>4. IoctlOK' /\ call' = call
    BY <1>2, <2>1, <2>2, StoreOK DEF IInv
  <2>5. NiOK' /\ StopTypeOK' /\ CallerTypeOK' /\ HistoryTypeOK' /\ asked' = asked /\ told' = told
    BY <1>5, SameNi, SameStop, SameCaller, SameHistory DEF IInv, ProcessReport
  <2>6. FreeToHandle' /\ LockSoon'
    BY <1>2, <2>3, <2>4 DEF FreeToHandle, LockSoon
  <2>7. StatusToldInOrder'
    BY <2>1, <2>3, <2>5, SameStory, NoSharedOK DEF IInv
  <2>. QED BY <2>3, <2>4, <2>5, <2>6, <2>7 DEF IInv
<1>6. CASE Signal
  <2>1. Processed /\ NoShared /\ SignalWaiter
    BY <1>6 DEF Signal
  <2>2. EngOK' /\ dpc' \in {"aiding", "atl", "tell", "top"} /\ local'.status = local.status
    BY <1>1, <2>1, NoSharedOK, ProcessedOK DEF IInv
  <2>3. IoctlOK' /\ call'[Deferred].at = "out"
    BY <1>2, <2>1, SignalOK DEF IInv
  <2>4. NiOK' /\ StopTypeOK' /\ CallerTypeOK' /\ HistoryTypeOK' /\ asked' = asked /\ told' = told
    BY <1>6, SameNi, SameStop, SameCaller, SameHistory DEF IInv, Signal
  <2>5. FreeToHandle' /\ LockSoon'
    BY <2>2, <2>3 DEF FreeToHandle, LockSoon
  <2>6. StatusToldInOrder'
    BY <2>1, <2>2, <2>4, SameStory, NoSharedOK DEF IInv
  <2>. QED BY <2>2, <2>3, <2>4, <2>5, <2>6 DEF IInv
<1>7. CASE ReportStatus
  <2>1. Processed /\ UNCHANGED <<loc_event, agps_status, aiding_data_for_deletion>>
    BY <1>7 DEF ReportStatus
  <2>2. engine_status' \in {"NONE", "SESSION_BEGIN", "ENGINE_OFF"}
    BY <1>7 DEF ReportStatus, StatusOf
  <2>3. \/ UNCHANGED <<deferred_action_flags, wake_lock, signalled>>
        \/ \E flag \in Flags : Raise(flag)
    <3>1. "DELETE_AIDING" \in Flags
      BY DEF Flags
    <3>. QED BY <1>7, <3>1 DEF ReportStatus
  <2>4. agps_status' \in Connection \cup {None} /\ aiding_data_for_deletion' \in BOOLEAN
    BY <2>1 DEF IInv, EngOK, EngTypeOK
  <2>5. EngOK' /\ dpc' \in {"aiding", "atl", "tell", "top"} /\ local'.status = local.status
    BY <1>1, <2>1, <2>2, <2>3, <2>4, ProcessedOK DEF IInv
  <2>6. IoctlOK' /\ call' = call
    BY <1>7, SameIoctl DEF IInv, ReportStatus
  <2>7. NiOK' /\ StopTypeOK' /\ CallerTypeOK' /\ HistoryTypeOK' /\ asked' = asked /\ told' = told
    BY <1>7, SameNi, SameStop, SameCaller, SameHistory DEF IInv, ReportStatus
  <2>8. FreeToHandle' /\ LockSoon'
    BY <1>2, <2>5, <2>6 DEF FreeToHandle, LockSoon
  <2>9. StatusToldInOrder'
    BY <2>1, <2>5, <2>7, SameStory DEF IInv
  <2>. QED BY <2>5, <2>6, <2>7, <2>8, <2>9 DEF IInv
<1>8. CASE ConnRequest
  <2>1. Processed /\ dpc = "event" /\ UNCHANGED <<loc_event, aiding_data_for_deletion, engine_status>>
          /\ Raise("AGPS_STATUS") /\ asked' = Append(asked, agps_status') /\ told' = told
          /\ UNCHANGED <<stop_request_pending, stopOwed, ioctlVars, niVars, callerVars>>
    BY <1>8 DEF ConnRequest, Processing, At
  <2>2. agps_status' \in Connection /\ agps_request_pending' \in BOOLEAN
    <3>1. agps_status' = (IF local.event.kind = "SERVER_OPEN" THEN "REQUEST" ELSE "RELEASE")
            /\ agps_request_pending' = (local.event.kind = "SERVER_OPEN")
      BY <1>8 DEF ConnRequest
    <3>. QED BY <3>1 DEF Connection
  <2>3. \E flag \in Flags : Raise(flag)
    BY <2>1 DEF Flags
  <2>4. aiding_data_for_deletion' \in BOOLEAN
          /\ engine_status' \in {"NONE", "SESSION_BEGIN", "ENGINE_OFF"}
    BY <2>1 DEF IInv, EngOK, EngTypeOK
  <2>5. EngOK' /\ dpc' \in {"aiding", "atl", "tell", "top"} /\ local'.status = local.status
    BY <1>1, <2>1, <2>2, <2>3, <2>4, ProcessedOK DEF IInv
  <2>6. IoctlOK' /\ call' = call
    BY <2>1, SameIoctl DEF IInv
  <2>7. NiOK' /\ CallerTypeOK'
    BY <2>1, SameNi, SameCaller DEF IInv
  <2>8. StopTypeOK'
    BY <2>1, <2>2 DEF IInv, StopTypeOK
  <2>9. FreeToHandle' /\ LockSoon'
    BY <1>2, <2>5, <2>6 DEF FreeToHandle, LockSoon
  <2>10. asked \in Seq(Connection) /\ told \in Seq(Connection)
    BY DEF IInv, HistoryTypeOK
  <2>11. HistoryTypeOK'
    BY <2>1, <2>2, <2>10, Histories DEF HistoryTypeOK
  <2>12. StatusToldInOrder'
    <3>1. agps_status = None /\ local.status \in Connection \cup {None}
      BY <1>3, <2>1 DEF IInv, EngOK, Carried, Copies
    <3>. DEFINE before == told \o Present(local.status)
    <3>2. before \in Seq(Connection)
      BY <2>10, <3>1 DEF Present
    <3>3. before \o <<>> = asked
      BY <3>1 DEF IInv, StatusToldInOrder, Present
    <3>4. before = asked
      BY ONLY <3>2, <3>3, Histories
    <3>5. Present(agps_status') = <<agps_status'>>
      <4>1. agps_status' # None
        BY <2>2, LocEngAssumption 
      <4>. QED BY <4>1 DEF Present
    <3>6. before \o Present(agps_status') = asked'
      BY <2>1, <2>2, <2>10, <3>4, <3>5, Histories
    <3>. QED BY <2>1, <2>5, <3>6 DEF StatusToldInOrder
  <2>. QED BY <2>5, <2>6, <2>7, <2>8, <2>9, <2>11, <2>12 DEF IInv
<1>9. CASE NiRequest
  <2>1. dpc = "event" /\ NoShared
          /\ GoOn(local, IF notif_in_progress THEN AfterEvent(local) ELSE "ni")
    BY <1>9 DEF NiRequest, Processing, At
  <2>2. /\ EngOK' /\ local'.status = local.status
        /\ dpc' \in {"ni", "aiding", "atl", "tell", "top"}
        /\ dpc' = "ni" => ~notif_in_progress
    <3>1. CASE ~notif_in_progress
      <4>1. GoOn(local, "ni")
        BY <2>1, <3>1
      <4>. QED BY <2>1, <3>1, <4>1, NoSharedOK, MoveOK DEF IInv
    <3>2. CASE notif_in_progress
      <4>1. Processed
        BY <2>1, <3>2 DEF Processed
      <4>2. EngOK' /\ dpc' \in {"aiding", "atl", "tell", "top"} /\ local'.status = local.status
        BY <2>1, <4>1, NoSharedOK, ProcessedOK DEF IInv
      <4>. QED BY <4>2
    <3>. QED BY <3>1, <3>2
  <2>3. IoctlOK' /\ call' = call
    BY <1>9, SameIoctl DEF IInv, NiRequest
  <2>4. NiOK' /\ notif_in_progress' = notif_in_progress /\ StopTypeOK' /\ CallerTypeOK'
          /\ HistoryTypeOK' /\ asked' = asked /\ told' = told
    BY <1>9, SameNi, SameStop, SameCaller, SameHistory DEF IInv, NiRequest
  <2>5. FreeToHandle' /\ LockSoon'
    BY <1>2, <2>2, <2>3, <2>4 DEF FreeToHandle, LockSoon
  <2>6. StatusToldInOrder'
    BY <2>1, <2>2, <2>4, SameStory, NoSharedOK DEF IInv
  <2>. QED BY <2>2, <2>3, <2>4, <2>5, <2>6 DEF IInv
<1>10. CASE NiSave
  <2>1. Processed /\ NoShared /\ SaveRequest
    BY <1>10 DEF NiSave
  <2>2. EngOK' /\ dpc' \in {"aiding", "atl", "tell", "top"} /\ local'.status = local.status
    BY <1>1, <2>1, NoSharedOK, ProcessedOK DEF IInv
  <2>3. IoctlOK' /\ call' = call
    BY <1>10, SameIoctl DEF IInv, NiSave
  <2>4. NiOK' /\ StopTypeOK' /\ CallerTypeOK' /\ HistoryTypeOK' /\ asked' = asked /\ told' = told
    BY <1>10, SaveOK, SameStop, SameCaller, SameHistory DEF IInv, NiSave
  <2>5. FreeToHandle' /\ LockSoon'
    BY <1>2, <2>2, <2>3 DEF FreeToHandle, LockSoon
  <2>6. StatusToldInOrder'
    BY <2>1, <2>2, <2>4, SameStory, NoSharedOK DEF IInv
  <2>. QED BY <2>2, <2>3, <2>4, <2>5, <2>6 DEF IInv
<1>. QED BY <1>4, <1>5, <1>6, <1>7, <1>8, <1>9, <1>10 DEF ProcessEvent

\* The deferred thread's own requests.
LEMMA DeleteStep ==
  ASSUME IInv, DeleteAidingDeferred
  PROVE  IInv'
<1>1. At("aiding") /\ GoOn(local, AfterAiding(local)) /\ aiding_data_for_deletion' = FALSE
        /\ Setup(Deferred, "DELETE_ASSIST")
        /\ UNCHANGED <<loc_event, deferred_action_flags, agps_status, engine_status,
                       wake_lock, signalled, niVars, stopVars, callerVars, historyVars>>
  BY DEF DeleteAidingDeferred
<1>2. local \in Copies /\ agps_status' \in Connection \cup {None}
        /\ engine_status' \in {"NONE", "SESSION_BEGIN", "ENGINE_OFF"}
  BY <1>1 DEF IInv, EngOK, EngTypeOK
<1>3. EngOK' /\ dpc' \in {"atl", "tell", "top"} /\ local'.status = local.status
  BY <1>1, <1>2, AfterAidingOK, MoveOK DEF IInv, At
<1>4. IoctlOK'
  BY <1>1, SetupOK, LocEngAssumption DEF IInv, IoctlTypes
<1>5. NiOK' /\ StopTypeOK' /\ CallerTypeOK' /\ HistoryTypeOK' /\ asked' = asked /\ told' = told
  BY <1>1, SameNi, SameStop, SameCaller, SameHistory DEF IInv
<1>6. FreeToHandle' /\ LockSoon'
  BY <1>3 DEF FreeToHandle, LockSoon, Handling
<1>7. StatusToldInOrder'
  BY <1>1, <1>3, <1>5, SameStory DEF IInv
<1>. QED BY <1>3, <1>4, <1>5, <1>6, <1>7 DEF IInv

LEMMA InformStep ==
  ASSUME IInv, InformModem
  PROVE  IInv'
<1>1. At("atl") /\ GoOn(local, "informed") /\ NoShared
        /\ \E type \in IoctlTypes : Setup(Deferred, type)
        /\ UNCHANGED <<niVars, stopVars, callerVars, historyVars>>
  BY DEF InformModem, IoctlTypes
<1>2. EngOK' /\ dpc' = "informed" /\ local'.status = local.status
  BY <1>1, NoSharedOK, MoveOK DEF IInv, At
<1>3. IoctlOK'
  BY <1>1, SetupOK, LocEngAssumption DEF IInv
<1>4. NiOK' /\ StopTypeOK' /\ CallerTypeOK' /\ HistoryTypeOK' /\ asked' = asked /\ told' = told
  BY <1>1, SameNi, SameStop, SameCaller, SameHistory DEF IInv
<1>5. FreeToHandle' /\ LockSoon'
  BY <1>2 DEF FreeToHandle, LockSoon, Handling
<1>6. StatusToldInOrder'
  BY <1>1, <1>2, <1>4, SameStory, NoSharedOK DEF IInv
<1>. QED BY <1>2, <1>3, <1>4, <1>5, <1>6 DEF IInv

LEMMA InformedStep ==
  ASSUME IInv, Informed
  PROVE  IInv'
<1>1. At("informed") /\ DeferredReturned /\ NoShared
        /\ GoOn(local, IF local.status # None THEN "tell" ELSE "top")
        /\ UNCHANGED <<stop_request_pending, ioctlVars, niVars, callerVars, historyVars>>
  BY DEF Informed
<1>2. EngOK' /\ dpc' \in {"tell", "top"} /\ local'.status = local.status
  <2>1. CASE local.status # None
    <3>1. GoOn(local, "tell")
      BY <1>1, <2>1
    <3>. QED BY <1>1, <2>1, <3>1, NoSharedOK, MoveOK DEF IInv, At
  <2>2. CASE local.status = None
    <3>1. GoOn(local, "top")
      BY <1>1, <2>2
    <3>. QED BY <1>1, <2>2, <3>1, NoSharedOK, MoveOK DEF IInv, At
  <2>. QED BY <2>1, <2>2
<1>3. IoctlOK' /\ call' = call
  BY <1>1, SameIoctl DEF IInv
<1>4. NiOK' /\ CallerTypeOK' /\ HistoryTypeOK' /\ asked' = asked /\ told' = told
  BY <1>1, SameNi, SameCaller, SameHistory DEF IInv
<1>5. StopTypeOK'
  <2>1. agps_request_pending' = FALSE /\ stop_request_pending' = stop_request_pending
          /\ stopOwed' = (stopOwed /\ ~stop_request_pending)
    BY DEF Informed
  <2>. QED BY <2>1, Zenon DEF IInv, StopTypeOK
<1>6. FreeToHandle' /\ LockSoon'
  BY <1>2 DEF FreeToHandle, LockSoon, Handling
<1>7. StatusToldInOrder'
  BY <1>1, <1>2, <1>4, SameStory, NoSharedOK DEF IInv
<1>. QED BY <1>2, <1>3, <1>4, <1>5, <1>6, <1>7 DEF IInv

LEMMA TellStep ==
  ASSUME IInv, Tell
  PROVE  IInv'
<1>1. dpc = "tell" /\ DeferredReturned /\ NoShared /\ GoOn(local, "top")
        /\ due' = due \cup {local.status} /\ told' = Append(told, local.status)
        /\ asked' = asked
        /\ UNCHANGED <<ioctlVars, niVars, stopVars, cpc, events, calls>>
  BY DEF Tell, At
<1>2. local.status \in Connection
  BY <1>1 DEF IInv, EngOK, EngTypeOK, Carried, Copies
<1>3. dpc' = "top" /\ local' = Nothing
  BY <1>1 DEF GoOn
<1>4. EngOK'
  <2>1. /\ loc_event' = loc_event /\ deferred_action_flags' = deferred_action_flags
        /\ agps_status' = agps_status /\ engine_status' = engine_status
        /\ aiding_data_for_deletion' = aiding_data_for_deletion
        /\ wake_lock' = wake_lock /\ signalled' = signalled
    BY <1>1 DEF NoShared
  <2>2. EngTypeOK'
    BY <1>3, <2>1, NothingOK DEF IInv, EngOK, EngTypeOK, DeferredPlaces
  <2>3. Carried' /\ AwakeWhileBusy'
    BY <1>3, <2>1 DEF IInv, EngOK, Carried, AwakeWhileBusy
  <2>. QED BY <2>2, <2>3 DEF EngOK
<1>5. IoctlOK' /\ call' = call
  BY <1>1, SameIoctl DEF IInv
<1>6. NiOK' /\ StopTypeOK'
  BY <1>1, SameNi, SameStop DEF IInv
<1>7. CallerTypeOK'
  <2>1. due' \subseteq Connection
    BY <1>1, <1>2 DEF IInv, CallerTypeOK
  <2>. QED BY <1>1, <2>1 DEF IInv, CallerTypeOK
<1>8. asked \in Seq(Connection) /\ told \in Seq(Connection)
  BY DEF IInv, HistoryTypeOK
<1>9. HistoryTypeOK'
  BY <1>1, <1>2, <1>8, Histories DEF HistoryTypeOK
<1>10. FreeToHandle' /\ LockSoon'
  BY <1>3 DEF FreeToHandle, LockSoon, Handling
<1>11. StatusToldInOrder'
  <2>1. Present(local.status) = <<local.status>> /\ Present(local'.status) = <<>>
    BY <1>2, <1>3, NothingOK, LocEngAssumption DEF Present
  <2>2. told \o Present(local.status) = told' /\ told' \in Seq(Connection)
    BY <1>1, <1>2, <1>8, <2>1, Histories
  <2>3. told' \o Present(local'.status) = told'
    BY <2>1, <2>2, Histories
  <2>4. agps_status' = agps_status
    BY <1>1 DEF NoShared
  <2>. QED BY <1>1, <2>2, <2>3, <2>4 DEF IInv, StatusToldInOrder
<1>. QED BY <1>4, <1>5, <1>6, <1>7, <1>9, <1>10, <1>11 DEF IInv

-----------------------------------------------------------------------------
(* Steps of the other threads: the deferred thread stays where it is.      *)

LEMMA SameDeferred ==
  ASSUME IInv, EngOK', IoctlOK', NiOK', StopTypeOK', CallerTypeOK', HistoryTypeOK',
         UNCHANGED <<dpc, local, agps_status, asked, told>>,
         call[Deferred].at = "out" => call'[Deferred].at = "out",
         notif_in_progress' => notif_in_progress
  PROVE  IInv'
<1>1. FreeToHandle' /\ LockSoon'
  BY DEF IInv, FreeToHandle, LockSoon
<1>2. StatusToldInOrder'
  BY SameStory DEF IInv
<1>. QED BY <1>1, <1>2 DEF IInv

LEMMA ModemStep ==
  ASSUME IInv, ModemEvent \/ ModemReport
  PROVE  IInv'
<1>1. PICK event \in Event : LocEventCb(event)
  <2>1. CASE ModemEvent
    <3>1. PICK kind \in EventKinds \ {"IOCTL_REPORT"} : LocEventCb(Plain(kind))
      BY <2>1 DEF ModemEvent
    <3>2. Plain(kind) \in Event
      BY DEF Plain, Event
    <3>. QED BY <3>1, <3>2
  <2>2. CASE ModemReport
    <3>1. PICK type \in IoctlTypes, ok \in BOOLEAN :
            LocEventCb([kind |-> "IOCTL_REPORT", type |-> type, ok |-> ok])
      BY <2>2 DEF ModemReport
    <3>2. "IOCTL_REPORT" \in EventKinds
      BY <3>1 DEF LocEventCb
    <3>3. [kind |-> "IOCTL_REPORT", type |-> type, ok |-> ok] \in Event
      BY <3>2 DEF Event
    <3>. QED BY <3>1, <3>3
  <2>. QED BY <2>1, <2>2
<1>2. /\ events < MaxEvents /\ events' = events + 1 /\ loc_event' = event /\ Raise("EVENT")
      /\ UNCHANGED <<agps_status, aiding_data_for_deletion, engine_status, dpc, local>>
      /\ UNCHANGED <<niVars, stopVars, cpc, due, calls, historyVars>>
  BY <1>1 DEF LocEventCb
<1>3. EngOK'
  <2>1. aiding_data_for_deletion' \in BOOLEAN
    BY <1>2 DEF IInv, EngOK, EngTypeOK
  <2>2. "EVENT" \in Flags
    BY DEF Flags
  <2>. QED BY <1>2, <2>1, <2>2, RaiseOK DEF IInv
<1>4. IoctlOK' /\ call' = call
  <2>1. CASE ModemEvent
    BY <2>1, SameIoctl DEF IInv, ModemEvent
  <2>2. CASE ModemReport
    <3>1. PICK type \in IoctlTypes : owed[type] > 0 /\ owed' = [owed EXCEPT ![type] = @ - 1]
      BY <2>2 DEF ModemReport
    <3>2. UNCHANGED <<cb_is_selected, cb_has_arrived, ioctl_type, cb_payload, call>>
      BY <2>2 DEF ModemReport
    <3>3. owed' \in [IoctlTypes -> Nat]
      <4>1. owed \in [IoctlTypes -> Nat]
        BY DEF IInv, IoctlOK, IoctlTypeOK
      <4>. HIDE DEF IoctlTypes
      <4>. QED BY <3>1, <4>1
    <3>. QED BY <3>2, <3>3 DEF IInv, IoctlOK, IoctlTypeOK, DeferredNeverAnswered
  <2>. QED BY <2>1, <2>2
<1>5. NiOK' /\ notif_in_progress' = notif_in_progress /\ StopTypeOK' /\ HistoryTypeOK'
        /\ asked' = asked /\ told' = told
  BY <1>2, SameNi, SameStop, SameHistory DEF IInv
<1>6. CallerTypeOK'
  BY <1>2, LocEngAssumption DEF IInv, CallerTypeOK
<1>. QED BY <1>2, <1>3, <1>4, <1>5, <1>6, SameDeferred

LEMMA InIoctlStep ==
  ASSUME IInv, NEW t \in Threads, InIoctl(t)
  PROVE  IInv'
<1>1. IoctlStep(t) /\ UNCHANGED <<niVars, deferredVars, stopVars, callerVars, historyVars>>
  BY DEF InIoctl
<1>2. IoctlOK' /\ (call[Deferred].at = "out" => call'[Deferred].at = "out")
  BY <1>1, IoctlStepOK DEF IInv
<1>3. EngOK' /\ dpc' = dpc /\ local' = local /\ agps_status' = agps_status
  BY <1>1, SameEng DEF IInv
<1>4. NiOK' /\ notif_in_progress' = notif_in_progress /\ StopTypeOK' /\ CallerTypeOK'
        /\ HistoryTypeOK' /\ asked' = asked /\ told' = told
  BY <1>1, SameNi, SameStop, SameCaller, SameHistory DEF IInv
<1>. QED BY <1>2, <1>3, <1>4, SameDeferred

LEMMA NiStepOK ==
  ASSUME IInv, NiStep
  PROVE  IInv'
<1>1. (Tick \/ Expire \/ Expired)
        /\ UNCHANGED <<deferredVars, stopVars, callerVars, historyVars>>
  BY DEF NiStep, NiThreadStep
<1>2. /\ NiOK' /\ (notif_in_progress' => notif_in_progress)
      /\ IoctlOK' /\ call'[Deferred] = call[Deferred]
  <2>1. CASE Tick
    BY <2>1, TickOK, SameIoctl DEF IInv
  <2>2. CASE Expire
    BY <2>2, ExpireOK DEF IInv
  <2>3. CASE Expired
    BY <2>3, ExpiredOK, SameIoctl DEF IInv
  <2>. QED BY <1>1, <2>1, <2>2, <2>3
<1>3. EngOK' /\ dpc' = dpc /\ local' = local /\ agps_status' = agps_status
  BY <1>1, SameEng DEF IInv
<1>4. StopTypeOK' /\ CallerTypeOK' /\ HistoryTypeOK' /\ asked' = asked /\ told' = told
  BY <1>1, SameStop, SameCaller, SameHistory DEF IInv
<1>. QED BY <1>2, <1>3, <1>4, SameDeferred

\* The framework moves one of its threads.
CallerPlaces == {"idle", "mode", "slp", "stopping", "answer", "answering"}

LEMMA BeginOK ==
  ASSUME CallerTypeOK, NEW c \in Callers, NEW place \in CallerPlaces, Begin(c, place),
         UNCHANGED <<due, events>>
  PROVE  CallerTypeOK'
<1>1. calls' \in 0..MaxCalls
  BY LocEngAssumption DEF CallerTypeOK, Begin
<1>2. cpc' \in [Callers -> CallerPlaces]
  BY DEF CallerTypeOK, Begin, CallerPlaces
<1>. QED BY <1>1, <1>2 DEF CallerTypeOK, CallerPlaces

LEMMA GoesOK ==
  ASSUME CallerTypeOK, NEW c \in Callers, NEW place \in CallerPlaces, Goes(c, place)
  PROVE  CallerTypeOK'
<1>1. cpc' \in [Callers -> CallerPlaces] /\ UNCHANGED <<due, events, calls>>
  BY DEF CallerTypeOK, Goes, CallerPlaces
<1>. QED BY <1>1 DEF CallerTypeOK, CallerPlaces

LEMMA CallerBeginsStep ==
  ASSUME IInv, NEW c \in Callers, CallerBegins(c)
  PROVE  IInv'
<1>0. c \in Threads /\ c # Deferred
  BY LocEngAssumption
<1>1. CASE SetPositionMode(c) \/ Start(c)
  <2>1. /\ \E place \in CallerPlaces : Begin(c, place)
        /\ \E type \in IoctlTypes : Setup(c, type)
        /\ UNCHANGED <<due, events, niVars, deferredVars, stopVars, historyVars>>
    BY <1>1 DEF SetPositionMode, Start, CallerPlaces, IoctlTypes
  <2>2. IoctlOK' /\ call'[Deferred] = call[Deferred]
    BY <1>0, <2>1, SetupOK DEF IInv
  <2>3. EngOK' /\ dpc' = dpc /\ local' = local /\ agps_status' = agps_status
    BY <2>1, SameEng DEF IInv
  <2>4. NiOK' /\ notif_in_progress' = notif_in_progress /\ StopTypeOK'
          /\ HistoryTypeOK' /\ asked' = asked /\ told' = told
    BY <2>1, SameNi, SameStop, SameHistory DEF IInv
  <2>5. CallerTypeOK'
    BY <2>1, BeginOK DEF IInv
  <2>. QED BY <2>2, <2>3, <2>4, <2>5, SameDeferred
<1>2. CASE Stop(c)
  <2>1. /\ \E place \in CallerPlaces : Begin(c, place)
        /\ UNCHANGED <<agps_request_pending, due, events, ioctlVars, niVars, deferredVars,
                       historyVars>>
    BY <1>2 DEF Stop, CallerPlaces
  <2>2. stop_request_pending' \in BOOLEAN /\ stopOwed' \in BOOLEAN
    <3>1. stop_request_pending \in BOOLEAN /\ stopOwed \in BOOLEAN
      BY DEF IInv, StopTypeOK
    <3>2. CASE agps_request_pending
      BY <1>2, <3>2 DEF Stop
    <3>3. CASE ~agps_request_pending
      BY <1>2, <3>1, <3>3 DEF Stop
    <3>. QED BY <3>2, <3>3
  <2>3. StopTypeOK'
    BY <2>1, <2>2 DEF IInv, StopTypeOK
  <2>4. IoctlOK' /\ call' = call
    BY <2>1, SameIoctl DEF IInv
  <2>5. EngOK' /\ dpc' = dpc /\ local' = local /\ agps_status' = agps_status
    BY <2>1, SameEng DEF IInv
  <2>6. NiOK' /\ notif_in_progress' = notif_in_progress
          /\ HistoryTypeOK' /\ asked' = asked /\ told' = told
    BY <2>1, SameNi, SameHistory DEF IInv
  <2>7. CallerTypeOK'
    BY <2>1, BeginOK DEF IInv
  <2>. QED BY <2>3, <2>4, <2>5, <2>6, <2>7, SameDeferred
<1>3. CASE DeleteAidingData(c)
  <2>1. /\ Begin(c, "idle") /\ aiding_data_for_deletion' = TRUE
        /\ Raise("DELETE_AIDING") \/ UNCHANGED <<deferred_action_flags, wake_lock, signalled>>
        /\ UNCHANGED <<loc_event, agps_status, engine_status, dpc, local>>
        /\ UNCHANGED <<due, events, ioctlVars, niVars, stopVars, historyVars>>
    BY <1>3 DEF DeleteAidingData
  <2>2. EngOK'
    <3>1. loc_event' \in Event \cup {None} /\ "DELETE_AIDING" \in Flags
      BY <2>1 DEF IInv, EngOK, EngTypeOK, Flags
    <3>2. CASE Raise("DELETE_AIDING")
      BY <2>1, <3>1, <3>2, RaiseOK DEF IInv
    <3>3. CASE UNCHANGED <<deferred_action_flags, wake_lock, signalled>>
      <4>1. EngTypeOK'
        BY <2>1, <3>3 DEF IInv, EngOK, EngTypeOK
      <4>2. Carried' /\ AwakeWhileBusy'
        BY <2>1, <3>3 DEF IInv, EngOK, Carried, AwakeWhileBusy
      <4>. QED BY <4>1, <4>2 DEF EngOK
    <3>. QED BY <2>1, <3>2, <3>3
  <2>3. IoctlOK' /\ call' = call
    BY <2>1, SameIoctl DEF IInv
  <2>4. NiOK' /\ notif_in_progress' = notif_in_progress /\ StopTypeOK'
          /\ HistoryTypeOK' /\ asked' = asked /\ told' = told
    BY <2>1, SameNi, SameStop, SameHistory DEF IInv
  <2>5. CallerTypeOK'
    BY <2>1, BeginOK DEF IInv, CallerPlaces
  <2>. QED BY <2>1, <2>2, <2>3, <2>4, <2>5, SameDeferred
<1>4. CASE NiRespond(c)
  <2>1. /\ Begin(c, "answer")
        /\ UNCHANGED <<due, events, ioctlVars, niVars, deferredVars, stopVars, historyVars>>
    BY <1>4 DEF NiRespond
  <2>2. IoctlOK' /\ call' = call
    BY <2>1, SameIoctl DEF IInv
  <2>3. EngOK' /\ dpc' = dpc /\ local' = local /\ agps_status' = agps_status
    BY <2>1, SameEng DEF IInv
  <2>4. NiOK' /\ notif_in_progress' = notif_in_progress /\ StopTypeOK'
          /\ HistoryTypeOK' /\ asked' = asked /\ told' = told
    BY <2>1, SameNi, SameStop, SameHistory DEF IInv
  <2>5. CallerTypeOK'
    BY <2>1, BeginOK DEF IInv, CallerPlaces
  <2>. QED BY <2>2, <2>3, <2>4, <2>5, SameDeferred
<1>. QED BY <1>1, <1>2, <1>3, <1>4 DEF CallerBegins

LEMMA CallerReturnsStep ==
  ASSUME IInv, NEW c \in Callers, CallerReturns(c)
  PROVE  IInv'
<1>0. c \in Threads /\ c # Deferred
  BY LocEngAssumption
<1>1. UNCHANGED <<deferredVars, historyVars>> /\ \E place \in CallerPlaces : Goes(c, place)
  BY DEF CallerReturns, StopFix, SendAnswer, Answered, Returns, CallerPlaces
<1>2. CallerTypeOK'
  BY <1>1, GoesOK DEF IInv
<1>3. EngOK' /\ dpc' = dpc /\ local' = local /\ agps_status' = agps_status
        /\ HistoryTypeOK' /\ asked' = asked /\ told' = told
  BY <1>1, SameEng, SameHistory DEF IInv
<1>4. StopTypeOK'
  <2>1. CASE StopFix(c)
    <3>1. stopOwed' = FALSE /\ UNCHANGED <<agps_request_pending, stop_request_pending>>
      BY <2>1 DEF StopFix
    <3>. QED BY <3>1 DEF IInv, StopTypeOK
  <2>2. CASE UNCHANGED stopVars
    BY <2>2, SameStop DEF IInv
  <2>. QED BY <2>1, <2>2 DEF CallerReturns, SendAnswer, Answered, Returns
<1>5. NiOK' /\ (notif_in_progress' => notif_in_progress)
  <2>1. CASE Answered(c)
    BY <2>1, ClearOK DEF IInv, Answered
  <2>2. CASE UNCHANGED niVars
    BY <2>2, SameNi DEF IInv
  <2>. QED BY <2>1, <2>2 DEF CallerReturns, SendAnswer, StopFix, Returns
<1>6. IoctlOK' /\ call'[Deferred] = call[Deferred]
  <2>1. CASE SendAnswer(c)
    <3>1. Setup(c, "NI_RESPONSE") /\ "NI_RESPONSE" \in IoctlTypes
      BY <2>1 DEF SendAnswer, IoctlTypes
    <3>. QED BY <1>0, <3>1, SetupOK DEF IInv
  <2>2. CASE UNCHANGED ioctlVars
    BY <2>2, SameIoctl DEF IInv
  <2>. QED BY <2>1, <2>2 DEF CallerReturns, Answered, StopFix, Returns
<1>. QED BY <1>2, <1>3, <1>4, <1>5, <1>6, SameDeferred

LEMMA AnswerStep ==
  ASSUME IInv, DataConnAnswer
  PROVE  IInv'
<1>1. /\ \E flag \in Flags : Raise(flag)
      /\ due' \subseteq due
      /\ UNCHANGED <<loc_event, agps_status, aiding_data_for_deletion, engine_status, dpc, local>>
      /\ UNCHANGED <<cpc, events, calls, ioctlVars, niVars, stopVars, historyVars>>
  BY DEF DataConnAnswer, Flags, DataFlags
<1>2. EngOK'
  <2>1. loc_event' \in Event \cup {None} /\ aiding_data_for_deletion' \in BOOLEAN
    BY <1>1 DEF IInv, EngOK, EngTypeOK
  <2>. QED BY <1>1, <2>1, RaiseOK DEF IInv
<1>3. IoctlOK' /\ call' = call
  BY <1>1, SameIoctl DEF IInv
<1>4. NiOK' /\ notif_in_progress' = notif_in_progress /\ StopTypeOK'
        /\ HistoryTypeOK' /\ asked' = asked /\ told' = told
  BY <1>1, SameNi, SameStop, SameHistory DEF IInv
<1>5. CallerTypeOK'
  BY <1>1 DEF IInv, CallerTypeOK
<1>. QED BY <1>1, <1>2, <1>3, <1>4, <1>5, SameDeferred

LEMMA StutterStep ==
  ASSUME IInv, UNCHANGED vars
  PROVE  IInv'
<1>1. UNCHANGED <<ioctlVars, niVars, deferredVars, stopVars, callerVars, historyVars>>
  BY DEF vars
<1>2. IoctlOK' /\ call' = call
  BY <1>1, SameIoctl DEF IInv
<1>3. EngOK' /\ dpc' = dpc /\ local' = local /\ agps_status' = agps_status
  BY <1>1, SameEng DEF IInv
<1>4. NiOK' /\ notif_in_progress' = notif_in_progress /\ StopTypeOK' /\ CallerTypeOK'
        /\ HistoryTypeOK' /\ asked' = asked /\ told' = told
  BY <1>1, SameNi, SameStop, SameCaller, SameHistory DEF IInv
<1>. QED BY <1>2, <1>3, <1>4, SameDeferred

-----------------------------------------------------------------------------
(* The invariant of the specification                                      *)

LEMMA InitIInv == Init => IInv
<1>. SUFFICES ASSUME Init PROVE IInv
  OBVIOUS
<1>1. IoctlOK
  <2>1. IoctlInit /\ Deferred \in Threads
    BY LocEngAssumption DEF Init
  <2>2. NoCall \in Call
    BY DEF NoCall, Call, Places
  <2>3. IoctlTypeOK
    BY <2>1, <2>2 DEF IoctlInit, IoctlTypeOK
  <2>4. call[Deferred] = NoCall
    BY <2>1 DEF IoctlInit
  <2>. QED BY <2>1, <2>3, <2>4 DEF IoctlOK, DeferredNeverAnswered, NoCall, IoctlInit
<1>2. NiOK
  <2>1. 0 \in 0..ResponseTime /\ 0 \in 0..0
    BY NiAssumption
  <2>. QED BY <2>1, NiAssumption DEF Init, NiInit, NiOK, NiTypeOK, NiTimed
<1>3. EngOK
  <2>1. EngTypeOK
    BY NothingOK DEF Init, EngTypeOK, DeferredPlaces
  <2>. QED BY <2>1 DEF Init, EngOK, Carried, AwakeWhileBusy
<1>4. StopTypeOK /\ CallerTypeOK /\ HistoryTypeOK
  <2>1. 0 \in 0..MaxEvents /\ 0 \in 0..MaxCalls
    BY LocEngAssumption
  <2>2. StopTypeOK
    BY DEF Init, StopTypeOK
  <2>3. CallerTypeOK
    BY <2>1 DEF Init, CallerTypeOK
  <2>4. HistoryTypeOK
    BY DEF Init, HistoryTypeOK
  <2>. QED BY <2>2, <2>3, <2>4
<1>5. FreeToHandle /\ LockSoon
  <2>1. call[Deferred] = NoCall
    BY LocEngAssumption DEF Init, IoctlInit
  <2>. QED BY <2>1 DEF Init, FreeToHandle, LockSoon, NoCall
<1>6. StatusToldInOrder
  BY NothingOK DEF Init, StatusToldInOrder, Present
<1>. QED BY <1>1, <1>2, <1>3, <1>4, <1>5, <1>6 DEF IInv

LEMMA NextIInv == IInv /\ [Next]_vars => IInv'
<1>. SUFFICES ASSUME IInv, [Next]_vars PROVE IInv'
  OBVIOUS
<1>1. CASE ModemEvent \/ ModemReport
  BY <1>1, ModemStep
<1>2. CASE DeferredStep \/ SpuriousWake
  <2>1. CASE StartDeferred
    BY <2>1, StartStep
  <2>2. CASE Sleep
    BY <2>2, SleepStep
  <2>3. CASE Proceed \/ Woken \/ SpuriousWake
    <3>1. Proceed \/ Awake
      BY <2>3 DEF Woken, SpuriousWake
    <3>. QED BY <3>1, TurnStep
  <2>4. CASE ProcessEvent
    BY <2>4, ProcessEventStep
  <2>5. CASE DeleteAidingDeferred
    BY <2>5, DeleteStep
  <2>6. CASE InformModem
    BY <2>6, InformStep
  <2>7. CASE Informed
    BY <2>7, InformedStep
  <2>8. CASE Tell
    BY <2>8, TellStep
  <2>. QED BY <1>2, <2>1, <2>2, <2>3, <2>4, <2>5, <2>6, <2>7, <2>8 DEF DeferredStep
<1>3. CASE \E t \in Threads : InIoctl(t)
  BY <1>3, InIoctlStep
<1>4. CASE NiStep
  BY <1>4, NiStepOK
<1>5. CASE \E c \in Callers : CallerBegins(c) \/ CallerReturns(c)
  BY <1>5, CallerBeginsStep, CallerReturnsStep
<1>6. CASE DataConnAnswer
  BY <1>6, AnswerStep
<1>7. CASE UNCHANGED vars
  BY <1>7, StutterStep
<1>. QED BY <1>1, <1>2, <1>3, <1>4, <1>5, <1>6, <1>7 DEF Next

THEOREM Invariant == Spec => []IInv
<1>. QED BY InitIInv, NextIInv, PTL DEF Spec

-----------------------------------------------------------------------------
(* What it gives                                                           *)

\* Every variable of the engine, the ioctl record and the notification
\* keeps its type.
THEOREM TypeCorrect == Spec => []TypeOK
<1>1. IInv => TypeOK
  BY DEF IInv, IoctlOK, NiOK, EngOK, EngTypeOK, StopTypeOK, CallerTypeOK, HistoryTypeOK,
         TypeOK, DeferredPlaces, Copies
<1>. QED BY <1>1, Invariant, PTL

\* A notification in progress has time left, unless the NI thread is just
\* answering for the user (loc_ni_thread_proc).
THEOREM NotificationsTimed == Spec => []NiTimed
<1>1. IInv => NiTimed
  BY DEF IInv, NiOK
<1>. QED BY <1>1, Invariant, PTL

\* A request made by the deferred thread itself is never answered: the
\* thread that would take the report is waiting for it (loc_eng_ioctl).
THEOREM OwnRequestsTimeOut == Spec => []DeferredNeverAnswered
<1>1. IInv => DeferredNeverAnswered
  BY DEF IInv, IoctlOK
<1>. QED BY <1>1, Invariant, PTL

\* The deferred thread never waits for loc_ni_lock while the NI thread holds
\* it across a request whose report only the deferred thread can deliver.
THEOREM NoLockCycle == Spec => []DeliveryNotBlocked
<1>1. IInv => DeliveryNotBlocked
  BY DEF IInv, NiOK, LockSoon, DeliveryNotBlocked, At
<1>. QED BY <1>1, Invariant, PTL

\* The wake lock is held while anything is raised and while the deferred
\* thread is at work.
THEOREM WakeLockHeld == Spec => []AwakeWhileBusy
<1>1. IInv => AwakeWhileBusy
  BY DEF IInv, EngOK
<1>. QED BY <1>1, Invariant, PTL

\* Every data connection the modem asks for or lets go is passed on to the
\* framework once and in order, through the one place of agps_status.
THEOREM ConnectionsTold == Spec => []StatusToldInOrder
<1>1. IInv => StatusToldInOrder
  BY DEF IInv
<1>. QED BY <1>1, Invariant, PTL

-----------------------------------------------------------------------------
(* A stop that was put off is not stranded                                 *)

\* A turn of the deferred thread that began with these copies still has to
\* do with a data connection; and so has the turn that is under way.
Concerns(copies) == copies.status # None \/ copies.flags \cap DataFlags # {}
TurnConcerns ==
  local.status # None \/ (local.flags \cap DataFlags # {} /\ dpc # "tell")

\* Where a turn may go from its copies without forgetting that: it gets to the modem before
\* it gets to the framework, and to neither only if it has nothing for them.
OnwardFrom(copies) ==
  {"signal", "ni", "informed", AfterEvent(copies), AfterAiding(copies)}

LEMMA AfterAidingForgets ==
  ASSUME NEW copies \in Copies, AfterAiding(copies) \in {"tell", "top"}
  PROVE  copies.flags \cap DataFlags = {}
BY DEF AfterAiding

LEMMA AfterEventForgets ==
  ASSUME NEW copies \in Copies, AfterEvent(copies) \in {"tell", "top"}
  PROVE  copies.flags \cap DataFlags = {}
BY AfterAidingForgets DEF AfterEvent

LEMMA TurnGoesOn ==
  ASSUME NEW copies \in Copies, NEW place \in OnwardFrom(copies), GoOn(copies, place),
         Concerns(copies)
  PROVE  TurnConcerns'
<1>1. place = "top" => ~Concerns(copies)
  BY AfterEventOK, AfterAidingOK, AfterEventForgets, AfterAidingForgets
  DEF OnwardFrom, Concerns
<1>2. place = "tell" => copies.flags \cap DataFlags = {}
  BY AfterEventForgets, AfterAidingForgets DEF OnwardFrom
<1>3. dpc' = place /\ local' = [copies EXCEPT !.event = None]
  BY <1>1 DEF GoOn
<1>4. local'.status = copies.status /\ local'.flags = copies.flags
  BY <1>3 DEF Copies
<1>. QED BY <1>2, <1>3, <1>4 DEF Concerns, TurnConcerns

LEMMA UnderWay ==
  ConnectionUnderWay <=>
    \/ agps_status # None \/ due # {}
    \/ deferred_action_flags \cap DataFlags # {}
    \/ TurnConcerns
BY Zenon DEF ConnectionUnderWay, TurnConcerns

\* The steps that leave the deferred thread's turn alone: what is raised stays raised, and
\* what the framework owed it still owes, or has answered.
LEMMA OthersKeep ==
  ASSUME ConnectionUnderWay, UNCHANGED <<agps_status, local>>, dpc' = dpc \/ dpc' # "tell",
         deferred_action_flags \subseteq deferred_action_flags',
         due' = due \/ deferred_action_flags' \cap DataFlags # {}
  PROVE  ConnectionUnderWay'
<1>1. TurnConcerns => TurnConcerns'
  BY DEF TurnConcerns
<1>2. deferred_action_flags \cap DataFlags # {} => deferred_action_flags' \cap DataFlags # {}
  OBVIOUS
<1>. QED BY <1>1, <1>2, UnderWay DEF ConnectionUnderWay, TurnConcerns

\* A step of the turn.
LEMMA TurnKeeps ==
  ASSUME ConnectionUnderWay, local \in Copies, dpc # "tell",
         NEW place \in OnwardFrom(local), GoOn(local, place),
         agps_status' = agps_status \/ agps_status' # None, due' = due,
         deferred_action_flags \subseteq deferred_action_flags'
  PROVE  ConnectionUnderWay'
<1>1. TurnConcerns => TurnConcerns'
  BY TurnGoesOn DEF TurnConcerns, Concerns
<1>2. deferred_action_flags \cap DataFlags # {} => deferred_action_flags' \cap DataFlags # {}
  OBVIOUS
<1>. QED BY <1>1, <1>2, UnderWay DEF ConnectionUnderWay, TurnConcerns

LEMMA RaiseAdds ==
  ASSUME NEW flag, Raise(flag)
  PROVE  deferred_action_flags \subseteq deferred_action_flags'
BY DEF Raise

\* A turn takes over what was raised before it.
LEMMA TakeKeeps ==
  ASSUME IInv, ConnectionUnderWay, Proceed \/ Awake
  PROVE  ConnectionUnderWay'
<1>. DEFINE copies == [event |-> loc_event, flags |-> deferred_action_flags,
                       status |-> agps_status, aiding |-> aiding_data_for_deletion]
<1>1. TakeAll /\ local = Nothing
  BY DEF Proceed, Awake, At, IInv, EngOK, Carried
<1>2. copies \in Copies
  BY DEF IInv, EngOK, EngTypeOK, Copies
<1>3. ~TurnConcerns /\ due' = due
  BY <1>1 DEF TurnConcerns, Nothing, TakeAll, callerVars
<1>4. due # {} \/ Concerns(copies)
  BY <1>3, UnderWay DEF Concerns
<1>5. CASE due # {}
  BY <1>3, <1>5 DEF ConnectionUnderWay
<1>6. CASE Concerns(copies) /\ loc_event = None
  <2>1. GoOn(copies, AfterEvent(copies))
    BY <1>1, <1>6 DEF TakeAll
  <2>. HIDE DEF copies
  <2>2. TurnConcerns'
    BY <1>2, <1>6, <2>1, TurnGoesOn DEF OnwardFrom
  <2>. QED BY <2>2 DEF ConnectionUnderWay, TurnConcerns
<1>7. CASE Concerns(copies) /\ loc_event # None
  <2>1. dpc' = "event" /\ local' = copies
    BY <1>1, <1>7 DEF TakeAll
  <2>. HIDE DEF copies
  <2>2. TurnConcerns'
    BY <1>7, <2>1 DEF TurnConcerns, Concerns
  <2>. QED BY <2>2 DEF ConnectionUnderWay, TurnConcerns
<1>. QED BY <1>4, <1>5, <1>6, <1>7

LEMMA DeferredKeeps ==
  ASSUME IInv, ConnectionUnderWay, DeferredStep \/ SpuriousWake, ~Informed
  PROVE  ConnectionUnderWay'
<1>0. local \in Copies
  BY DEF IInv, EngOK, EngTypeOK
<1>1. CASE StartDeferred
  <2>1. /\ UNCHANGED <<agps_status, local, deferred_action_flags, due>> /\ dpc' = "top"
    BY <1>1, Zenon DEF StartDeferred, NoShared, callerVars
  <2>. QED BY <2>1, OthersKeep
<1>2. CASE Sleep
  <2>1. UNCHANGED <<agps_status, local, deferred_action_flags, due>> /\ dpc' = "asleep"
    BY <1>2, Zenon DEF Sleep, callerVars
  <2>. QED BY <2>1, OthersKeep
<1>3. CASE Proceed \/ Woken \/ SpuriousWake
  BY <1>3, TakeKeeps DEF Woken, SpuriousWake
<1>4. CASE HandOn \/ ProcessReport \/ Signal \/ NiRequest \/ NiSave
  <2>1. dpc # "tell" /\ \E place \in OnwardFrom(local) : GoOn(local, place)
    BY <1>4 DEF HandOn, ProcessReport, Signal, NiRequest, NiSave, Processed, Processing, At,
         OnwardFrom
  <2>2. NoShared /\ UNCHANGED callerVars
    BY <1>4, Zenon DEF HandOn, ProcessReport, Signal, NiRequest, NiSave
  <2>3. UNCHANGED <<agps_status, due, deferred_action_flags>>
    BY <2>2, Zenon DEF NoShared, callerVars
  <2>. QED BY <1>0, <2>1, <2>3, TurnKeeps
<1>5. CASE ReportStatus
  <2>1. dpc = "event" /\ GoOn(local, AfterEvent(local)) /\ UNCHANGED <<agps_status, due>>
    BY <1>5, Zenon DEF ReportStatus, Processed, Processing, At, callerVars
  <2>2. deferred_action_flags \subseteq deferred_action_flags'
    <3>1. Raise("DELETE_AIDING") \/ UNCHANGED deferred_action_flags
      BY <1>5, Zenon DEF ReportStatus
    <3>. QED BY <3>1, RaiseAdds
  <2>. QED BY <1>0, <2>1, <2>2, TurnKeeps DEF OnwardFrom
<1>6. CASE ConnRequest
  <2>1. agps_status' \in Connection
    BY <1>6 DEF ConnRequest, Connection
  <2>2. agps_status' # None
    BY <2>1, LocEngAssumption
  <2>. QED BY <2>2 DEF ConnectionUnderWay
<1>7. CASE DeleteAidingDeferred
  <2>1. /\ dpc = "aiding" /\ GoOn(local, AfterAiding(local))
        /\ UNCHANGED <<agps_status, due, deferred_action_flags>>
    BY <1>7, Zenon DEF DeleteAidingDeferred, At, callerVars
  <2>. QED BY <1>0, <2>1, TurnKeeps DEF OnwardFrom
<1>8. CASE InformModem
  <2>1. dpc = "atl" /\ GoOn(local, "informed") /\ NoShared /\ UNCHANGED callerVars
    BY <1>8, Zenon DEF InformModem, At
  <2>2. UNCHANGED <<agps_status, due, deferred_action_flags>>
    BY <2>1, Zenon DEF NoShared, callerVars
  <2>. QED BY <1>0, <2>1, <2>2, TurnKeeps DEF OnwardFrom
\* The framework owes an answer now.
<1>9. CASE Tell
  <2>1. due' # {}
    BY <1>9 DEF Tell
  <2>. QED BY <2>1 DEF ConnectionUnderWay
<1>. QED
  BY <1>1, <1>2, <1>3, <1>4, <1>5, <1>6, <1>7, <1>8, <1>9, Zenon DEF DeferredStep, ProcessEvent

\* The other threads.
LEMMA ElsewhereKeeps ==
  ASSUME ConnectionUnderWay,
         \/ ModemEvent \/ ModemReport \/ DataConnAnswer \/ NiStep \/ UNCHANGED vars
         \/ \E t \in Threads : InIoctl(t)
         \/ \E c \in Callers : CallerBegins(c) \/ CallerReturns(c)
  PROVE  ConnectionUnderWay'
<1>1. CASE ModemEvent \/ ModemReport
  <2>1. PICK event : LocEventCb(event)
    BY <1>1, Zenon DEF ModemEvent, ModemReport
  <2>2. Raise("EVENT") /\ UNCHANGED <<agps_status, dpc, local, due>>
    BY <2>1, Zenon DEF LocEventCb
  <2>. QED BY <2>2, RaiseAdds, OthersKeep
<1>2. CASE DataConnAnswer
  <2>1. PICK flag \in DataFlags : Raise(flag)
    BY <1>2 DEF DataConnAnswer, DataFlags
  <2>2. deferred_action_flags' \cap DataFlags # {}
    BY <2>1 DEF Raise
  <2>. QED BY <2>2 DEF ConnectionUnderWay
<1>3. CASE UNCHANGED <<deferredVars, due>>
  <2>1. UNCHANGED <<agps_status, dpc, local, due, deferred_action_flags>>
    BY <1>3, Zenon DEF deferredVars
  <2>. QED BY <2>1, OthersKeep
<1>4. CASE NiStep \/ UNCHANGED vars \/ \E t \in Threads : InIoctl(t)
  <2>1. UNCHANGED <<deferredVars, due>>
    BY <1>4, Zenon DEF NiStep, InIoctl, vars, callerVars
  <2>. QED BY <1>3, <2>1
<1>5. ASSUME NEW c \in Callers, CallerReturns(c) PROVE ConnectionUnderWay'
  <2>1. UNCHANGED <<deferredVars, due>>
    BY <1>5, Zenon DEF CallerReturns, StopFix, SendAnswer, Answered, Returns, Goes
  <2>. QED BY <1>3, <2>1
<1>6. ASSUME NEW c \in Callers, CallerBegins(c) PROVE ConnectionUnderWay'
  <2>1. CASE SetPositionMode(c) \/ Start(c) \/ Stop(c) \/ NiRespond(c)
    <3>1. UNCHANGED <<deferredVars, due>>
      BY <2>1, Zenon DEF SetPositionMode, Start, Stop, NiRespond
    <3>. QED BY <1>3, <3>1
  <2>2. CASE DeleteAidingData(c)
    <3>1. UNCHANGED <<agps_status, dpc, local, due>>
      BY <2>2, Zenon DEF DeleteAidingData
    <3>2. Raise("DELETE_AIDING") \/ UNCHANGED deferred_action_flags
      BY <2>2, Zenon DEF DeleteAidingData
    <3>3. deferred_action_flags \subseteq deferred_action_flags'
      BY <3>2, RaiseAdds
    <3>. QED BY <3>1, <3>3, OthersKeep
  <2>. QED BY <1>6, <2>1, <2>2, Zenon DEF CallerBegins
<1>. QED BY <1>1, <1>2, <1>4, <1>5, <1>6, Zenon

\* What a step makes of the stop that is put off, the deferred thread's own apart: it is put
\* off only while it would be, and a stop that is made is owed no more.
LEMMA PutOff ==
  ASSUME Next, ~Informed, ~ConnRequest
  PROVE  \/ UNCHANGED stopVars
         \/ agps_request_pending /\ stop_request_pending' = TRUE
         \/ ~stopOwed' /\ UNCHANGED agps_request_pending
<1>1. \/ UNCHANGED stopVars
      \/ \E c \in Callers : Stop(c) \/ StopFix(c)
  BY Zenon DEF Next, ModemEvent, ModemReport, LocEventCb, DeferredStep, StartDeferred, Sleep,
     Proceed, Woken, SpuriousWake, Awake, TakeAll, ProcessEvent, HandOn, ProcessReport, Signal,
     ReportStatus, NiRequest, NiSave, DeleteAidingDeferred, InformModem, Tell, InIoctl, NiStep,
     CallerBegins, SetPositionMode, Start, DeleteAidingData, NiRespond,
     CallerReturns, SendAnswer, Answered, Returns, DataConnAnswer
<1>2. ASSUME NEW c \in Callers, Stop(c)
      PROVE  UNCHANGED stopVars \/ (agps_request_pending /\ stop_request_pending' = TRUE)
  <2>1. CASE agps_request_pending
    BY <1>2, <2>1 DEF Stop
  <2>2. CASE ~agps_request_pending
    BY <1>2, <2>2 DEF Stop, stopVars
  <2>. QED BY <2>1, <2>2
<1>3. ASSUME NEW c \in Callers, StopFix(c)
      PROVE  ~stopOwed' /\ UNCHANGED agps_request_pending
  BY <1>3 DEF StopFix
<1>. QED BY <1>1, <1>2, <1>3

LEMMA NextStranded == IInv /\ StopNotStranded /\ [Next]_vars => StopNotStranded'
<1>. SUFFICES ASSUME IInv, StopNotStranded, [Next]_vars PROVE StopNotStranded'
  OBVIOUS
<1>1. CASE Informed
  <2>1. ~agps_request_pending' /\ ~stopOwed'
    BY <1>1, Zenon DEF Informed, StopNotStranded
  <2>. QED BY <2>1, Zenon DEF StopNotStranded
<1>2. CASE ~Informed
  <2>1. ConnectionUnderWay => ConnectionUnderWay'
    BY <1>2, DeferredKeeps, ElsewhereKeeps, Zenon DEF Next
  <2>2. CASE ConnRequest
    <3>1. agps_status' \in Connection /\ UNCHANGED <<stop_request_pending, stopOwed>>
      BY <2>2 DEF ConnRequest, Connection
    <3>2. ConnectionUnderWay'
      BY <3>1, LocEngAssumption DEF ConnectionUnderWay
    <3>. QED BY <3>1, <3>2, Zenon DEF StopNotStranded
  <2>3. CASE Next /\ ~ConnRequest
    <3>1. CASE UNCHANGED stopVars
      BY <2>1, <3>1, Zenon DEF StopNotStranded, stopVars
    <3>2. CASE agps_request_pending /\ stop_request_pending' = TRUE
      BY <2>1, <3>2, Zenon DEF StopNotStranded
    <3>3. CASE ~stopOwed' /\ UNCHANGED agps_request_pending
      BY <2>1, <3>3, Zenon DEF StopNotStranded
    <3>. QED BY <1>2, <2>3, <3>1, <3>2, <3>3, PutOff
  <2>4. CASE UNCHANGED vars
    <3>1. UNCHANGED <<agps_request_pending, stopOwed, stop_request_pending>>
      BY <2>4, Zenon DEF vars, stopVars
    <3>. QED BY <2>1, <3>1, Zenon DEF StopNotStranded
  <2>. QED BY <2>2, <2>3, <2>4
<1>. QED BY <1>1, <1>2

\* A stop that loc_eng_stop has put off is never left behind: stop_request_pending stays set,
\* and until loc_eng_process_atl_deferred_action has made the stop, the connection it waits
\* for is on its way through the engine or with the framework.
THEOREM StopsAreNotStranded == Spec => []StopNotStranded
<1>1. Init => StopNotStranded
  BY Zenon DEF Init, StopNotStranded
<1>. QED BY <1>1, InitIInv, NextIInv, NextStranded, PTL DEF Spec
-----------------------------------------------------------------------------
(* Nothing is overlooked                                                   *)

LEMMA RaiseTells ==
  ASSUME NothingOverlooked, NEW flag, Raise(flag),
         loc_event' = loc_event \/ flag = "EVENT",
         agps_status' = agps_status \/ flag = "AGPS_STATUS",
         dpc' = dpc \/ dpc' # "asleep"
  PROVE  NothingOverlooked'
<1>1. deferred_action_flags' = deferred_action_flags \cup {flag}
        /\ signalled' = (signalled \/ dpc = "asleep")
  BY DEF Raise
<1>2. /\ loc_event' # None => "EVENT" \in deferred_action_flags'
      /\ agps_status' # None => "AGPS_STATUS" \in deferred_action_flags'
  BY <1>1 DEF NothingOverlooked
<1>3. dpc' = "asleep" => signalled'
  BY <1>1, Zenon
<1>. QED BY <1>2, <1>3, Zenon DEF NothingOverlooked, At

\* A step that raises nothing and takes nothing.
LEMMA SilentTells ==
  ASSUME NothingOverlooked,
         UNCHANGED <<loc_event, deferred_action_flags, agps_status, signalled>>,
         dpc' = dpc \/ dpc' # "asleep" \/ deferred_action_flags = {}
  PROVE  NothingOverlooked'
BY DEF NothingOverlooked, At

LEMMA DeferredTells ==
  ASSUME IInv, NothingOverlooked, DeferredStep \/ SpuriousWake
  PROVE  NothingOverlooked'
<1>0. local \in Copies
  BY DEF IInv, EngOK, EngTypeOK
<1>1. CASE StartDeferred \/ Sleep
  <2>1. UNCHANGED <<loc_event, deferred_action_flags, agps_status, signalled>>
    BY <1>1, Zenon DEF StartDeferred, NoShared, Sleep
  <2>2. dpc' = "top" \/ deferred_action_flags = {}
    BY <1>1, Zenon DEF StartDeferred, Sleep
  <2>. QED BY <2>1, <2>2, SilentTells
<1>2. CASE Proceed \/ Woken \/ SpuriousWake
  <2>1. loc_event' = None /\ agps_status' = None /\ deferred_action_flags' = {}
    BY <1>2, Zenon DEF Proceed, Woken, SpuriousWake, Awake, TakeAll
  <2>. QED BY <2>1 DEF NothingOverlooked
\* The rest of the turn goes on to a place that is not the wait.
<1>3. \A place : GoOn(local, place) => dpc' = place
  BY Zenon DEF GoOn
<1>4. AfterEvent(local) # "asleep" /\ AfterAiding(local) # "asleep"
  BY <1>0, AfterEventOK, AfterAidingOK
<1>5. CASE \/ HandOn \/ ProcessReport \/ Signal \/ NiRequest \/ NiSave
           \/ InformModem \/ Informed \/ Tell
  <2>1. NoShared
    BY <1>5, Zenon DEF HandOn, ProcessReport, Signal, NiRequest, NiSave, InformModem, Informed, Tell
  <2>2. dpc' # "asleep"
    BY <1>3, <1>4, <1>5 DEF HandOn, ProcessReport, Signal, NiRequest, NiSave, InformModem,
       Informed, Tell, Processed
  <2>. QED BY <2>1, <2>2, SilentTells DEF NoShared
<1>6. CASE ReportStatus
  <2>1. dpc' # "asleep" /\ UNCHANGED <<loc_event, agps_status>>
    BY <1>3, <1>4, <1>6 DEF ReportStatus, Processed
  <2>2. Raise("DELETE_AIDING") \/ UNCHANGED <<deferred_action_flags, signalled>>
    BY <1>6, Zenon DEF ReportStatus
  <2>. QED BY <2>1, <2>2, RaiseTells, SilentTells
<1>7. CASE ConnRequest
  <2>1. dpc' # "asleep" /\ UNCHANGED loc_event /\ Raise("AGPS_STATUS")
    BY <1>3, <1>4, <1>7 DEF ConnRequest, Processed
  <2>. QED BY <2>1, RaiseTells
<1>8. CASE DeleteAidingDeferred
  <2>1. UNCHANGED <<loc_event, deferred_action_flags, agps_status, signalled>>
    BY <1>8, Zenon DEF DeleteAidingDeferred
  <2>2. dpc' # "asleep"
    BY <1>3, <1>4, <1>8, Zenon DEF DeleteAidingDeferred
  <2>. QED BY <2>1, <2>2, SilentTells
<1>. QED BY <1>1, <1>2, <1>5, <1>6, <1>7, <1>8, Zenon DEF DeferredStep, ProcessEvent

LEMMA NextTells == IInv /\ NothingOverlooked /\ [Next]_vars => NothingOverlooked'
<1>. SUFFICES ASSUME IInv, NothingOverlooked, [Next]_vars PROVE NothingOverlooked'
  OBVIOUS
<1>1. CASE ModemEvent \/ ModemReport
  <2>1. PICK event : LocEventCb(event)
    BY <1>1, Zenon DEF ModemEvent, ModemReport
  <2>2. Raise("EVENT") /\ UNCHANGED <<agps_status, dpc>>
    BY <2>1, Zenon DEF LocEventCb
  <2>. QED BY <2>2, RaiseTells
<1>2. CASE DataConnAnswer
  <2>1. (\E flag : Raise(flag)) /\ UNCHANGED <<loc_event, agps_status, dpc>>
    BY <1>2, Zenon DEF DataConnAnswer
  <2>. QED BY <2>1, RaiseTells
<1>3. CASE UNCHANGED deferredVars
  <2>1. UNCHANGED <<loc_event, deferred_action_flags, agps_status, signalled, dpc>>
    BY <1>3, Zenon DEF deferredVars
  <2>. QED BY <2>1, SilentTells
<1>4. ASSUME NEW c \in Callers, CallerBegins(c) PROVE NothingOverlooked'
  <2>1. CASE DeleteAidingData(c)
    <3>1. UNCHANGED <<loc_event, agps_status, dpc>>
      BY <2>1, Zenon DEF DeleteAidingData
    <3>2. Raise("DELETE_AIDING") \/ UNCHANGED <<deferred_action_flags, signalled>>
      BY <2>1, Zenon DEF DeleteAidingData
    <3>. QED BY <3>1, <3>2, RaiseTells, SilentTells
  <2>2. CASE ~DeleteAidingData(c)
    <3>1. UNCHANGED deferredVars
      BY <1>4, <2>2, Zenon DEF CallerBegins, SetPositionMode, Start, Stop, NiRespond
    <3>. QED BY <1>3, <3>1
  <2>. QED BY <2>1, <2>2
<1>5. ASSUME NEW c \in Callers, CallerReturns(c) PROVE UNCHANGED deferredVars
  BY <1>5, Zenon DEF CallerReturns, StopFix, SendAnswer, Answered, Returns
<1>6. CASE NiStep \/ UNCHANGED vars \/ \E t \in Threads : InIoctl(t)
  BY <1>3, <1>6, Zenon DEF NiStep, InIoctl, vars
<1>. QED BY <1>1, <1>2, <1>3, <1>4, <1>5, <1>6, DeferredTells, Zenon DEF Next

\* Whatever order the modem's events, the framework's calls and the turns of the deferred
\* thread come in, an event or a connection request that was left for the thread has its flag
\* up, and the thread does not wait over a flag without having been signalled (loc_event_cb,
\* loc_eng_process_conn_request, loc_eng_process_deferred_action).
THEOREM NoFlagOverlooked == Spec => []NothingOverlooked
<1>1. Init => NothingOverlooked
  BY Zenon DEF Init, NothingOverlooked, At
<1>. QED BY <1>1, InitIInv, NextIInv, NextTells, PTL DEF Spec
=============================================================================
