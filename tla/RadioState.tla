------------------------------ MODULE RadioState ------------------------------
(***************************************************************************)
(* The radio state of the reference RIL: reference-ril/reference-ril.c.    *)
(*                                                                         *)
(* Three kinds of thread change sState.  The dispatch thread, which runs   *)
(* the event loop of rild, initialises the modem, polls its SIM and serves *)
(* requests; the reader thread of an AT channel reports that the modem has *)
(* hung up; and the main thread opens the channel again.  setRadioState    *)
(* changes the state under a mutex, announces the change and starts what   *)
(* the new state calls for after it has unlocked.                          *)
(*                                                                         *)
(* The AT channel (module AtChannel) is seen here as what a command does:  *)
(* it works, or it fails.  Timed callbacks (module RilEvent) are counted.  *)
(***************************************************************************)
EXTENDS Naturals

CONSTANTS
  Dispatch,     \* the thread of the event loop
  SimStates,    \* what the SIM may be: "notready", "ready", "locked" (or absent)
  MaxOpens,     \* bound: times the channel is opened
  MaxRequests   \* bound: requests the client makes

Readers == 1..MaxOpens    \* the reader thread of the n-th channel
Threads == {Dispatch} \cup Readers

ASSUME ThreadsAssumption == Dispatch \notin Readers
ASSUME SimAssumption ==
  /\ SimStates \subseteq {"notready", "ready", "locked"}
  /\ SimStates # {}
  /\ "locked" \in SimStates => "ready" \in SimStates    \* a PIN opens it
ASSUME BoundsAssumption == MaxOpens \in Nat /\ MaxRequests \in Nat

VARIABLES
  sState,
  s_closed,
  mpc,            \* the main thread
  channel,        \* the channel that is open (the n-th), or 0
  opens,          \* channels opened so far
  inits, polls,   \* timed callbacks requested: initializeCallback, pollSIMState
  pc,             \* of each thread: where it is
  target, old,    \* of each thread: newState and oldState of its setRadioState
  then,           \* of each thread: where it goes when setRadioState has returned
  since,          \* the channel when the dispatch thread began its callback or request
  smsSetUp,       \* the channel whose modem onSIMReady has set up for SMS, or 0
  cfun, sim,      \* the modem: its radio is on; its SIM
  hungUp,         \* the modem has hung up on this channel
  requests,       \* history: counter behind MaxRequests
  overtaken       \* history: the main thread began to open this channel before the reader
                  \* of an earlier one had returned from setRadioState

main == <<mpc, opens>>
callbacks == <<inits, polls>>
threads == <<pc, target, old, then>>
modem == <<cfun, sim, hungUp>>
vars == <<sState, s_closed, main, channel, callbacks, threads, since, smsSetUp, modem, requests,
          overtaken>>

Init ==
  /\ sState = "UNAVAILABLE"
  /\ s_closed = FALSE
  /\ mpc = "open"
  /\ channel = 0
  /\ opens = 0
  /\ inits = 0
  /\ polls = 0
  /\ pc = [t \in Threads |-> "idle"]
  /\ target = [t \in Threads |-> "UNAVAILABLE"]
  /\ old = [t \in Threads |-> "UNAVAILABLE"]
  /\ then = [t \in Threads |-> "idle"]
  /\ since = 0
  /\ smsSetUp = 0
  /\ cfun \in BOOLEAN
  /\ sim \in SimStates
  /\ hungUp = FALSE
  /\ requests = 0
  /\ overtaken = FALSE

Go(t, to) == pc' = [pc EXCEPT ![t] = to]

\* A thread calls setRadioState(state) and goes on at next when it has returned.
Call(t, state, next) ==
  /\ Go(t, "set")
  /\ target' = [target EXCEPT ![t] = state]
  /\ then' = [then EXCEPT ![t] = next]
  /\ UNCHANGED old

\* An AT command works when the channel is open.  One that was sent on a channel which has
\* closed since fails, and so may any while two threads send commands, as one may find the
\* other's pending.
Sending == {"simready", "poll", "status"}
Works == channel # 0
Fails(t) ==
  \/ channel = 0 \/ channel # since
  \/ t # Dispatch \/ \E n \in Readers : pc[n] \in Sending

-----------------------------------------------------------------------------
(* setRadioState.                                                          *)

\* Variant: the state asked for is taken as it is.
AsAsked(t) == target[t]

\* If the channel is closed the only reasonable state is RADIO_STATE_UNAVAILABLE.
NewState(t) == IF s_closed THEN "UNAVAILABLE" ELSE target[t]

\* pthread_cond_broadcast wakes the main thread, the only one that waits.
Broadcast == mpc' = IF mpc = "asleep" THEN "check" ELSE mpc

\* Variant: a state that stays the same is not announced to the main thread.
BroadcastChange(t) ==
  IF sState # NewState(t) THEN Broadcast ELSE mpc' = mpc

BroadcastState(t) ==
  IF sState # NewState(t) \/ s_closed THEN Broadcast ELSE mpc' = mpc

SetRadioState(t) ==
  /\ pc[t] = "set"
  /\ old' = [old EXCEPT ![t] = sState]
  /\ sState' = NewState(t)
  /\ BroadcastState(t)
  /\ Go(t, "changed")
  /\ UNCHANGED <<s_closed, opens, channel, callbacks, target, then, since, smsSetUp,
                 modem, requests, overtaken>>

\* After the unlock: sState is read again, here and in FollowUp.
AnnounceChange(t) ==
  /\ pc[t] = "changed"
  /\ Go(t, IF sState # old[t] THEN "announced" ELSE then[t])
  /\ UNCHANGED <<sState, s_closed, main, channel, callbacks, target, old, then, since, smsSetUp,
                 modem, requests, overtaken>>

\* Variant: what SIM_READY calls for is left out.
FollowUpPoll(t) ==
  /\ pc[t] = "announced"
  /\ Go(t, IF sState = "SIM_NOT_READY" THEN "poll" ELSE then[t])
  /\ UNCHANGED <<sState, s_closed, main, channel, callbacks, target, old, then, since, smsSetUp,
                 modem, requests, overtaken>>

\* onSIMReady, or onRadioPowerOn, which polls the SIM.
FollowUp(t) ==
  /\ pc[t] = "announced"
  /\ Go(t, CASE sState = "SIM_READY"     -> "simready"
             [] sState = "SIM_NOT_READY" -> "poll"
             [] OTHER                    -> then[t])
  /\ UNCHANGED <<sState, s_closed, main, channel, callbacks, target, old, then, since, smsSetUp,
                 modem, requests, overtaken>>

\* The commands that set the modem up for SMS; their errors are ignored.
OnSIMReady(t) ==
  /\ pc[t] = "simready"
  /\ \/ Works /\ smsSetUp' = channel
     \/ Fails(t) /\ UNCHANGED smsSetUp
  /\ Go(t, then[t])
  /\ UNCHANGED <<sState, s_closed, main, channel, callbacks, target, old, then, since,
                 modem, requests, overtaken>>

PollSIMState(t) ==
  /\ pc[t] = "poll"
  /\ Go(t, IF sState = "SIM_NOT_READY" THEN "status" ELSE then[t])
  /\ UNCHANGED <<sState, s_closed, main, channel, callbacks, target, old, then, since, smsSetUp,
                 modem, requests, overtaken>>

\* getSIMStatus: SIM_NOT_READY on error.
SIMStatus(t, status) ==
  \/ sState \in {"OFF", "UNAVAILABLE"} /\ status = "notready"
  \/ sState \notin {"OFF", "UNAVAILABLE"} /\ Works /\ status = sim
  \/ sState \notin {"OFF", "UNAVAILABLE"} /\ Fails(t) /\ status = "notready"

\* Variant: a SIM that is not ready is not polled again.
PollOnce(t) == polls' = polls

PollAgain(t) == polls' = polls + 1

PollAnswered(t) ==
  /\ pc[t] = "status"
  /\ \/ /\ SIMStatus(t, "notready")
        /\ PollAgain(t)
        /\ Go(t, then[t])
        /\ UNCHANGED <<target, old, then>>
     \/ /\ SIMStatus(t, "ready")
        /\ Call(t, "SIM_READY", then[t])
        /\ UNCHANGED polls
     \/ /\ SIMStatus(t, "locked")
        /\ Call(t, "SIM_LOCKED_OR_ABSENT", then[t])
        /\ UNCHANGED polls
  /\ UNCHANGED <<sState, s_closed, main, channel, inits, since, smsSetUp, modem,
                 requests, overtaken>>

StateChange(t) ==
  \/ SetRadioState(t) \/ AnnounceChange(t) \/ FollowUp(t)
  \/ OnSIMReady(t) \/ PollSIMState(t) \/ PollAnswered(t)

-----------------------------------------------------------------------------
(* The dispatch thread: timed callbacks and requests.                      *)

RunPoll ==
  /\ pc[Dispatch] = "idle"
  /\ polls > 0
  /\ polls' = polls - 1
  /\ since' = channel
  /\ then' = [then EXCEPT ![Dispatch] = "idle"]
  /\ Go(Dispatch, "poll")
  /\ UNCHANGED <<sState, s_closed, main, channel, inits, target, old, smsSetUp, modem,
                 requests, overtaken>>

InitializeCallback ==
  /\ pc[Dispatch] = "idle"
  /\ inits > 0
  /\ inits' = inits - 1
  /\ since' = channel
  /\ Call(Dispatch, "OFF", "configure")
  /\ UNCHANGED <<sState, s_closed, main, channel, polls, smsSetUp, modem, requests, overtaken>>

\* The handshake and the commands after it, whose errors are ignored; then isRadioOn.
ConfigureModem ==
  /\ pc[Dispatch] = "configure"
  /\ \/ /\ Works /\ cfun
        /\ Call(Dispatch, "SIM_NOT_READY", "idle")
     \/ /\ Fails(Dispatch) \/ ~cfun
        /\ Go(Dispatch, "idle")
        /\ UNCHANGED <<target, old, then>>
  /\ UNCHANGED <<sState, s_closed, main, channel, callbacks, since, smsSetUp, modem,
                 requests, overtaken>>

\* onRequest, with the requests it refuses in this state.
Refused(kind) ==
  \/ sState = "UNAVAILABLE" /\ kind # "simStatus"
  \/ sState = "OFF" /\ kind \notin {"simStatus", "powerOn", "powerOff"}

OnRequest(kind) ==
  /\ pc[Dispatch] = "idle"
  /\ requests < MaxRequests
  /\ requests' = requests + 1
  /\ since' = channel
  /\ Go(Dispatch, IF Refused(kind) THEN "idle" ELSE kind)
  /\ UNCHANGED <<sState, s_closed, main, channel, callbacks, target, old, then, smsSetUp,
                 modem, overtaken>>

\* requestRadioPower.  A command whose channel closes may have been obeyed all the same.
RequestPowerOff ==
  /\ pc[Dispatch] = "powerOff"
  /\ \/ /\ sState # "OFF" /\ Works
        /\ cfun' = FALSE
        /\ Call(Dispatch, "OFF", "idle")
     \/ /\ sState = "OFF" \/ Fails(Dispatch)
        /\ cfun' \in IF sState = "OFF" THEN {cfun} ELSE {cfun, FALSE}
        /\ Go(Dispatch, "idle")
        /\ UNCHANGED <<target, old, then>>
  /\ UNCHANGED <<sState, s_closed, main, channel, callbacks, since, smsSetUp, sim,
                 hungUp, requests, overtaken>>

RequestPowerOn ==
  /\ pc[Dispatch] = "powerOn"
  /\ \/ /\ sState = "OFF" /\ Works
        /\ cfun' = TRUE
        /\ Call(Dispatch, "SIM_NOT_READY", "idle")
     \/ /\ sState # "OFF" \/ Fails(Dispatch)
        /\ cfun' \in IF sState # "OFF" THEN {cfun} ELSE {cfun, TRUE}
        /\ Go(Dispatch, "idle")
        /\ UNCHANGED <<target, old, then>>
  /\ UNCHANGED <<sState, s_closed, main, channel, callbacks, since, smsSetUp, sim,
                 hungUp, requests, overtaken>>

\* requestEnterSimPin changes the SIM, not sState.
RequestEnterSimPin ==
  /\ pc[Dispatch] = "enterPin"
  /\ \/ Works /\ sim' = IF sim = "locked" THEN "ready" ELSE sim
     \/ UNCHANGED sim
  /\ Go(Dispatch, "idle")
  /\ UNCHANGED <<sState, s_closed, main, channel, callbacks, target, old, then, since, smsSetUp,
                 cfun, hungUp, requests, overtaken>>

\* GET_SIM_STATUS answers and changes nothing.
GetSIMStatus ==
  /\ pc[Dispatch] = "simStatus"
  /\ Go(Dispatch, "idle")
  /\ UNCHANGED <<sState, s_closed, main, channel, callbacks, target, old, then, since, smsSetUp,
                 modem, requests, overtaken>>

\* So does every other request, as far as this state goes.
OtherRequest ==
  /\ pc[Dispatch] = "other"
  /\ Go(Dispatch, "idle")
  /\ UNCHANGED <<sState, s_closed, main, channel, callbacks, target, old, then, since, smsSetUp,
                 modem, requests, overtaken>>

Serve ==
  \/ RunPoll \/ InitializeCallback \/ ConfigureModem
  \/ RequestPowerOff \/ RequestPowerOn \/ RequestEnterSimPin
  \/ GetSIMStatus \/ OtherRequest

Request ==
  \E kind \in {"powerOn", "powerOff", "enterPin", "simStatus", "other"} : OnRequest(kind)

-----------------------------------------------------------------------------
(* The main thread and the reader threads.                                 *)

\* mainLoop up to at_open, which starts the reader.
ReadersBack == \A n \in Readers : pc[n] \in {"idle", "reading"}

ClearClosed ==
  /\ mpc = "open"
  /\ opens < MaxOpens
  /\ s_closed' = FALSE
  /\ overtaken' = ~ReadersBack
  /\ mpc' = "opening"
  /\ UNCHANGED <<sState, opens, channel, callbacks, threads, since, smsSetUp, modem, requests>>

AtOpen ==
  /\ mpc = "opening"
  /\ mpc' = "opened"
  /\ opens' = opens + 1
  /\ channel' = opens + 1
  /\ hungUp' = FALSE
  /\ Go(opens + 1, "reading")
  /\ UNCHANGED <<sState, s_closed, callbacks, target, old, then, since, smsSetUp, cfun,
                 sim, requests, overtaken>>

\* RIL_requestTimedCallback(initializeCallback), then the second of sleep.
RequestInitialize ==
  /\ mpc = "opened"
  /\ mpc' = "check"
  /\ inits' = inits + 1
  /\ UNCHANGED <<sState, s_closed, opens, channel, polls, threads, since, smsSetUp,
                 modem, requests, overtaken>>

WaitForClose ==
  /\ mpc = "check"
  /\ mpc' = IF s_closed THEN "open" ELSE "asleep"
  /\ UNCHANGED <<sState, s_closed, opens, channel, callbacks, threads, since, smsSetUp,
                 modem, requests, overtaken>>

Main == ClearClosed \/ AtOpen \/ RequestInitialize \/ WaitForClose

\* The reader sees the end of its channel and closes it; onATReaderClosed.
AtClose(n) ==
  /\ pc[n] = "reading"
  /\ channel = n /\ hungUp
  /\ channel' = 0
  /\ Go(n, "closed")
  /\ UNCHANGED <<sState, s_closed, main, callbacks, target, old, then, since, smsSetUp,
                 modem, requests, overtaken>>

OnATReaderClosed(n) ==
  /\ pc[n] = "closed"
  /\ s_closed' = TRUE
  /\ Call(n, "UNAVAILABLE", "idle")
  /\ UNCHANGED <<sState, main, channel, callbacks, since, smsSetUp, modem, requests, overtaken>>

-----------------------------------------------------------------------------
(* The modem.                                                              *)

ModemHangsUp ==
  /\ channel # 0 /\ ~hungUp
  /\ hungUp' = TRUE
  /\ UNCHANGED <<sState, s_closed, main, channel, callbacks, threads, since, smsSetUp,
                 cfun, sim, requests, overtaken>>

SimBecomes(status) ==
  /\ sim = "notready"
  /\ sim' = status
  /\ UNCHANGED <<sState, s_closed, main, channel, callbacks, threads, since, smsSetUp,
                 cfun, hungUp, requests, overtaken>>

-----------------------------------------------------------------------------

Next ==
  \/ \E t \in Threads : StateChange(t)
  \/ Serve \/ Request
  \/ Main
  \/ \E n \in Readers : AtClose(n) \/ OnATReaderClosed(n)
  \/ ModemHangsUp
  \/ \E status \in SimStates : SimBecomes(status)

Spec == Init /\ [][Next]_vars

\* The threads run and the timers expire, those of one kind as much as the other's; the
\* client, the modem and the SIM promise nothing.
FairSpec ==
  /\ Spec
  /\ \A t \in Threads : WF_vars(StateChange(t))
  /\ WF_vars(Serve) /\ SF_vars(InitializeCallback) /\ SF_vars(RunPoll)
  /\ WF_vars(Main)
  /\ \A n \in Readers : WF_vars(AtClose(n) \/ OnATReaderClosed(n))

-----------------------------------------------------------------------------
(* Properties.                                                             *)

States == {"UNAVAILABLE", "OFF", "SIM_NOT_READY", "SIM_LOCKED_OR_ABSENT", "SIM_READY"}
Places == {"idle", "set", "changed", "announced", "simready", "poll", "status", "configure",
           "powerOn", "powerOff", "enterPin", "simStatus", "other", "reading", "closed"}

TypeOK ==
  /\ sState \in States /\ s_closed \in BOOLEAN
  /\ mpc \in {"open", "opening", "opened", "check", "asleep"}
  /\ channel \in 0..opens /\ opens \in 0..MaxOpens
  /\ inits \in Nat /\ polls \in Nat
  /\ pc \in [Threads -> Places]
  /\ target \in [Threads -> States] /\ old \in [Threads -> States]
  /\ then \in [Threads -> {"idle", "configure"}]
  /\ since \in 0..MaxOpens /\ smsSetUp \in 0..MaxOpens
  /\ cfun \in BOOLEAN /\ sim \in SimStates /\ hungUp \in BOOLEAN
  /\ requests \in 0..MaxRequests /\ overtaken \in BOOLEAN

\* "If we're closed, the only reasonable state is RADIO_STATE_UNAVAILABLE": from the moment
\* the reader has reported the close, until the channel is opened again, no step of the
\* dispatch thread, in the middle of whatever it was doing, makes the state anything else
\* (setRadioState).
UnavailableWhenClosed ==
  s_closed /\ (\A n \in Readers : pc[n] # "set") => sState = "UNAVAILABLE"

\* "onSimReady() and onRadioPowerOn() cannot be called from the AT reader thread.  Currently,
\* this doesn't happen" (setRadioState).  It does: see RadioState_late.cfg.
NeverOnReader == \A n \in Readers : pc[n] \notin Sending

\* It takes an opening that overtakes the reader: while s_closed is set, sState, which is read
\* again without the mutex, makes no reader call them, whatever the dispatch thread does to it
\* in between (setRadioState).
NotOnReader == ~overtaken => NeverOnReader

AtRest ==
  /\ pc[Dispatch] = "idle" /\ inits = 0
  /\ mpc \in {"check", "asleep"} /\ channel # 0

\* When the RIL says that the SIM is ready, and is not about to initialise the modem again,
\* the modem behind this channel has been told to deliver SMS, although the thread that set
\* the state may have done so for the channel before; unless this channel was opened under the
\* reader of an earlier one, whose commands and whose late change of the state may get in the
\* way (setRadioState, onSIMReady, initializeCallback).
SmsSetUp == AtRest /\ ~overtaken /\ sState = "SIM_READY" => smsSetUp = channel

\* No close is overlooked: while the main thread has yet to reopen a channel that is closed,
\* its reader is still to report it, or the flag is set and the main thread will look at it,
\* awake or about to be woken, although the state may be UNAVAILABLE already and not change
\* (onATReaderClosed, the broadcast of setRadioState, waitForClose).
CloseIsNoticed ==
  mpc \in {"opened", "check", "asleep"} /\ channel = 0 =>
    \/ \E n \in Readers : pc[n] = "closed"
    \/ s_closed /\ (mpc = "asleep" => \E n \in Readers : pc[n] = "set")

\* The modem and the SIM are there for good, and the radio is on.
Settled == channel # 0 /\ ~hungUp /\ cfun /\ sim = "ready"

\* When the modem stays, with its radio on and its SIM ready, the state says so in the end,
\* however often the channel has closed before, in the middle of whatever; unless a poll has
\* found the SIM locked or absent, which is not looked at again, or the channel was opened
\* under the reader of an earlier one, whose late UNAVAILABLE then stays (pollSIMState,
\* initializeCallback, waitForClose).
RadioComesUp ==
  <>[](Settled /\ ~overtaken /\ sState # "SIM_LOCKED_OR_ABSENT") => <>[](sState = "SIM_READY")

\* A channel that has closed is opened again (waitForClose, setRadioState).
ClosedIsReopened == (mpc \in {"check", "asleep"} /\ channel = 0) ~> mpc = "open"
=============================================================================
