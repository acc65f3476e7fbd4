-------------------------- MODULE RadioState_proofs --------------------------
(***************************************************************************)
(* Proofs about RadioState, for any number of openings of the channel and  *)
(* of requests: its types; that a closed channel is never reported as      *)
(* anything but unavailable, and that no close is overlooked; and, of a    *)
(* channel whose opening overtook no reader, that no reader thread polls   *)
(* the SIM or sends a command, and that the modem of a ready SIM is set up *)
(* for SMS.                                                                *)
(***************************************************************************)
EXTENDS RadioState, TLAPS

\* What TypeOK says of the threads, of the flags and of the rest.
ThreadsOK ==
  /\ pc \in [Threads -> Places]
  /\ target \in [Threads -> States] /\ old \in [Threads -> States]
  /\ then \in [Threads -> {"idle", "configure"}]
FlagsOK ==
  s_closed \in BOOLEAN /\ cfun \in BOOLEAN /\ hungUp \in BOOLEAN /\ overtaken \in BOOLEAN
RestOK ==
  /\ sState \in States
  /\ mpc \in {"open", "opening", "opened", "check", "asleep"}
  /\ channel \in 0..opens /\ opens \in 0..MaxOpens
  /\ inits \in Nat /\ polls \in Nat
  /\ since \in 0..MaxOpens /\ smsSetUp \in 0..MaxOpens
  /\ sim \in SimStates
  /\ requests \in 0..MaxRequests

LEMMA TypeParts == TypeOK <=> ThreadsOK /\ FlagsOK /\ RestOK
BY Zenon DEF TypeOK, ThreadsOK, FlagsOK, RestOK

\* at_open is called for a channel that may be counted.
OpensLeft == mpc = "opening" => opens < MaxOpens

TypeInv == TypeOK /\ OpensLeft

LEMMA TypePartsNext ==
  ASSUME ThreadsOK', FlagsOK', RestOK', OpensLeft' PROVE TypeInv'
BY Zenon DEF TypeInv, TypeOK, ThreadsOK, FlagsOK, RestOK

LEMMA DispatchIsThread == Dispatch \in Threads /\ Dispatch \notin Readers
BY ThreadsAssumption DEF Threads

LEMMA ReaderIsThread == ASSUME NEW n \in Readers PROVE n \in Threads /\ n # Dispatch
BY ThreadsAssumption DEF Threads

\* What a thread's step does to pc.
LEMMA GoTypes ==
  ASSUME ThreadsOK, NEW t \in Threads, NEW to \in Places, Go(t, to)
  PROVE  /\ pc' \in [Threads -> Places]
         /\ pc'[t] = to
         /\ \A u \in Threads : u # t => pc'[u] = pc[u]
BY DEF ThreadsOK, Go

\* And a call of setRadioState to the thread's variables.
LEMMA CallTypes ==
  ASSUME ThreadsOK, NEW t \in Threads, NEW state \in States,
         NEW next \in {"idle", "configure"}, Call(t, state, next)
  PROVE  /\ ThreadsOK'
         /\ pc'[t] = "set" /\ then'[t] = next
         /\ \A u \in Threads : u # t => pc'[u] = pc[u] /\ then'[u] = then[u]
<1>1. "set" \in Places /\ Go(t, "set")
  BY DEF Call, Places
<1>2. QED BY <1>1, GoTypes DEF Call, ThreadsOK

LEMMA NewStateTypes == ASSUME TypeOK, NEW t \in Threads PROVE NewState(t) \in States
BY DEF NewState, TypeOK, States

LEMMA ThenIsPlace ==
  ASSUME ThreadsOK, NEW t \in Threads
  PROVE  then[t] \in {"idle", "configure"} /\ then[t] \in Places
BY DEF ThreadsOK, Places

\* setRadioState wakes nobody but a main thread that sleeps.
LEMMA BroadcastTypes ==
  ASSUME NEW t \in Threads, BroadcastState(t)
  PROVE  mpc' = mpc \/ (mpc = "asleep" /\ mpc' = "check")
BY DEF BroadcastState, Broadcast

LEMMA InitTypeInv == Init => TypeInv
<1> SUFFICES ASSUME Init PROVE TypeInv
  OBVIOUS
<1>1. ThreadsOK
  BY DEF Init, ThreadsOK, States, Places
<1>2. FlagsOK
  BY Zenon DEF Init, FlagsOK
<1>3. RestOK /\ OpensLeft
  BY BoundsAssumption DEF Init, RestOK, OpensLeft, States
<1>4. QED BY <1>1, <1>2, <1>3, TypeParts DEF TypeInv

\* The steps of setRadioState and of what it calls.
LEMMA StateChangeTypes ==
  ASSUME TypeInv, NEW t \in Threads, StateChange(t)
  PROVE  TypeInv'
<1>0. ThreadsOK /\ FlagsOK /\ RestOK /\ TypeOK /\ OpensLeft
  BY TypeParts DEF TypeInv
<1>1. CASE SetRadioState(t)
  <2>1. "changed" \in Places /\ Go(t, "changed")
    BY <1>1 DEF SetRadioState, Places
  <2>2. ThreadsOK'
    BY <1>0, <1>1, <2>1, GoTypes DEF SetRadioState, ThreadsOK, RestOK
  <2>3. FlagsOK'
    BY <1>0, <1>1, Zenon DEF SetRadioState, FlagsOK, modem
  <2>4. RestOK' /\ OpensLeft'
    BY <1>0, <1>1, NewStateTypes, BroadcastTypes
    DEF SetRadioState, RestOK, OpensLeft, callbacks, modem
  <2>5. QED BY <2>2, <2>3, <2>4, TypePartsNext
<1>2. ASSUME NEW to \in Places, Go(t, to), UNCHANGED <<target, old, then>>,
             UNCHANGED <<sState, s_closed, main, channel, callbacks, since, modem, requests, overtaken>>,
             smsSetUp' \in {smsSetUp, channel}
      PROVE  TypeInv'
  <2>1. ThreadsOK'
    BY <1>0, <1>2, GoTypes DEF ThreadsOK
  <2>2. FlagsOK'
    BY <1>0, <1>2, Zenon DEF FlagsOK, modem
  <2>3. RestOK' /\ OpensLeft'
    BY <1>0, <1>2, BoundsAssumption DEF RestOK, OpensLeft, main, callbacks, modem
  <2>4. QED BY <2>1, <2>2, <2>3, TypePartsNext
<1>3. then[t] \in {"idle", "configure"} /\ then[t] \in Places
  BY <1>0, ThenIsPlace
<1>4. CASE AnnounceChange(t) \/ FollowUp(t) \/ PollSIMState(t)
  <2>1. \E to \in Places : Go(t, to)
    BY <1>3, <1>4 DEF AnnounceChange, FollowUp, PollSIMState, Places
  <2>2. /\ UNCHANGED <<target, old, then>>
        /\ UNCHANGED <<sState, s_closed, main, channel, callbacks, since, modem, requests, overtaken>>
        /\ smsSetUp' = smsSetUp
    BY <1>4, Zenon DEF AnnounceChange, FollowUp, PollSIMState
  <2>3. QED BY <1>2, <2>1, <2>2
<1>5. CASE OnSIMReady(t)
  <2>1. Go(t, then[t]) /\ smsSetUp' \in {smsSetUp, channel}
    BY <1>5 DEF OnSIMReady
  <2>2. /\ UNCHANGED <<target, old, then>>
        /\ UNCHANGED <<sState, s_closed, main, channel, callbacks, since, modem, requests, overtaken>>
    BY <1>5, Zenon DEF OnSIMReady
  <2>3. QED BY <1>2, <1>3, <2>1, <2>2
<1>6. CASE PollAnswered(t)
  <2>1. ThreadsOK'
    <3>1. CASE Go(t, then[t]) /\ UNCHANGED <<target, old, then>>
      BY <1>0, <1>3, <3>1, GoTypes DEF ThreadsOK
    <3>2. CASE \E state \in {"SIM_READY", "SIM_LOCKED_OR_ABSENT"} : Call(t, state, then[t])
      BY <1>0, <1>3, <3>2, CallTypes DEF States
    <3>3. QED BY <1>6, <3>1, <3>2 DEF PollAnswered
  <2>2. FlagsOK'
    BY <1>0, <1>6, Zenon DEF PollAnswered, FlagsOK, modem
  <2>3. polls' \in Nat
    BY <1>0, <1>6 DEF PollAnswered, PollAgain, RestOK
  <2>4. RestOK' /\ OpensLeft'
    BY <1>0, <1>6, <2>3 DEF PollAnswered, RestOK, OpensLeft, main, modem
  <2>5. QED BY <2>1, <2>2, <2>4, TypePartsNext
<1>7. QED BY <1>1, <1>4, <1>5, <1>6, Zenon DEF StateChange

\* The dispatch thread's other steps.
LEMMA DispatchTypes ==
  ASSUME TypeInv, Serve \/ Request
  PROVE  TypeInv'
<1>0. ThreadsOK /\ FlagsOK /\ RestOK /\ TypeOK /\ OpensLeft
  BY TypeParts DEF TypeInv
<1> USE DispatchIsThread, BoundsAssumption
<1>1. CASE RunPoll
  <2>1. "poll" \in Places /\ Go(Dispatch, "poll")
    BY <1>1 DEF RunPoll, Places
  <2>2. ThreadsOK'
    BY <1>0, <1>1, <2>1, GoTypes DEF RunPoll, ThreadsOK
  <2>3. FlagsOK'
    BY <1>0, <1>1, Zenon DEF RunPoll, FlagsOK, modem
  <2>4. RestOK' /\ OpensLeft'
    BY <1>0, <1>1 DEF RunPoll, RestOK, OpensLeft, main, modem
  <2>5. QED BY <2>2, <2>3, <2>4, TypePartsNext
<1>2. CASE InitializeCallback
  <2>1. ThreadsOK'
    BY <1>0, <1>2, CallTypes DEF InitializeCallback, States
  <2>2. FlagsOK'
    BY <1>0, <1>2, Zenon DEF InitializeCallback, FlagsOK, modem
  <2>3. RestOK' /\ OpensLeft'
    BY <1>0, <1>2 DEF InitializeCallback, RestOK, OpensLeft, main, modem
  <2>4. QED BY <2>1, <2>2, <2>3, TypePartsNext
\* The steps that either return or go on to setRadioState.
<1>3. ASSUME \/ \E state \in States : Call(Dispatch, state, "idle")
             \/ Go(Dispatch, "idle") /\ UNCHANGED <<target, old, then>>
      PROVE  ThreadsOK'
  <2>1. "idle" \in Places
    BY DEF Places
  <2>2. QED BY <1>0, <1>3, <2>1, CallTypes, GoTypes DEF ThreadsOK
<1>4. CASE ConfigureModem
  <2>1. ThreadsOK'
    BY <1>3, <1>4 DEF ConfigureModem, States
  <2>2. FlagsOK'
    BY <1>0, <1>4, Zenon DEF ConfigureModem, FlagsOK, modem
  <2>3. RestOK' /\ OpensLeft'
    BY <1>0, <1>4 DEF ConfigureModem, RestOK, OpensLeft, main, callbacks, modem
  <2>4. QED BY <2>1, <2>2, <2>3, TypePartsNext
<1>5. CASE RequestPowerOff \/ RequestPowerOn
  <2>1. ThreadsOK'
    BY <1>3, <1>5 DEF RequestPowerOff, RequestPowerOn, States
  <2>2. cfun' \in BOOLEAN
    BY <1>0, <1>5 DEF RequestPowerOff, RequestPowerOn, FlagsOK
  <2>3. FlagsOK'
    BY <1>0, <1>5, <2>2, Zenon DEF RequestPowerOff, RequestPowerOn, FlagsOK
  <2>4. RestOK' /\ OpensLeft'
    BY <1>0, <1>5 DEF RequestPowerOff, RequestPowerOn, RestOK, OpensLeft, main, callbacks
  <2>5. QED BY <2>1, <2>3, <2>4, TypePartsNext
<1>6. CASE RequestEnterSimPin
  <2>1. ThreadsOK'
    BY <1>3, <1>6 DEF RequestEnterSimPin
  <2>2. FlagsOK'
    BY <1>0, <1>6, Zenon DEF RequestEnterSimPin, FlagsOK
  <2>3. RestOK' /\ OpensLeft'
    BY <1>0, <1>6, SimAssumption DEF RequestEnterSimPin, RestOK, OpensLeft, main, callbacks
  <2>4. QED BY <2>1, <2>2, <2>3, TypePartsNext
<1>7. CASE GetSIMStatus \/ OtherRequest
  <2>1. ThreadsOK'
    BY <1>3, <1>7 DEF GetSIMStatus, OtherRequest
  <2>2. FlagsOK'
    BY <1>0, <1>7, Zenon DEF GetSIMStatus, OtherRequest, FlagsOK, modem
  <2>3. RestOK' /\ OpensLeft'
    BY <1>0, <1>7 DEF GetSIMStatus, OtherRequest, RestOK, OpensLeft, main, callbacks, modem
  <2>4. QED BY <2>1, <2>2, <2>3, TypePartsNext
<1>8. CASE Request
  <2>1. PICK kind \in {"powerOn", "powerOff", "enterPin", "simStatus", "other"} : OnRequest(kind)
    BY <1>8 DEF Request
  <2>2. \E to \in Places : Go(Dispatch, to)
    BY <2>1 DEF OnRequest, Places
  <2>3. ThreadsOK'
    BY <1>0, <2>1, <2>2, GoTypes DEF OnRequest, ThreadsOK
  <2>4. FlagsOK'
    BY <1>0, <2>1, Zenon DEF OnRequest, FlagsOK, modem
  <2>5. RestOK' /\ OpensLeft'
    BY <1>0, <2>1 DEF OnRequest, RestOK, OpensLeft, main, callbacks, modem
  <2>6. QED BY <2>3, <2>4, <2>5, TypePartsNext
<1>9. QED BY <1>1, <1>2, <1>4, <1>5, <1>6, <1>7, <1>8, Zenon DEF Serve

\* The main thread, the readers and the modem.
LEMMA OtherTypes ==
  ASSUME TypeInv,
         \/ Main \/ ModemHangsUp
         \/ \E n \in Readers : AtClose(n) \/ OnATReaderClosed(n)
         \/ \E status \in SimStates : SimBecomes(status)
  PROVE  TypeInv'
<1>0. ThreadsOK /\ FlagsOK /\ RestOK /\ TypeOK /\ OpensLeft
  BY TypeParts DEF TypeInv
<1> USE BoundsAssumption
<1>1. CASE ClearClosed \/ RequestInitialize \/ WaitForClose
  <2>1. ThreadsOK'
    BY <1>0, <1>1 DEF ClearClosed, RequestInitialize, WaitForClose, ThreadsOK, threads
  <2>2. FlagsOK'
    <3>1. overtaken' \in BOOLEAN
      BY <1>0, <1>1 DEF ClearClosed, RequestInitialize, WaitForClose, FlagsOK
    <3>2. QED BY <1>0, <1>1, <3>1, Zenon DEF ClearClosed, RequestInitialize, WaitForClose, FlagsOK, modem
  <2>3. RestOK' /\ OpensLeft'
    BY <1>0, <1>1 DEF ClearClosed, RequestInitialize, WaitForClose, RestOK, OpensLeft, callbacks, modem
  <2>4. QED BY <2>1, <2>2, <2>3, TypePartsNext
<1>2. CASE AtOpen
  <2>1. opens + 1 \in Readers /\ opens + 1 \in Threads /\ "reading" \in Places
    BY <1>0, <1>2 DEF AtOpen, OpensLeft, RestOK, Readers, Threads, Places
  <2>2. ThreadsOK'
    BY <1>0, <1>2, <2>1, GoTypes DEF AtOpen, ThreadsOK
  <2>3. FlagsOK'
    BY <1>0, <1>2, Zenon DEF AtOpen, FlagsOK
  <2>4. RestOK' /\ OpensLeft'
    BY <1>0, <1>2 DEF AtOpen, RestOK, OpensLeft, callbacks
  <2>5. QED BY <2>2, <2>3, <2>4, TypePartsNext
<1>3. ASSUME NEW n \in Readers, AtClose(n) PROVE TypeInv'
  <2>1. "closed" \in Places /\ n \in Threads
    BY ReaderIsThread DEF Places
  <2>2. ThreadsOK'
    BY <1>0, <1>3, <2>1, GoTypes DEF AtClose, ThreadsOK
  <2>3. FlagsOK'
    BY <1>0, <1>3, Zenon DEF AtClose, FlagsOK, modem
  <2>4. RestOK' /\ OpensLeft'
    BY <1>0, <1>3 DEF AtClose, RestOK, OpensLeft, main, callbacks, modem
  <2>5. QED BY <2>2, <2>3, <2>4, TypePartsNext
<1>4. ASSUME NEW n \in Readers, OnATReaderClosed(n) PROVE TypeInv'
  <2>1. ThreadsOK'
    BY <1>0, <1>4, ReaderIsThread, CallTypes DEF OnATReaderClosed, States
  <2>2. FlagsOK'
    BY <1>0, <1>4, Zenon DEF OnATReaderClosed, FlagsOK, modem
  <2>3. RestOK' /\ OpensLeft'
    BY <1>0, <1>4 DEF OnATReaderClosed, RestOK, OpensLeft, main, callbacks, modem
  <2>4. QED BY <2>1, <2>2, <2>3, TypePartsNext
<1>5. CASE ModemHangsUp \/ \E status \in SimStates : SimBecomes(status)
  <2>1. ThreadsOK'
    BY <1>0, <1>5 DEF ModemHangsUp, SimBecomes, ThreadsOK, threads
  <2>2. FlagsOK'
    BY <1>0, <1>5, Zenon DEF ModemHangsUp, SimBecomes, FlagsOK
  <2>3. RestOK' /\ OpensLeft'
    BY <1>0, <1>5 DEF ModemHangsUp, SimBecomes, RestOK, OpensLeft, main, callbacks
  <2>4. QED BY <2>1, <2>2, <2>3, TypePartsNext
<1>6. QED BY <1>1, <1>2, <1>3, <1>4, <1>5, Zenon DEF Main

LEMMA NextTypeInv == TypeInv /\ [Next]_vars => TypeInv'
<1> SUFFICES ASSUME TypeInv, [Next]_vars PROVE TypeInv'
  OBVIOUS
<1>1. ASSUME UNCHANGED vars PROVE TypeInv'
  BY <1>1, Zenon DEF vars, main, callbacks, threads, modem, TypeInv, TypeOK, OpensLeft
<1>2. QED BY <1>1, StateChangeTypes, DispatchTypes, OtherTypes, Zenon DEF Next

\* The variables keep their types: sState is one of the five states, and no thread is
\* anywhere but in setRadioState, its callbacks, a request or the reader loop.
THEOREM TypeCorrect == Spec => []TypeOK
<1>1. TypeInv => TypeOK
  BY DEF TypeInv
<1>2. QED BY <1>1, InitTypeInv, NextTypeInv, PTL DEF Spec

-----------------------------------------------------------------------------
(* What the steps of one thread leave alone.                               *)

LEMMA StateChangeStep ==
  ASSUME TypeInv, NEW t \in Threads, StateChange(t)
  PROVE  /\ pc[t] \in {"set", "changed", "announced", "simready", "poll", "status"}
         /\ then'[t] = then[t]
         /\ \A u \in Threads : u # t => pc'[u] = pc[u] /\ then'[u] = then[u]
         /\ UNCHANGED <<s_closed, opens, overtaken>>
         /\ mpc' = mpc \/ (mpc = "asleep" /\ mpc' = "check")
         /\ \/ pc[t] = "set" /\ pc'[t] = "changed" /\ sState' = NewState(t)
            \/ pc[t] # "set" /\ sState' = sState
<1>0. ThreadsOK
  BY TypeParts DEF TypeInv
<1>1. CASE SetRadioState(t)
  BY <1>0, <1>1, BroadcastTypes DEF SetRadioState, ThreadsOK, Go
<1>2. CASE AnnounceChange(t) \/ FollowUp(t) \/ PollSIMState(t) \/ OnSIMReady(t)
  <2>1. /\ pc[t] \in {"changed", "announced", "simready", "poll"}
        /\ \E to : Go(t, to)
    BY <1>2 DEF AnnounceChange, FollowUp, PollSIMState, OnSIMReady
  <2>2. UNCHANGED <<sState, s_closed, mpc, opens, then, overtaken>>
    BY <1>2, Zenon DEF AnnounceChange, FollowUp, PollSIMState, OnSIMReady, main
  <2>3. QED BY <1>0, <2>1, <2>2 DEF ThreadsOK, Go
<1>3. CASE PollAnswered(t)
  <2>1. \/ Go(t, then[t]) /\ UNCHANGED then
        \/ \E state : Call(t, state, then[t])
    BY <1>3, Zenon DEF PollAnswered
  <2>2. pc[t] = "status" /\ UNCHANGED <<sState, s_closed, mpc, opens, overtaken>>
    BY <1>3, Zenon DEF PollAnswered, main
  <2>3. QED BY <1>0, <2>1, <2>2 DEF ThreadsOK, Go, Call
<1>4. QED BY <1>1, <1>2, <1>3, Zenon DEF StateChange

LEMMA DispatchStep ==
  ASSUME TypeInv, Serve \/ Request
  PROVE  /\ \A n \in Readers : pc'[n] = pc[n] /\ then'[n] = then[n]
         /\ UNCHANGED <<sState, s_closed, mpc, opens, overtaken>>
<1>0. ThreadsOK
  BY TypeParts DEF TypeInv
<1>1. \/ \E to : Go(Dispatch, to) /\ (UNCHANGED then \/ then' = [then EXCEPT ![Dispatch] = "idle"])
      \/ \E state, next : Call(Dispatch, state, next)
  <2>1. CASE Serve
    BY <2>1, Zenon DEF Serve, RunPoll, InitializeCallback, ConfigureModem, RequestPowerOff,
         RequestPowerOn, RequestEnterSimPin, GetSIMStatus, OtherRequest
  <2>2. CASE Request
    BY <2>2, Zenon DEF Request, OnRequest
  <2>3. QED BY <2>1, <2>2
<1>2. \A n \in Readers : pc'[n] = pc[n] /\ then'[n] = then[n]
  BY <1>0, <1>1, ReaderIsThread DEF ThreadsOK, Go, Call
<1>3. UNCHANGED <<sState, s_closed, mpc, opens, overtaken>>
  BY Zenon DEF Serve, RunPoll, InitializeCallback, ConfigureModem, RequestPowerOff, RequestPowerOn,
     RequestEnterSimPin, GetSIMStatus, OtherRequest, Request, OnRequest, main
<1>4. QED BY <1>2, <1>3

\* at_open starts the reader of the next channel.
LEMMA AtOpenStep ==
  ASSUME TypeInv, AtOpen
  PROVE  /\ opens + 1 \in Readers /\ opens \in Nat
         /\ pc'[opens + 1] = "reading"
         /\ \A n \in Readers : n # opens + 1 => pc'[n] = pc[n]
<1>1. ThreadsOK /\ RestOK /\ OpensLeft
  BY TypeParts DEF TypeInv
<1>2. opens + 1 \in Readers /\ opens \in Nat
  BY <1>1, BoundsAssumption DEF AtOpen, RestOK, OpensLeft, Readers
<1>3. QED BY <1>1, <1>2, ReaderIsThread DEF AtOpen, Go, ThreadsOK

\* Only the clearing of s_closed begins an opening.
LEMMA OvertakenKept == ASSUME TypeInv, [Next]_vars, ~ClearClosed PROVE UNCHANGED overtaken
<1>1. CASE \E t \in Threads : StateChange(t)
  BY <1>1, StateChangeStep
<1>2. CASE Serve \/ Request
  BY <1>2, DispatchStep
<1>3. CASE AtOpen \/ RequestInitialize \/ WaitForClose
  BY <1>3, Zenon DEF AtOpen, RequestInitialize, WaitForClose
<1>4. CASE \E n \in Readers : AtClose(n) \/ OnATReaderClosed(n)
  BY <1>4, Zenon DEF AtClose, OnATReaderClosed
<1>5. CASE ModemHangsUp \/ (\E status \in SimStates : SimBecomes(status)) \/ UNCHANGED vars
  BY <1>5, Zenon DEF ModemHangsUp, SimBecomes, vars
<1>6. QED BY <1>1, <1>2, <1>3, <1>4, <1>5, Zenon DEF Next, Main

-----------------------------------------------------------------------------
(* UnavailableWhenClosed.                                                  *)

\* at_open starts a thread of its own.
UnopenedIdle == \A n \in Readers : n > opens => pc[n] = "idle"

ClosedInv == UnavailableWhenClosed /\ UnopenedIdle

LEMMA InitClosedInv == Init => ClosedInv
BY DEF Init, ClosedInv, UnavailableWhenClosed, UnopenedIdle, Readers, Threads

LEMMA NextClosedInv == TypeInv /\ ClosedInv /\ [Next]_vars => ClosedInv'
<1> SUFFICES ASSUME TypeInv, ClosedInv, [Next]_vars PROVE ClosedInv'
  OBVIOUS
<1>0. s_closed \in BOOLEAN /\ opens \in Nat /\ ThreadsOK
  BY TypeParts DEF TypeInv, FlagsOK, RestOK
\* A step that neither closes nor opens and leaves sState alone, unless the reader is still
\* on its way to setRadioState.
<1>1. ASSUME UNCHANGED <<sState, opens>>, s_closed' => s_closed,
             \A n \in Readers : pc'[n] = pc[n] \/ (pc[n] # "idle" /\ pc[n] # "set")
      PROVE  ClosedInv'
  BY <1>1 DEF ClosedInv, UnavailableWhenClosed, UnopenedIdle
<1>2. ASSUME NEW t \in Threads, StateChange(t) PROVE ClosedInv'
  <2>1. CASE pc[t] = "set"
    <3>1. UNCHANGED <<s_closed, opens>> /\ sState' = NewState(t)
      BY <1>2, <2>1, StateChangeStep
    <3>2. \A n \in Readers : pc'[n] = pc[n] \/ pc[n] # "idle"
      BY <1>2, <2>1, StateChangeStep, ReaderIsThread
    <3>3. s_closed => sState' = "UNAVAILABLE"
      BY <3>1 DEF NewState
    <3>4. QED BY <3>1, <3>2, <3>3 DEF ClosedInv, UnavailableWhenClosed, UnopenedIdle
  <2>2. CASE pc[t] # "set"
    <3>1. UNCHANGED <<sState, s_closed, opens>>
      BY <1>2, <2>2, StateChangeStep
    <3>2. \A n \in Readers : pc'[n] = pc[n] \/ (pc[n] # "idle" /\ pc[n] # "set")
      BY <1>2, <2>2, StateChangeStep, ReaderIsThread
    <3>3. QED BY <1>1, <3>1, <3>2
  <2>3. QED BY <2>1, <2>2
<1>3. CASE Serve \/ Request
  BY <1>1, <1>3, DispatchStep
<1>4. CASE Main
  <2>1. CASE ClearClosed \/ RequestInitialize \/ WaitForClose
    <3>1. UNCHANGED <<sState, opens, pc>>
      BY <2>1, Zenon DEF ClearClosed, RequestInitialize, WaitForClose, threads
    <3>2. s_closed' => s_closed
      BY <2>1, Zenon DEF ClearClosed, RequestInitialize, WaitForClose
    <3>3. QED BY <1>1, <3>1, <3>2
  <2>2. CASE AtOpen
    <3>1. UNCHANGED <<sState, s_closed>> /\ opens' = opens + 1
      BY <2>2, Zenon DEF AtOpen
    <3>2. /\ opens + 1 \in Readers /\ pc[opens + 1] = "idle" /\ pc'[opens + 1] = "reading"
          /\ \A n \in Readers : n # opens + 1 => pc'[n] = pc[n]
      BY <1>0, <2>2, AtOpenStep DEF ClosedInv, UnopenedIdle
    <3>3. UnopenedIdle'
      BY <1>0, <3>1, <3>2 DEF ClosedInv, UnopenedIdle, Readers
    <3>4. (\A n \in Readers : pc'[n] # "set") => \A n \in Readers : pc[n] # "set"
      BY <3>2
    <3>5. UnavailableWhenClosed'
      BY <3>1, <3>4 DEF ClosedInv, UnavailableWhenClosed
    <3>6. QED BY <3>3, <3>5 DEF ClosedInv
  <2>3. QED BY <1>4, <2>1, <2>2 DEF Main
<1>5. ASSUME NEW n \in Readers, AtClose(n) PROVE ClosedInv'
  <2>1. UNCHANGED <<sState, s_closed, opens>> /\ pc[n] = "reading"
    BY <1>5, Zenon DEF AtClose, main
  <2>2. \A k \in Readers : pc'[k] = pc[k] \/ k = n
    BY <1>0, <1>5, ReaderIsThread DEF AtClose, Go, ThreadsOK
  <2>3. QED BY <1>1, <2>1, <2>2
<1>6. ASSUME NEW n \in Readers, OnATReaderClosed(n) PROVE ClosedInv'
  <2>1. UNCHANGED opens /\ pc[n] = "closed"
    BY <1>6, Zenon DEF OnATReaderClosed, main
  <2>2. pc'[n] = "set" /\ \A k \in Readers : k # n => pc'[k] = pc[k]
    BY <1>0, <1>6, ReaderIsThread DEF OnATReaderClosed, Call, Go, ThreadsOK
  <2>3. QED BY <2>1, <2>2 DEF ClosedInv, UnavailableWhenClosed, UnopenedIdle
<1>7. CASE ModemHangsUp \/ \E status \in SimStates : SimBecomes(status)
  <2>1. UNCHANGED <<sState, s_closed, opens, pc>>
    BY <1>7, Zenon DEF ModemHangsUp, SimBecomes, main, threads
  <2>2. QED BY <1>1, <2>1
<1>8. CASE UNCHANGED vars
  <2>1. UNCHANGED <<sState, s_closed, opens, pc>>
    BY <1>8, Zenon DEF vars, main, threads
  <2>2. QED BY <1>1, <2>1
<1>9. QED BY <1>2, <1>3, <1>4, <1>5, <1>6, <1>7, <1>8, Zenon DEF Next

\* Whatever the dispatch thread was doing when the reader reported the close, the radio
\* state is UNAVAILABLE until the channel is opened again (setRadioState), however late the
\* readers of earlier channels return.
THEOREM ClosedIsUnavailable == Spec => []UnavailableWhenClosed
<1>1. ClosedInv => UnavailableWhenClosed
  BY DEF ClosedInv
<1>2. QED BY <1>1, InitTypeInv, NextTypeInv, InitClosedInv, NextClosedInv, PTL DEF Spec

-----------------------------------------------------------------------------
(* CloseIsNoticed.                                                         *)

\* The two ways in which a close may be on its way to the main thread.
ToReport == \E n \in Readers : pc[n] = "closed"
Reported == s_closed /\ (mpc = "asleep" => \E n \in Readers : pc[n] = "set")

LEMMA NoticedMeans ==
  CloseIsNoticed <=>
    (mpc \in {"opened", "check", "asleep"} /\ channel = 0 => ToReport \/ Reported)
BY DEF CloseIsNoticed, ToReport, Reported

\* A step that takes no reader out of its report, sends nobody to sleep, closes nothing and
\* forgets no close.
LEMMA NoticeKept ==
  ASSUME CloseIsNoticed, channel' = 0 => channel = 0, s_closed' = s_closed,
         \A n \in Readers : pc[n] \in {"closed", "set"} => pc'[n] = pc[n],
         mpc' = mpc \/ (mpc' = "check" /\ mpc = "asleep")
  PROVE  CloseIsNoticed'
<1>1. ToReport => ToReport'
  BY DEF ToReport
<1>2. Reported => Reported'
  BY DEF Reported
<1>3. QED BY <1>1, <1>2, NoticedMeans DEF CloseIsNoticed, ToReport, Reported

LEMMA StateChangeNoticed ==
  ASSUME TypeInv, CloseIsNoticed, NEW t \in Threads, StateChange(t)
  PROVE  CloseIsNoticed'
<1>1. UNCHANGED channel /\ UNCHANGED s_closed
  BY Zenon DEF StateChange, SetRadioState, AnnounceChange, FollowUp, OnSIMReady, PollSIMState,
     PollAnswered
<1>2. /\ pc[t] \in {"set", "changed", "announced", "simready", "poll", "status"}
      /\ \A n \in Readers : n # t => pc'[n] = pc[n]
      /\ mpc' = mpc \/ (mpc = "asleep" /\ mpc' = "check")
  BY StateChangeStep, ReaderIsThread
\* The broadcast of setRadioState: a close that was reported wakes the main thread, whether
\* the state changes or not.
<1>3. CASE SetRadioState(t)
  <2>1. s_closed => mpc' # "asleep"
    BY <1>3 DEF SetRadioState, BroadcastState, Broadcast
  <2>2. ToReport => ToReport'
    BY <1>2 DEF ToReport
  <2>3. Reported => Reported'
    BY <1>1, <2>1 DEF Reported
  <2>4. QED BY <1>1, <1>2, <2>2, <2>3, NoticedMeans DEF CloseIsNoticed, ToReport, Reported
<1>4. CASE pc[t] # "set"
  <2>1. \A n \in Readers : pc[n] \in {"closed", "set"} => pc'[n] = pc[n]
    BY <1>2, <1>4
  <2>2. channel' = channel /\ s_closed' = s_closed
    BY <1>1
  <2>3. mpc' = mpc \/ (mpc' = "check" /\ mpc = "asleep")
    BY <1>2
  <2>4. QED BY <2>1, <2>2, <2>3, NoticeKept
<1>5. \/ SetRadioState(t) \/ pc[t] = "changed" \/ pc[t] = "announced"
      \/ pc[t] = "simready" \/ pc[t] = "poll" \/ pc[t] = "status"
  BY Zenon DEF StateChange, AnnounceChange, FollowUp, OnSIMReady, PollSIMState, PollAnswered
<1>6. QED BY <1>3, <1>4, <1>5

LEMMA InitNoticed == Init => CloseIsNoticed
BY DEF Init, CloseIsNoticed

LEMMA NextNoticed == TypeInv /\ CloseIsNoticed /\ [Next]_vars => CloseIsNoticed'
<1> SUFFICES ASSUME TypeInv, CloseIsNoticed, [Next]_vars PROVE CloseIsNoticed'
  OBVIOUS
<1>0. ThreadsOK /\ opens \in Nat
  BY TypeParts DEF TypeInv, RestOK
\* A step of some other part of the program.
<1>1. ASSUME UNCHANGED <<s_closed, mpc, channel>>, \A n \in Readers : pc'[n] = pc[n]
      PROVE  CloseIsNoticed'
  BY <1>1 DEF CloseIsNoticed
<1>2. CASE Serve \/ Request
  <2>1. UNCHANGED channel
    BY <1>2, Zenon DEF Serve, RunPoll, InitializeCallback, ConfigureModem, RequestPowerOff,
       RequestPowerOn, RequestEnterSimPin, GetSIMStatus, OtherRequest, Request, OnRequest
  <2>2. QED BY <1>1, <1>2, <2>1, DispatchStep
<1>3. CASE ClearClosed
  BY <1>3 DEF ClearClosed, CloseIsNoticed
<1>4. CASE AtOpen
  BY <1>0, <1>4 DEF AtOpen, CloseIsNoticed
<1>5. CASE RequestInitialize
  <2>1. mpc = "opened" /\ mpc' = "check" /\ UNCHANGED <<s_closed, channel, pc>>
    BY <1>5, Zenon DEF RequestInitialize, threads
  <2>2. QED BY <2>1 DEF CloseIsNoticed
\* The main thread goes to sleep only while the flag is clear: some reader is still to set it.
<1>6. CASE WaitForClose
  <2>1. mpc = "check" /\ UNCHANGED <<s_closed, channel, pc>>
    BY <1>6, Zenon DEF WaitForClose, threads
  <2>2. mpc' = "open" \/ ~s_closed
    BY <1>6 DEF WaitForClose
  <2>3. QED BY <2>1, <2>2 DEF CloseIsNoticed, WaitForClose
<1>7. ASSUME NEW n \in Readers, AtClose(n) PROVE CloseIsNoticed'
  <2>1. pc'[n] = "closed"
    BY <1>0, <1>7, ReaderIsThread DEF AtClose, Go, ThreadsOK
  <2>2. QED BY <2>1 DEF CloseIsNoticed
<1>8. ASSUME NEW n \in Readers, OnATReaderClosed(n) PROVE CloseIsNoticed'
  <2>1. pc'[n] = "set" /\ s_closed'
    BY <1>0, <1>8, ReaderIsThread DEF OnATReaderClosed, Call, Go, ThreadsOK
  <2>2. QED BY <2>1 DEF CloseIsNoticed
<1>9. CASE ModemHangsUp \/ (\E status \in SimStates : SimBecomes(status)) \/ UNCHANGED vars
  <2>1. UNCHANGED <<s_closed, mpc, channel, pc>>
    BY <1>9, Zenon DEF ModemHangsUp, SimBecomes, vars, main, threads
  <2>2. QED BY <1>1, <2>1
<1>10. QED
  BY <1>2, <1>3, <1>4, <1>5, <1>6, <1>7, <1>8, <1>9, StateChangeNoticed, Zenon DEF Next, Main

\* No close of the channel is overlooked, however the steps of the reader, of the main thread
\* and of the dispatch thread fall: the flag is tested under the mutex that the broadcast is
\* made under, and a close is broadcast also when the state does not change
\* (onATReaderClosed, setRadioState, waitForClose).
THEOREM ClosesAreNoticed == Spec => []CloseIsNoticed
BY InitTypeInv, NextTypeInv, InitNoticed, NextNoticed, PTL DEF Spec
-----------------------------------------------------------------------------
(* NotOnReader.                                                            *)

Reads(n) == pc[n] \in {"reading", "closed"}
Returning == {"set", "changed", "announced"}

\* The readers that have yet to report the end of their channel: there is one at most, and
\* nobody opens a channel beside it.
LiveReaders ==
  /\ \A n \in Readers : then[n] = "idle"
  /\ \A n \in Readers : Reads(n) => ~s_closed /\ mpc \in {"opened", "check", "asleep"}
  /\ \A n, k \in Readers : n # k => ~Reads(n) \/ ~Reads(k)
  /\ mpc = "opening" => ~s_closed

\* What an opening that overtook no reader adds: one reader at a time is alive, and it goes
\* through onATReaderClosed while nobody opens the channel again.
OneReader == \A n, k \in Readers : n # k => pc[n] = "idle" \/ pc[k] = "idle"

ReaderPlaces ==
  \A n \in Readers :
    /\ pc[n] \in {"idle", "reading", "closed"} \cup Returning
    /\ pc[n] \in Returning => s_closed
    /\ pc[n] \in {"changed", "announced"} => sState = "UNAVAILABLE"

NobodyWhileOpening == mpc = "opening" => \A n \in Readers : pc[n] = "idle"

Undisturbed == OneReader /\ ReaderPlaces /\ NobodyWhileOpening

ReadersInv == LiveReaders /\ (~overtaken => Undisturbed)

LEMMA InitReadersInv == Init => ReadersInv
<1>1. Init => /\ \A n \in Readers : pc[n] = "idle" /\ then[n] = "idle"
              /\ mpc = "open"
  BY DEF Init, Threads
<1>2. QED
  BY <1>1 DEF ReadersInv, LiveReaders, Reads, Undisturbed, OneReader, ReaderPlaces,
              NobodyWhileOpening, Returning

LEMMA NextLiveReaders == TypeInv /\ LiveReaders /\ [Next]_vars => LiveReaders'
<1> SUFFICES ASSUME TypeInv, LiveReaders, [Next]_vars PROVE LiveReaders'
  OBVIOUS
<1>0. s_closed \in BOOLEAN /\ opens \in Nat /\ ThreadsOK
  BY TypeParts DEF TypeInv, FlagsOK, RestOK
<1> USE DEF LiveReaders, Reads
\* A step after which no reader is at its loop or its end that was not there before.
<1>1. ASSUME \A n \in Readers : Reads(n)' => Reads(n), \A n \in Readers : then'[n] = then[n],
             UNCHANGED s_closed,
             \/ UNCHANGED mpc
             \/ mpc = "asleep" /\ mpc' = "check"
             \/ mpc = "opened" /\ mpc' = "check"
             \/ mpc = "check" /\ mpc' = IF s_closed THEN "open" ELSE "asleep"
      PROVE  LiveReaders'
  BY <1>1
<1>2. ASSUME NEW t \in Threads, StateChange(t) PROVE LiveReaders'
  <2>1. \A n \in Readers : then'[n] = then[n] /\ (pc'[n] = pc[n] \/ n = t)
    BY <1>2, StateChangeStep, ReaderIsThread
  <2>2. pc'[t] \notin {"reading", "closed"}
    <3>1. pc'[t] \in {"changed", "announced", "simready", "poll", "status", "set", then[t]}
      BY <1>0, <1>2 DEF StateChange, SetRadioState, AnnounceChange, FollowUp, OnSIMReady,
         PollSIMState, PollAnswered, Call, Go, ThreadsOK
    <3>2. QED BY <1>0, <3>1 DEF ThreadsOK
  <2>3. \A n \in Readers : Reads(n)' => Reads(n)
    BY <2>1, <2>2
  <2>4. UNCHANGED s_closed /\ (mpc' = mpc \/ (mpc = "asleep" /\ mpc' = "check"))
    BY <1>2, StateChangeStep
  <2>5. QED BY <1>1, <2>1, <2>3, <2>4
<1>3. CASE Serve \/ Request
  BY <1>1, <1>3, DispatchStep
<1>4. CASE ClearClosed
  <2>1. mpc = "open" /\ mpc' = "opening" /\ s_closed' = FALSE /\ UNCHANGED <<pc, then>>
    BY <1>4, Zenon DEF ClearClosed, threads
  <2>2. QED BY <2>1
<1>5. CASE AtOpen
  <2>1. /\ opens + 1 \in Readers
        /\ pc'[opens + 1] = "reading"
        /\ \A n \in Readers : n # opens + 1 => pc'[n] = pc[n]
    BY <1>5, AtOpenStep
  <2>2. mpc = "opening" /\ mpc' = "opened" /\ UNCHANGED <<s_closed, then>>
    BY <1>5, Zenon DEF AtOpen
  <2>3. \A n \in Readers : ~Reads(n)
    BY <2>2
  <2>4. QED BY <2>1, <2>2, <2>3
<1>6. CASE RequestInitialize \/ WaitForClose
  <2>1. UNCHANGED <<s_closed, pc, then>>
    BY <1>6, Zenon DEF RequestInitialize, WaitForClose, threads
  <2>2. \/ mpc = "opened" /\ mpc' = "check"
        \/ mpc = "check" /\ mpc' = IF s_closed THEN "open" ELSE "asleep"
    BY <1>6, Zenon DEF RequestInitialize, WaitForClose
  <2>3. QED BY <1>1, <2>1, <2>2
<1>7. ASSUME NEW n \in Readers, AtClose(n) PROVE LiveReaders'
  <2>1. pc[n] = "reading" /\ UNCHANGED <<s_closed, mpc, then>>
    BY <1>7, Zenon DEF AtClose, main
  <2>2. pc'[n] = "closed" /\ \A k \in Readers : k # n => pc'[k] = pc[k]
    BY <1>0, <1>7, ReaderIsThread DEF AtClose, Go, ThreadsOK
  <2>3. QED BY <1>1, <2>1, <2>2
<1>8. ASSUME NEW n \in Readers, OnATReaderClosed(n) PROVE LiveReaders'
  <2>1. pc[n] = "closed" /\ s_closed' = TRUE /\ UNCHANGED mpc
    BY <1>8, Zenon DEF OnATReaderClosed, main
  <2>2. /\ pc'[n] = "set" /\ then'[n] = "idle"
        /\ \A k \in Readers : k # n => pc'[k] = pc[k] /\ then'[k] = then[k]
    BY <1>0, <1>8, ReaderIsThread DEF OnATReaderClosed, Call, Go, ThreadsOK
  <2>3. \A k \in Readers : ~Reads(k)'
    BY <2>1, <2>2
  <2>4. mpc \in {"opened", "check", "asleep"}
    BY <2>1
  <2>5. QED BY <2>1, <2>2, <2>3, <2>4
<1>9. CASE ModemHangsUp \/ (\E status \in SimStates : SimBecomes(status)) \/ UNCHANGED vars
  <2>1. UNCHANGED <<s_closed, mpc, pc, then>>
    BY <1>9, Zenon DEF ModemHangsUp, SimBecomes, vars, main, threads
  <2>2. QED BY <1>1, <2>1
<1>10. QED BY <1>2, <1>3, <1>4, <1>5, <1>6, <1>7, <1>8, <1>9, Zenon DEF Next, Main

\* A reader goes through setRadioState and back to its end: the state it finds there calls
\* for nothing.
LEMMA ReaderReturns ==
  ASSUME TypeInv, LiveReaders, Undisturbed, NEW n \in Readers, StateChange(n)
  PROVE  /\ pc[n] \in Returning /\ s_closed
         /\ pc'[n] \in {"changed", "announced", "idle"}
         /\ pc'[n] # "idle" => sState' = "UNAVAILABLE"
<1>0. ThreadsOK /\ n \in Threads
  BY TypeParts, ReaderIsThread DEF TypeInv
<1>1. pc[n] \in Returning /\ then[n] = "idle"
  BY <1>0, StateChangeStep DEF LiveReaders, Undisturbed, ReaderPlaces, Returning
<1>2. s_closed
  BY <1>1 DEF Undisturbed, ReaderPlaces
<1>3. pc[n] \in {"changed", "announced"} => sState = "UNAVAILABLE"
  BY DEF Undisturbed, ReaderPlaces
<1>4. CASE pc[n] = "set"
  BY <1>0, <1>1, <1>2, <1>4, StateChangeStep DEF NewState
<1>5. CASE pc[n] = "changed"
  <2>1. AnnounceChange(n)
    BY <1>5 DEF StateChange, SetRadioState, FollowUp, OnSIMReady, PollSIMState, PollAnswered
  <2>2. pc'[n] \in {"announced", "idle"} /\ sState' = sState
    BY <1>0, <1>1, <2>1 DEF AnnounceChange, Go, ThreadsOK
  <2>3. QED BY <1>1, <1>2, <1>3, <1>5, <2>2
<1>6. CASE pc[n] = "announced"
  <2>1. FollowUp(n)
    BY <1>6 DEF StateChange, SetRadioState, AnnounceChange, OnSIMReady, PollSIMState, PollAnswered
  <2>2. Go(n, then[n])
    BY <1>3, <1>6, <2>1 DEF FollowUp
  <2>3. pc'[n] = "idle"
    BY <1>0, <1>1, <2>2 DEF Go, ThreadsOK
  <2>4. QED BY <1>1, <1>2, <2>3
<1>7. QED BY <1>1, <1>4, <1>5, <1>6 DEF Returning

\* Every step but the clearing of s_closed.
LEMMA NextUndisturbed ==
  ASSUME TypeInv, LiveReaders, Undisturbed, [Next]_vars
  PROVE  Undisturbed' \/ ClearClosed
<1>0. s_closed \in BOOLEAN /\ opens \in Nat /\ ThreadsOK
  BY TypeParts DEF TypeInv, FlagsOK, RestOK
<1> USE DEF Undisturbed, OneReader, ReaderPlaces, NobodyWhileOpening, Returning
\* A step that leaves the readers where they are.
<1>1. ASSUME \A n \in Readers : pc'[n] = pc[n] /\ then'[n] = then[n],
             UNCHANGED s_closed,
             \/ UNCHANGED mpc
             \/ mpc = "asleep" /\ mpc' = "check"
             \/ mpc = "opened" /\ mpc' = "check"
             \/ mpc = "check" /\ mpc' = IF s_closed THEN "open" ELSE "asleep",
             sState' = sState \/ (s_closed => sState' = "UNAVAILABLE")
      PROVE  Undisturbed'
  BY <1>1
<1>2. ASSUME StateChange(Dispatch) PROVE Undisturbed'
  <2>1. \A n \in Readers : pc'[n] = pc[n] /\ then'[n] = then[n]
    BY <1>2, StateChangeStep, DispatchIsThread, ReaderIsThread
  <2>2. UNCHANGED s_closed /\ (mpc' = mpc \/ (mpc = "asleep" /\ mpc' = "check"))
    BY <1>2, StateChangeStep, DispatchIsThread
  <2>3. sState' = sState \/ (s_closed => sState' = "UNAVAILABLE")
    BY <1>2, StateChangeStep, DispatchIsThread DEF NewState
  <2>4. QED BY <1>1, <2>1, <2>2, <2>3
<1>3. ASSUME NEW n \in Readers, StateChange(n) PROVE Undisturbed'
  <2>1. /\ pc[n] \in Returning /\ s_closed
        /\ pc'[n] \in {"changed", "announced", "idle"}
        /\ pc'[n] # "idle" => sState' = "UNAVAILABLE"
    BY <1>3, ReaderReturns
  <2>2. /\ \A k \in Readers : k # n => pc'[k] = pc[k]
        /\ \A k \in Readers : then'[k] = then[k]
        /\ UNCHANGED s_closed /\ (mpc' = mpc \/ (mpc = "asleep" /\ mpc' = "check"))
    BY <1>3, StateChangeStep, ReaderIsThread
  <2>3. \A k \in Readers : k # n => pc[k] = "idle"
    BY <2>1
  <2>4. QED BY <2>1, <2>2, <2>3
<1>4. CASE Serve \/ Request
  BY <1>1, <1>4, DispatchStep
<1>5. CASE AtOpen
  <2>1. /\ opens + 1 \in Readers
        /\ pc'[opens + 1] = "reading"
        /\ \A n \in Readers : n # opens + 1 => pc'[n] = pc[n]
    BY <1>5, AtOpenStep
  <2>2. mpc = "opening" /\ mpc' = "opened" /\ UNCHANGED s_closed
    BY <1>5, Zenon DEF AtOpen
  <2>3. \A n \in Readers : pc[n] = "idle"
    BY <2>2
  <2>4. QED BY <2>1, <2>2, <2>3
<1>6. CASE RequestInitialize \/ WaitForClose
  <2>1. UNCHANGED <<s_closed, sState, pc, then>>
    BY <1>6, Zenon DEF RequestInitialize, WaitForClose, threads
  <2>2. \/ mpc = "opened" /\ mpc' = "check"
        \/ mpc = "check" /\ mpc' = IF s_closed THEN "open" ELSE "asleep"
    BY <1>6, Zenon DEF RequestInitialize, WaitForClose
  <2>3. QED BY <1>1, <2>1, <2>2
<1>7. ASSUME NEW n \in Readers, AtClose(n) PROVE Undisturbed'
  <2>1. pc[n] = "reading" /\ UNCHANGED <<s_closed, mpc, then>>
    BY <1>7, Zenon DEF AtClose, main
  <2>2. pc'[n] = "closed" /\ \A k \in Readers : k # n => pc'[k] = pc[k]
    BY <1>0, <1>7, ReaderIsThread DEF AtClose, Go, ThreadsOK
  <2>3. \A k \in Readers : k # n => pc[k] = "idle"
    BY <2>1
  <2>4. QED BY <2>1, <2>2, <2>3
<1>8. ASSUME NEW n \in Readers, OnATReaderClosed(n) PROVE Undisturbed'
  <2>1. pc[n] = "closed" /\ s_closed' = TRUE /\ UNCHANGED mpc
    BY <1>8, Zenon DEF OnATReaderClosed, main
  <2>2. /\ pc'[n] = "set" /\ then'[n] = "idle"
        /\ \A k \in Readers : k # n => pc'[k] = pc[k] /\ then'[k] = then[k]
    BY <1>0, <1>8, ReaderIsThread DEF OnATReaderClosed, Call, Go, ThreadsOK
  <2>3. \A k \in Readers : k # n => pc[k] = "idle"
    BY <2>1
  <2>4. QED BY <2>1, <2>2, <2>3
<1>9. CASE ModemHangsUp \/ \E status \in SimStates : SimBecomes(status)
  <2>1. UNCHANGED <<sState, s_closed, mpc, pc, then>>
    BY <1>9, Zenon DEF ModemHangsUp, SimBecomes, main, threads
  <2>2. QED BY <1>1, <2>1
<1>10. CASE UNCHANGED vars
  <2>1. UNCHANGED <<sState, s_closed, mpc, pc, then>>
    BY <1>10, Zenon DEF vars, main, threads
  <2>2. QED BY <1>1, <2>1
<1>11. ASSUME NEW t \in Threads, StateChange(t) PROVE Undisturbed'
  BY <1>2, <1>3, <1>11 DEF Threads
<1>12. QED BY <1>4, <1>5, <1>6, <1>7, <1>8, <1>9, <1>10, <1>11, Zenon DEF Next, Main

LEMMA NextReadersInv == TypeInv /\ ReadersInv /\ [Next]_vars => ReadersInv'
<1> SUFFICES ASSUME TypeInv, ReadersInv, [Next]_vars, ~overtaken' PROVE Undisturbed'
  BY NextLiveReaders DEF ReadersInv
\* A channel that is opened when every reader is back begins undisturbed, whatever the channel
\* before it went through.
<1>1. CASE ClearClosed
  <2>1. \A n \in Readers : pc[n] \in {"idle", "reading"}
    BY <1>1 DEF ClearClosed, ReadersBack
  <2>2. mpc = "open" /\ UNCHANGED <<pc, sState>>
    BY <1>1, Zenon DEF ClearClosed, threads
  <2>3. \A n \in Readers : pc[n] = "idle"
    BY <2>1, <2>2 DEF ReadersInv, LiveReaders, Reads
  <2>4. QED
    BY <2>2, <2>3 DEF Undisturbed, OneReader, ReaderPlaces, NobodyWhileOpening, Returning
<1>2. CASE ~ClearClosed
  <2>1. UNCHANGED overtaken
    BY <1>2, OvertakenKept
  <2>2. QED BY <1>2, <2>1, NextUndisturbed DEF ReadersInv
<1>3. QED BY <1>1, <1>2

\* Of a channel whose opening overtook no reader: sState, which setRadioState reads a second
\* time without the mutex, never makes a reader thread call onSIMReady or onRadioPowerOn,
\* whatever the dispatch thread does to it in between, and however the readers of the
\* channels before were overtaken (the FIXME of setRadioState).
THEOREM ReaderSendsNothing == Spec => []NotOnReader
<1>1. ReadersInv => NotOnReader
  BY DEF ReadersInv, Undisturbed, ReaderPlaces, Returning, NotOnReader, NeverOnReader, Sending
<1>2. QED BY <1>1, InitTypeInv, NextTypeInv, InitReadersInv, NextReadersInv, PTL DEF Spec

-----------------------------------------------------------------------------
(* SmsSetUp.                                                               *)

\* An overtaken channel is left through a close that was reported; and once a close is on its
\* way to s_closed nothing is open.
ClosedFirst ==
  /\ overtaken /\ mpc = "open" => s_closed
  /\ s_closed => channel = 0
  /\ \A n \in Readers : pc[n] = "closed" => channel = 0

\* initializeCallback asks for OFF, and no reader for SIM_NOT_READY: the dispatch thread comes
\* back from there without a poll of the SIM, whatever a reader does to sState meanwhile.
ConfiguresFromOff ==
  /\ \A n \in Readers : target[n] # "SIM_NOT_READY"
  /\ then[Dispatch] = "configure" =>
       /\ pc[Dispatch] \notin {"poll", "status"}
       /\ pc[Dispatch] = "set" => target[Dispatch] = "OFF"
       /\ pc[Dispatch] \in {"changed", "announced"} => sState # "SIM_NOT_READY"

LateInv == ClosedFirst /\ ConfiguresFromOff

LEMMA InitLate == Init => LateInv
BY DispatchIsThread, ReaderIsThread DEF Init, LateInv, ClosedFirst, ConfiguresFromOff

LEMMA ReaderTargets ==
  ASSUME TypeInv, NEW n \in Readers, StateChange(n), target[n] # "SIM_NOT_READY"
  PROVE  target'[n] # "SIM_NOT_READY"
<1>1. ThreadsOK /\ n \in Threads
  BY TypeParts, ReaderIsThread DEF TypeInv
<1>2. CASE PollAnswered(n)
  BY <1>1, <1>2 DEF PollAnswered, Call, ThreadsOK
<1>3. CASE ~PollAnswered(n)
  <2>1. UNCHANGED target
    BY <1>3, Zenon DEF StateChange, SetRadioState, AnnounceChange, FollowUp, OnSIMReady,
       PollSIMState
  <2>2. QED BY <2>1
<1>4. QED BY <1>2, <1>3

LEMMA StateChangeLate ==
  ASSUME TypeInv, LateInv, NEW t \in Threads, StateChange(t)
  PROVE  LateInv'
<1>0. ThreadsOK /\ Dispatch \in Threads
  BY TypeParts, DispatchIsThread DEF TypeInv
<1>1. UNCHANGED <<s_closed, channel, overtaken>> /\ (mpc' = "open" => mpc = "open")
  <2>1. UNCHANGED channel
    BY Zenon DEF StateChange, SetRadioState, AnnounceChange, FollowUp, OnSIMReady, PollSIMState,
       PollAnswered
  <2>2. QED BY <2>1, StateChangeStep
<1>2. pc'[t] # "closed"
  <2>1. pc'[t] \in {"changed", "announced", "simready", "poll", "status", "set", then[t]}
    BY <1>0 DEF StateChange, SetRadioState, AnnounceChange, FollowUp, OnSIMReady,
       PollSIMState, PollAnswered, Call, Go, ThreadsOK
  <2>2. QED BY <1>0, <2>1 DEF ThreadsOK
<1>3. ClosedFirst'
  <2>1. \A n \in Readers : pc'[n] = "closed" => pc[n] = "closed"
    BY <1>2, StateChangeStep, ReaderIsThread
  <2>2. QED BY <1>1, <2>1 DEF LateInv, ClosedFirst
<1>4. \A u \in Threads : u # t => target'[u] = target[u] /\ pc'[u] = pc[u] /\ then'[u] = then[u]
  <2>1. \A u \in Threads : u # t => target'[u] = target[u]
    BY <1>0 DEF StateChange, SetRadioState, AnnounceChange, FollowUp, OnSIMReady, PollSIMState,
       PollAnswered, Call, ThreadsOK
  <2>2. QED BY <2>1, StateChangeStep
<1>5. \A n \in Readers : target'[n] # "SIM_NOT_READY"
  BY <1>4, ReaderTargets, ReaderIsThread DEF LateInv, ConfiguresFromOff
<1>6. CASE t = Dispatch
  <2>1. then'[Dispatch] = then[Dispatch]
    BY <1>6, StateChangeStep
  <2>2. CASE SetRadioState(t)
    <3>1. /\ pc[t] = "set" /\ pc'[t] = "changed"
          /\ sState' \in {target[t], "UNAVAILABLE"}
      BY <1>0, <1>6, <2>2 DEF SetRadioState, NewState, Go, ThreadsOK
    <3>2. QED BY <1>3, <1>5, <1>6, <2>1, <3>1 DEF LateInv, ConfiguresFromOff
  <2>3. CASE AnnounceChange(t) \/ FollowUp(t) \/ OnSIMReady(t)
    <3>1. /\ UNCHANGED sState
          /\ \/ /\ pc[t] = "changed" /\ pc'[t] \in {"announced", then[t]}
             \/ /\ pc[t] = "announced" /\ pc'[t] \in {"simready", then[t]}
             \/ /\ pc[t] = "announced" /\ sState = "SIM_NOT_READY"
             \/ /\ pc[t] = "simready" /\ pc'[t] = then[t]
      BY <1>0, <1>6, <2>3 DEF AnnounceChange, FollowUp, OnSIMReady, Go, ThreadsOK
    <3>2. QED BY <1>3, <1>5, <1>6, <2>1, <3>1 DEF LateInv, ConfiguresFromOff
  <2>4. CASE PollSIMState(t) \/ PollAnswered(t)
    <3>1. pc[t] \in {"poll", "status"}
      BY <2>4 DEF PollSIMState, PollAnswered
    <3>2. QED BY <1>3, <1>5, <1>6, <2>1, <3>1 DEF LateInv, ConfiguresFromOff
  <2>5. QED BY <2>2, <2>3, <2>4 DEF StateChange
\* A reader: what it makes of the state is not SIM_NOT_READY.
<1>7. CASE t # Dispatch
  <2>1. t \in Readers
    BY <1>7 DEF Threads
  <2>2. sState' = sState \/ sState' # "SIM_NOT_READY"
    BY <2>1, StateChangeStep DEF NewState, LateInv, ConfiguresFromOff
  <2>3. QED BY <1>0, <1>3, <1>4, <1>5, <1>7, <2>2 DEF LateInv, ConfiguresFromOff
<1>8. QED BY <1>6, <1>7

LEMMA ServeLate ==
  ASSUME TypeInv, LateInv, Serve \/ Request
  PROVE  LateInv'
<1>0. ThreadsOK /\ Dispatch \in Threads
  BY TypeParts, DispatchIsThread DEF TypeInv
<1>1. UNCHANGED <<sState, s_closed, mpc, overtaken, channel>> /\ \A n \in Readers : pc'[n] = pc[n]
  <2>1. UNCHANGED channel
    BY Zenon DEF Serve, RunPoll, InitializeCallback, ConfigureModem, RequestPowerOff,
       RequestPowerOn, RequestEnterSimPin, GetSIMStatus, OtherRequest, Request, OnRequest
  <2>2. QED BY <2>1, DispatchStep
<1>2. ClosedFirst'
  BY <1>1 DEF LateInv, ClosedFirst
<1>3. \A n \in Readers : target'[n] = target[n]
  <2>1. UNCHANGED target \/ \E state, next : Call(Dispatch, state, next)
    <3>1. CASE Serve
      BY <3>1, Zenon DEF Serve, RunPoll, InitializeCallback, ConfigureModem, RequestPowerOff,
         RequestPowerOn, RequestEnterSimPin, GetSIMStatus, OtherRequest
    <3>2. CASE Request
      BY <3>2, Zenon DEF Request, OnRequest
    <3>3. QED BY <3>1, <3>2
  <2>2. QED BY <1>0, <2>1, ReaderIsThread DEF Call, ThreadsOK
<1>4. \/ then'[Dispatch] # "configure"
      \/ pc'[Dispatch] = "set" /\ target'[Dispatch] = "OFF"
      \/ pc'[Dispatch] \notin {"set", "changed", "announced", "poll", "status"}
  <2>1. CASE RunPoll
    BY <1>0, <2>1 DEF RunPoll, ThreadsOK
  <2>2. CASE InitializeCallback
    BY <1>0, <2>2 DEF InitializeCallback, Call, Go, ThreadsOK
  <2>3. CASE ConfigureModem
    BY <1>0, <2>3 DEF ConfigureModem, Call, Go, ThreadsOK
  <2>4. CASE RequestPowerOff \/ RequestPowerOn
    BY <1>0, <2>4 DEF RequestPowerOff, RequestPowerOn, Call, Go, ThreadsOK
  <2>5. CASE RequestEnterSimPin \/ GetSIMStatus \/ OtherRequest
    BY <1>0, <2>5 DEF RequestEnterSimPin, GetSIMStatus, OtherRequest, Go, ThreadsOK
  <2>6. CASE Request
    <3>1. PICK kind \in {"powerOn", "powerOff", "enterPin", "simStatus", "other"} : OnRequest(kind)
      BY <2>6 DEF Request
    <3>2. QED BY <1>0, <3>1 DEF OnRequest, Go, ThreadsOK
  <2>7. QED BY <2>1, <2>2, <2>3, <2>4, <2>5, <2>6 DEF Serve
<1>5. ConfiguresFromOff'
  BY <1>3, <1>4 DEF LateInv, ConfiguresFromOff
<1>6. QED BY <1>2, <1>5 DEF LateInv

LEMMA NextLate == TypeInv /\ LiveReaders /\ LateInv /\ [Next]_vars => LateInv'
<1> SUFFICES ASSUME TypeInv, LiveReaders, LateInv, [Next]_vars PROVE LateInv'
  OBVIOUS
<1>0. ThreadsOK /\ Dispatch \in Threads /\ opens \in Nat
  BY TypeParts, DispatchIsThread DEF TypeInv, RestOK
<1>1. ASSUME UNCHANGED <<sState, target, then>>, pc'[Dispatch] = pc[Dispatch]
      PROVE  ConfiguresFromOff'
  BY <1>1 DEF LateInv, ConfiguresFromOff
<1>2. CASE ClearClosed \/ RequestInitialize \/ WaitForClose
  <2>1. UNCHANGED <<sState, target, then, pc, channel>>
    BY <1>2, Zenon DEF ClearClosed, RequestInitialize, WaitForClose, threads
  <2>2. ClosedFirst'
    BY <1>2, <2>1 DEF ClearClosed, RequestInitialize, WaitForClose, LateInv, ClosedFirst
  <2>3. QED BY <1>1, <2>1, <2>2 DEF LateInv
<1>3. CASE AtOpen
  <2>1. /\ mpc = "opening" /\ mpc' = "opened"
        /\ UNCHANGED <<sState, s_closed, overtaken, target, then>>
    BY <1>3, Zenon DEF AtOpen
  <2>2. /\ opens + 1 \in Readers /\ opens + 1 # Dispatch
        /\ pc'[opens + 1] = "reading"
        /\ \A n \in Readers : n # opens + 1 => pc'[n] = pc[n]
    BY <1>3, AtOpenStep, ReaderIsThread
  <2>3. pc'[Dispatch] = pc[Dispatch]
    BY <1>0, <1>3, <2>2 DEF AtOpen, Go, ThreadsOK
  <2>4. ~s_closed /\ \A n \in Readers : pc[n] # "closed"
    BY <2>1 DEF LiveReaders, Reads
  <2>5. ClosedFirst'
    BY <2>1, <2>2, <2>4 DEF ClosedFirst
  <2>6. QED BY <1>1, <2>1, <2>3, <2>5 DEF LateInv
<1>4. ASSUME NEW n \in Readers, AtClose(n) PROVE LateInv'
  <2>1. UNCHANGED <<sState, target, then, s_closed, mpc, overtaken>> /\ channel' = 0
    BY <1>4, Zenon DEF AtClose, main
  <2>2. pc'[Dispatch] = pc[Dispatch]
    BY <1>0, <1>4, ReaderIsThread DEF AtClose, Go, ThreadsOK
  <2>3. QED BY <1>1, <2>1, <2>2 DEF LateInv, ClosedFirst
<1>5. ASSUME NEW n \in Readers, OnATReaderClosed(n) PROVE LateInv'
  <2>1. UNCHANGED <<sState, channel, overtaken>> /\ s_closed' /\ pc[n] = "closed"
    BY <1>5, Zenon DEF OnATReaderClosed
  <2>2. \A t \in Threads : t # n => /\ pc'[t] = pc[t] /\ then'[t] = then[t]
                                   /\ target'[t] = target[t]
    BY <1>0, <1>5, ReaderIsThread DEF OnATReaderClosed, Call, Go, ThreadsOK
  <2>3. pc'[n] = "set" /\ target'[n] = "UNAVAILABLE"
    BY <1>0, <1>5, ReaderIsThread DEF OnATReaderClosed, Call, Go, ThreadsOK
  <2>4. ClosedFirst'
    BY <2>1 DEF LateInv, ClosedFirst
  <2>5. ConfiguresFromOff'
    BY <1>0, <2>1, <2>2, <2>3, ReaderIsThread DEF LateInv, ConfiguresFromOff
  <2>6. QED BY <2>4, <2>5 DEF LateInv
<1>6. CASE ModemHangsUp \/ (\E status \in SimStates : SimBecomes(status)) \/ UNCHANGED vars
  <2>1. UNCHANGED <<sState, target, then, pc, s_closed, channel, overtaken, mpc>>
    BY <1>6, Zenon DEF ModemHangsUp, SimBecomes, vars, main, threads
  <2>2. QED BY <2>1 DEF LateInv, ClosedFirst, ConfiguresFromOff
<1>7. QED BY <1>2, <1>3, <1>4, <1>5, <1>6, StateChangeLate, ServeLate, Zenon DEF Next, Main

\* The rest holds of a channel whose opening overtook no reader.  The dispatch thread sets
\* RADIO_STATE_SIM_READY only from another state; while it initialises the modem the state is
\* one that calls for nothing.
ReadyFromOther ==
  /\ pc[Dispatch] = "set" => sState # "SIM_READY" \/ target[Dispatch] = "OFF"
  /\ pc[Dispatch] \in {"status", "configure"} => sState # "SIM_READY"
  /\ then[Dispatch] = "configure" =>
       /\ pc[Dispatch] \notin {"poll", "status"}
       /\ pc[Dispatch] = "set" => target[Dispatch] = "OFF"
       /\ pc[Dispatch] \in {"changed", "announced", "simready"} => sState \in {"OFF", "UNAVAILABLE"}

\* When the dispatch thread is in the middle of something that began on an earlier channel, the
\* modem of this one is still to be initialised.
ToInitialize == mpc = "opened" \/ inits > 0
SinceThisChannel ==
  pc[Dispatch] # "idle" /\ channel # 0 /\ since # channel => ToInitialize

\* A SIM that is ready on a modem that is not set up, and not about to be initialised: the
\* dispatch thread is on its way to onSIMReady, or about to leave the state.
Unserved ==
  /\ sState = "SIM_READY" /\ channel # 0 /\ smsSetUp # channel
  /\ mpc \in {"check", "asleep"} /\ inits = 0
OnItsWay ==
  \/ pc[Dispatch] = "set" /\ target[Dispatch] = "OFF"
  \/ pc[Dispatch] = "changed" /\ old[Dispatch] # "SIM_READY"
  \/ pc[Dispatch] \in {"announced", "simready"}

SmsInv == ReadyFromOther /\ SinceThisChannel /\ (Unserved => OnItsWay)

\* A channel that is opened when every reader is back begins like that, whatever the dispatch
\* thread is in the middle of.
LEMMA SmsBegins ==
  ASSUME ClosedInv, LateInv, overtaken, ClearClosed, ReadersBack
  PROVE  SmsInv'
<1>1. s_closed /\ channel = 0 /\ mpc' = "opening"
  BY DEF ClearClosed, LateInv, ClosedFirst
<1>2. UNCHANGED <<sState, channel, pc, target, then>>
  BY Zenon DEF ClearClosed, threads
<1>3. sState = "UNAVAILABLE"
  BY <1>1 DEF ReadersBack, ClosedInv, UnavailableWhenClosed
<1>4. ReadyFromOther'
  BY <1>2, <1>3 DEF ReadyFromOther, LateInv, ConfiguresFromOff
<1>5. SinceThisChannel' /\ ~Unserved'
  BY <1>1, <1>2, <1>3 DEF SinceThisChannel, Unserved
<1>6. QED BY <1>4, <1>5 DEF SmsInv

\* What is left of SmsInv to show of a step, by the variables it changes.
LEMMA SmsKept ==
  ASSUME SmsInv, UNCHANGED <<sState, since, smsSetUp>>, channel' = channel \/ channel' = 0,
         inits' \in {inits, inits + 1}, inits \in Nat,
         pc'[Dispatch] = pc[Dispatch], target'[Dispatch] = target[Dispatch],
         old'[Dispatch] = old[Dispatch], then'[Dispatch] = then[Dispatch],
         \/ mpc' = mpc
         \/ mpc' = "check" /\ (mpc = "asleep" \/ inits' = inits + 1)
         \/ mpc = "check" /\ mpc' \in {"open", "asleep"}
         \/ mpc = "open" /\ mpc' = "opening"
  PROVE  SmsInv'
<1>1. ReadyFromOther'
  BY DEF SmsInv, ReadyFromOther
<1>2. SinceThisChannel'
  BY DEF SmsInv, SinceThisChannel, ToInitialize
<1>3. Unserved' => Unserved
  BY DEF Unserved
<1>4. OnItsWay => OnItsWay'
  BY DEF OnItsWay
<1>5. QED BY <1>1, <1>2, <1>3, <1>4 DEF SmsInv

\* A reader leaves the state UNAVAILABLE, or as it is.
LEMMA ReaderSms ==
  ASSUME TypeInv, LiveReaders, Undisturbed, SmsInv, NEW n \in Readers, StateChange(n)
  PROVE  SmsInv'
<1>1. pc[n] \in Returning /\ s_closed
  BY ReaderReturns
<1>2. n \in Threads /\ n # Dispatch /\ Dispatch \in Threads
  BY ReaderIsThread, DispatchIsThread
<1>3. ThreadsOK /\ inits \in Nat
  BY TypeParts DEF TypeInv, RestOK
<1>4. pc'[Dispatch] = pc[Dispatch] /\ then'[Dispatch] = then[Dispatch]
      /\ (mpc' = mpc \/ (mpc = "asleep" /\ mpc' = "check"))
  BY <1>2, StateChangeStep
<1>5. CASE SetRadioState(n)
  <2>1. /\ sState' = "UNAVAILABLE" /\ UNCHANGED <<channel, inits, target, since, smsSetUp>>
    BY <1>1, <1>5 DEF SetRadioState, NewState, callbacks
  <2>2. ReadyFromOther'
    BY <1>4, <2>1 DEF SmsInv, ReadyFromOther
  <2>3. SinceThisChannel'
    BY <1>4, <2>1 DEF SmsInv, SinceThisChannel, ToInitialize
  <2>4. ~Unserved'
    BY <2>1 DEF Unserved
  <2>5. QED BY <2>2, <2>3, <2>4 DEF SmsInv
<1>6. CASE AnnounceChange(n) \/ FollowUp(n)
  <2>1. UNCHANGED <<sState, since, smsSetUp, channel, inits, target, old>>
    BY <1>6, Zenon DEF AnnounceChange, FollowUp, callbacks
  <2>2. QED BY <1>3, <1>4, <2>1, SmsKept
<1>7. QED
  BY <1>1, <1>5, <1>6 DEF StateChange, OnSIMReady, PollSIMState, PollAnswered, Returning

LEMMA DispatchSms ==
  ASSUME TypeInv, Undisturbed, SmsInv, StateChange(Dispatch)
  PROVE  SmsInv'
<1>0. ThreadsOK /\ inits \in Nat /\ Dispatch \in Threads
  BY TypeParts, DispatchIsThread DEF TypeInv, RestOK
<1>1. /\ then'[Dispatch] = then[Dispatch] /\ then[Dispatch] \in {"idle", "configure"}
      /\ mpc' = mpc \/ (mpc = "asleep" /\ mpc' = "check")
      /\ pc[Dispatch] # "idle"
  BY <1>0, StateChangeStep DEF ThreadsOK
<1>2. UNCHANGED <<channel, inits, since>>
  BY Zenon DEF StateChange, SetRadioState, AnnounceChange, FollowUp, OnSIMReady, PollSIMState,
     PollAnswered, callbacks
<1>3. SinceThisChannel'
  BY <1>1, <1>2 DEF SmsInv, SinceThisChannel, ToInitialize
<1>4. Unserved => since = channel
  BY <1>1 DEF SmsInv, SinceThisChannel, ToInitialize, Unserved
<1>5. SUFFICES ReadyFromOther' /\ (Unserved' => OnItsWay')
  BY <1>3 DEF SmsInv
<1> USE DEF ReadyFromOther, Unserved, OnItsWay
<1>6. CASE SetRadioState(Dispatch)
  <2>1. /\ pc[Dispatch] = "set" /\ pc'[Dispatch] = "changed"
        /\ old'[Dispatch] = sState /\ target'[Dispatch] = target[Dispatch]
        /\ sState' \in {target[Dispatch], "UNAVAILABLE"}
    BY <1>0, <1>6 DEF SetRadioState, NewState, Go, ThreadsOK
  <2>2. QED BY <1>1, <2>1 DEF SmsInv
<1>7. ASSUME UNCHANGED <<sState, smsSetUp>>, Unserved => OnItsWay' PROVE Unserved' => OnItsWay'
  BY <1>1, <1>2, <1>7
<1>8. CASE AnnounceChange(Dispatch)
  <2>1. /\ pc[Dispatch] = "changed" /\ UNCHANGED <<sState, smsSetUp, target, old>>
        /\ pc'[Dispatch] = IF sState # old[Dispatch] THEN "announced" ELSE then[Dispatch]
    BY <1>0, <1>8 DEF AnnounceChange, Go, ThreadsOK
  <2>2. QED BY <1>1, <1>7, <2>1 DEF SmsInv
<1>9. CASE FollowUp(Dispatch)
  <2>1. /\ pc[Dispatch] = "announced" /\ UNCHANGED <<sState, smsSetUp, target, old>>
        /\ sState = "SIM_READY" => pc'[Dispatch] = "simready"
        /\ sState = "SIM_NOT_READY" => pc'[Dispatch] = "poll"
        /\ sState \notin {"SIM_READY", "SIM_NOT_READY"} => pc'[Dispatch] = then[Dispatch]
    BY <1>0, <1>9 DEF FollowUp, Go, ThreadsOK
  <2>2. QED BY <1>1, <1>7, <2>1 DEF SmsInv
<1>10. CASE OnSIMReady(Dispatch)
  <2>1. /\ pc[Dispatch] = "simready" /\ pc'[Dispatch] = then[Dispatch]
        /\ UNCHANGED <<sState, target, old>>
    BY <1>0, <1>10 DEF OnSIMReady, Go, ThreadsOK
  <2>2. smsSetUp' = channel \/ (Fails(Dispatch) /\ smsSetUp' = smsSetUp)
    BY <1>10 DEF OnSIMReady
  <2>3. \A n \in Readers : pc[n] \notin Sending
    BY DEF Undisturbed, ReaderPlaces, Returning, Sending
  <2>4. Unserved' => FALSE
    BY <1>1, <1>2, <1>4, <2>1, <2>2, <2>3 DEF Fails
  <2>5. QED BY <1>1, <2>1, <2>4 DEF SmsInv
<1>11. CASE PollSIMState(Dispatch)
  <2>1. /\ pc[Dispatch] = "poll" /\ UNCHANGED <<sState, smsSetUp, target, old>>
        /\ pc'[Dispatch] = IF sState = "SIM_NOT_READY" THEN "status" ELSE then[Dispatch]
    BY <1>0, <1>11 DEF PollSIMState, Go, ThreadsOK
  <2>2. QED BY <1>1, <1>7, <2>1 DEF SmsInv
<1>12. CASE PollAnswered(Dispatch)
  <2>1. /\ pc[Dispatch] = "status" /\ UNCHANGED <<sState, smsSetUp>>
        /\ pc'[Dispatch] \in {then[Dispatch], "set"}
    BY <1>0, <1>12 DEF PollAnswered, Call, Go, ThreadsOK
  <2>2. QED BY <1>1, <1>7, <2>1 DEF SmsInv
<1>13. QED BY <1>6, <1>8, <1>9, <1>10, <1>11, <1>12 DEF StateChange

LEMMA ServeSms ==
  ASSUME TypeInv, SmsInv, Serve \/ Request
  PROVE  SmsInv'
<1>0. ThreadsOK /\ inits \in Nat /\ Dispatch \in Threads
  BY TypeParts, DispatchIsThread DEF TypeInv, RestOK
<1>1. UNCHANGED <<sState, channel, smsSetUp, mpc>>
  <2>1. UNCHANGED <<sState, mpc>>
    BY DispatchStep
  <2>2. UNCHANGED <<channel, smsSetUp>>
    BY Zenon DEF Serve, RunPoll, InitializeCallback, ConfigureModem, RequestPowerOff,
       RequestPowerOn, RequestEnterSimPin, GetSIMStatus, OtherRequest, Request, OnRequest
  <2>3. QED BY <2>1, <2>2
<1> USE DEF ReadyFromOther, SinceThisChannel, ToInitialize, Unserved, OnItsWay
\* Something new begins, on the channel of now.
<1>2. CASE RunPoll
  <2>1. /\ pc[Dispatch] = "idle" /\ pc'[Dispatch] = "poll" /\ then'[Dispatch] = "idle"
        /\ since' = channel /\ inits' = inits
    BY <1>0, <1>2 DEF RunPoll, Go, ThreadsOK
  <2>2. QED BY <1>1, <2>1 DEF SmsInv
<1>3. CASE InitializeCallback
  <2>1. /\ pc'[Dispatch] = "set" /\ target'[Dispatch] = "OFF" /\ since' = channel
    BY <1>0, <1>3 DEF InitializeCallback, Call, Go, ThreadsOK
  <2>2. QED BY <1>1, <2>1 DEF SmsInv
<1>4. CASE Request
  <2>1. PICK kind \in {"powerOn", "powerOff", "enterPin", "simStatus", "other"} : OnRequest(kind)
    BY <1>4 DEF Request
  <2>2. /\ pc[Dispatch] = "idle" /\ pc'[Dispatch] \in {"idle", kind} /\ since' = channel
        /\ UNCHANGED <<inits, target, old, then>>
    BY <1>0, <2>1 DEF OnRequest, Go, ThreadsOK, callbacks
  <2>3. QED BY <1>1, <2>2 DEF SmsInv
\* Something goes on: it was on no way to onSIMReady.
<1>5. ASSUME pc[Dispatch] \in {"configure", "powerOff", "powerOn", "enterPin", "simStatus", "other"},
             \/ pc'[Dispatch] = "idle"
             \/ /\ pc'[Dispatch] = "set" /\ then'[Dispatch] = "idle"
                /\ sState # "SIM_READY" \/ target'[Dispatch] = "OFF",
             UNCHANGED <<since, inits>>
      PROVE  SmsInv'
  BY <1>1, <1>5 DEF SmsInv
<1>6. CASE ConfigureModem
  <2>1. /\ pc[Dispatch] = "configure" /\ UNCHANGED <<since, inits>>
        /\ pc'[Dispatch] = "idle" \/ (pc'[Dispatch] = "set" /\ then'[Dispatch] = "idle")
    BY <1>0, <1>6 DEF ConfigureModem, Call, Go, ThreadsOK, callbacks
  <2>2. QED BY <1>5, <2>1 DEF SmsInv
<1>7. CASE RequestPowerOff
  <2>1. /\ pc[Dispatch] = "powerOff" /\ UNCHANGED <<since, inits>>
        /\ \/ pc'[Dispatch] = "idle"
           \/ pc'[Dispatch] = "set" /\ then'[Dispatch] = "idle" /\ target'[Dispatch] = "OFF"
    BY <1>0, <1>7 DEF RequestPowerOff, Call, Go, ThreadsOK, callbacks
  <2>2. QED BY <1>5, <2>1
<1>8. CASE RequestPowerOn
  <2>1. /\ pc[Dispatch] = "powerOn" /\ UNCHANGED <<since, inits>>
        /\ \/ pc'[Dispatch] = "idle"
           \/ pc'[Dispatch] = "set" /\ then'[Dispatch] = "idle" /\ sState = "OFF"
    BY <1>0, <1>8 DEF RequestPowerOn, Call, Go, ThreadsOK, callbacks
  <2>2. QED BY <1>5, <2>1
<1>9. CASE RequestEnterSimPin \/ GetSIMStatus \/ OtherRequest
  <2>1. /\ pc[Dispatch] \in {"enterPin", "simStatus", "other"} /\ UNCHANGED <<since, inits>>
        /\ pc'[Dispatch] = "idle"
    BY <1>0, <1>9 DEF RequestEnterSimPin, GetSIMStatus, OtherRequest, Go, ThreadsOK, callbacks
  <2>2. QED BY <1>5, <2>1
<1>10. QED BY <1>2, <1>3, <1>4, <1>6, <1>7, <1>8, <1>9 DEF Serve

LEMMA NextUndisturbedSms ==
  ASSUME TypeInv, LiveReaders, Undisturbed, SmsInv, [Next]_vars
  PROVE  SmsInv'
<1>0. ThreadsOK /\ inits \in Nat /\ Dispatch \in Threads
  BY TypeParts, DispatchIsThread DEF TypeInv, RestOK
<1>1. ASSUME NEW t \in Threads, StateChange(t) PROVE SmsInv'
  BY <1>1, ReaderSms, DispatchSms DEF Threads
<1>2. CASE ClearClosed \/ RequestInitialize \/ WaitForClose
  <2>1. UNCHANGED <<sState, since, smsSetUp, channel, pc, target, old, then>>
    BY <1>2, Zenon DEF ClearClosed, RequestInitialize, WaitForClose, threads
  <2>2. \/ mpc = "open" /\ mpc' = "opening" /\ inits' = inits
        \/ mpc' = "check" /\ inits' = inits + 1
        \/ mpc = "check" /\ mpc' \in {"open", "asleep"} /\ inits' = inits
    BY <1>2 DEF ClearClosed, RequestInitialize, WaitForClose, callbacks
  <2>3. QED BY <1>0, <2>1, <2>2, SmsKept
<1>3. CASE AtOpen
  <2>1. /\ mpc' = "opened" /\ UNCHANGED <<sState, target, then>>
    BY <1>3 DEF AtOpen
  <2>2. pc'[Dispatch] = pc[Dispatch]
    <3>1. opens + 1 \in Readers
      BY AtOpenStep, <1>3
    <3>2. opens + 1 # Dispatch /\ Go(opens + 1, "reading")
      BY <1>3, <3>1, ReaderIsThread DEF AtOpen
    <3>3. QED BY <1>0, <3>2 DEF Go, ThreadsOK
  <2>3. ReadyFromOther'
    BY <2>1, <2>2 DEF SmsInv, ReadyFromOther
  <2>4. SinceThisChannel' /\ ~Unserved'
    BY <2>1 DEF SinceThisChannel, ToInitialize, Unserved
  <2>5. QED BY <2>3, <2>4 DEF SmsInv
<1>4. ASSUME NEW n \in Readers, AtClose(n) \/ OnATReaderClosed(n) PROVE SmsInv'
  <2>1. n \in Threads /\ n # Dispatch
    BY ReaderIsThread
  <2>2. /\ pc'[Dispatch] = pc[Dispatch] /\ then'[Dispatch] = then[Dispatch]
        /\ target'[Dispatch] = target[Dispatch] /\ old'[Dispatch] = old[Dispatch]
    BY <1>0, <1>4, <2>1 DEF AtClose, OnATReaderClosed, Call, Go, ThreadsOK
  <2>3. /\ UNCHANGED <<sState, since, smsSetUp, inits, mpc>>
        /\ channel' = channel \/ channel' = 0
    BY <1>4, Zenon DEF AtClose, OnATReaderClosed, callbacks, main
  <2>4. QED BY <1>0, <2>2, <2>3, SmsKept
<1>5. CASE UNCHANGED <<sState, main, channel, callbacks, threads, since, smsSetUp>>
  <2>1. UNCHANGED <<sState, since, smsSetUp, channel, inits, mpc, pc, target, old, then>>
    BY <1>5, Zenon DEF main, callbacks, threads
  <2>2. QED BY <1>0, <2>1, SmsKept
<1>6. CASE ModemHangsUp \/ \E status \in SimStates : SimBecomes(status)
  BY <1>5, <1>6, Zenon DEF ModemHangsUp, SimBecomes
<1>7. CASE UNCHANGED vars
  BY <1>5, <1>7, Zenon DEF vars
<1>8. QED BY <1>1, <1>2, <1>3, <1>4, <1>6, <1>7, ServeSms, Zenon DEF Next, Main

LEMMA NextSms ==
  TypeInv /\ ClosedInv /\ LateInv /\ ReadersInv /\ (~overtaken => SmsInv) /\ [Next]_vars
    => (~overtaken => SmsInv)'
<1> SUFFICES ASSUME TypeInv, ClosedInv, LateInv, ReadersInv, ~overtaken => SmsInv, [Next]_vars,
                    ~overtaken'
             PROVE  SmsInv'
  OBVIOUS
<1>1. CASE ~overtaken
  BY <1>1, NextUndisturbedSms DEF ReadersInv
<1>2. CASE overtaken
  <2>1. ClearClosed
    BY <1>2, OvertakenKept
  <2>2. ReadersBack
    BY <2>1 DEF ClearClosed
  <2>3. QED BY <1>2, <2>1, <2>2, SmsBegins
<1>3. QED BY <1>1, <1>2

\* Of a channel whose opening overtook no reader: a SIM that is reported ready has a modem that
\* was set up for SMS on this very channel, whenever the channels before closed and opened
\* under the thread that did it, and however late their readers returned (setRadioState,
\* onSIMReady, initializeCallback).
THEOREM SmsIsSetUp == Spec => []SmsSetUp
<1>1. Init => SmsInv
  BY DispatchIsThread DEF Init, SmsInv, ReadyFromOther, SinceThisChannel, Unserved
<1>2. (~overtaken => SmsInv) => SmsSetUp
  BY DEF SmsInv, Unserved, OnItsWay, SmsSetUp, AtRest
<1>3. TypeInv /\ ReadersInv /\ LateInv /\ [Next]_vars => LateInv'
  BY NextLate DEF ReadersInv
<1>4. Init => (~overtaken => SmsInv)
  BY <1>1
<1>5. QED
  BY <1>2, <1>3, <1>4, InitTypeInv, NextTypeInv, InitClosedInv, NextClosedInv, InitReadersInv,
     NextReadersInv, InitLate, NextSms, PTL DEF Spec
=============================================================================
