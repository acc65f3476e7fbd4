--------------------------- MODULE WakeLock_proofs ---------------------------
(***************************************************************************)
(* Proofs about WakeLock: its type invariant, and that a lock that is held *)
(* is accounted for, for any number of threads, timers and calls.          *)
(***************************************************************************)
EXTENDS WakeLock, SequenceTheorems, TLAPS

LEMMA InitTypeOK == Init => TypeOK
<1> SUFFICES ASSUME Init PROVE TypeOK
  OBVIOUS
<1>1. wakeLock \in BOOLEAN /\ crashed \in BOOLEAN
  BY Zenon DEF Init
<1>2. /\ s_last_wake_timeout_info \in Addresses \cup {None}
      /\ allocated \subseteq Addresses
      /\ timers \in Seq(Addresses)
      /\ pc \in [Threads -> {"idle", "send", "cancel", "add", "store", "expired", "forget"}]
      /\ p_info \in [Threads -> Addresses \cup {None}]
      /\ calls \in 0..MaxCalls
  BY BoundsAssumption, EmptySeq DEF Init
<1>3. cancelled \in [Addresses -> BOOLEAN]
  BY DEF Init
<1>4. QED BY <1>1, <1>2, <1>3, Zenon DEF TypeOK

\* Facts every step of a thread starts from.
LEMMA StepTypes ==
  ASSUME TypeOK, NEW t \in Threads, NEW from, NEW to, Goes(t, from, to),
         to \in {"idle", "send", "cancel", "add", "store", "expired", "forget"}
  PROVE  /\ pc' \in [Threads -> {"idle", "send", "cancel", "add", "store", "expired", "forget"}]
         /\ pc[t] = from /\ pc'[t] = to
         /\ \A u \in Threads : u # t => pc'[u] = pc[u]
BY DEF TypeOK, Goes

LEMMA UsesTypes ==
  ASSUME TypeOK, NEW t \in Threads, NEW a \in Addresses \cup {None}, Uses(t, a)
  PROVE  /\ p_info' \in [Threads -> Addresses \cup {None}]
         /\ p_info'[t] = a
         /\ \A u \in Threads : u # t => p_info'[u] = p_info[u]
BY DEF TypeOK, Uses

LEMMA LoopIsThread == Loop \in Threads
BY DEF Threads

LEMMA NextTypeOK == TypeOK /\ [Next]_vars => TypeOK'
<1> SUFFICES ASSUME TypeOK, [Next]_vars PROVE TypeOK'
  OBVIOUS
<1> USE BoundsAssumption
<1>1. ASSUME NEW t \in Threads, GrabPartialWakeLock(t) PROVE TypeOK'
  <2>1. calls' \in 0..MaxCalls
    BY <1>1 DEF GrabPartialWakeLock, TypeOK
  <2>2. pc' \in [Threads -> {"idle", "send", "cancel", "add", "store", "expired", "forget"}]
    BY <1>1, StepTypes DEF GrabPartialWakeLock
  <2>3. QED BY <1>1, <2>1, <2>2, Zenon DEF GrabPartialWakeLock, TypeOK
<1>2. ASSUME NEW t \in Threads, Reports(t) PROVE TypeOK'
  <2>1. CASE ErrorExit(t)
    <3>1. pc' \in [Threads -> {"idle", "send", "cancel", "add", "store", "expired", "forget"}]
      BY <2>1, StepTypes DEF ErrorExit
    <3>2. QED BY <2>1, <3>1, Zenon DEF ErrorExit, TypeOK
  <2>2. CASE LookForPrevious(t)
    <3>1. pc' \in [Threads -> {"idle", "send", "cancel", "add", "store", "expired", "forget"}]
      BY <2>2, StepTypes DEF LookForPrevious
    <3>2. p_info' \in [Threads -> Addresses \cup {None}]
      BY <2>2, UsesTypes DEF LookForPrevious, TypeOK
    <3>3. QED BY <2>2, <3>1, <3>2, Zenon DEF LookForPrevious, TypeOK
  <2>3. CASE CancelPrevious(t)
    <3>1. PICK a \in {p_info[t], s_last_wake_timeout_info} :
            /\ Goes(t, "cancel", "add")
            /\ \/ a # None /\ cancelled' = [cancelled EXCEPT ![a] = TRUE] /\ UNCHANGED crashed
               \/ a = None /\ crashed' = TRUE /\ UNCHANGED cancelled
            /\ UNCHANGED <<wakeLock, s_last_wake_timeout_info, allocated, timers, p_info, calls>>
      BY <2>3, Zenon DEF CancelPrevious
    <3>2. pc' \in [Threads -> {"idle", "send", "cancel", "add", "store", "expired", "forget"}]
      BY <3>1, StepTypes
    <3>3. cancelled' \in [Addresses -> BOOLEAN]
      BY <3>1 DEF TypeOK
    <3>4. crashed' \in BOOLEAN
      BY <3>1, Zenon DEF TypeOK
    <3>5. QED BY <3>1, <3>2, <3>3, <3>4, Zenon DEF TypeOK
  <2>4. CASE RequestTimeout(t)
    <3>1. PICK a \in Addresses \ allocated :
            /\ Goes(t, "add", "store")
            /\ allocated' = allocated \cup {a}
            /\ cancelled' = [cancelled EXCEPT ![a] = FALSE]
            /\ timers' = Append(timers, a)
            /\ Uses(t, a)
            /\ UNCHANGED <<wakeLock, s_last_wake_timeout_info, crashed, calls>>
      BY <2>4, Zenon DEF RequestTimeout
    <3>2. pc' \in [Threads -> {"idle", "send", "cancel", "add", "store", "expired", "forget"}]
      BY <3>1, StepTypes
    <3>3. p_info' \in [Threads -> Addresses \cup {None}]
      BY <3>1, UsesTypes
    <3>4. cancelled' \in [Addresses -> BOOLEAN] /\ allocated' \subseteq Addresses
      BY <3>1 DEF TypeOK
    <3>5. timers' \in Seq(Addresses)
      BY <3>1, AppendProperties DEF TypeOK
    <3>6. QED BY <3>1, <3>2, <3>3, <3>4, <3>5, Zenon DEF TypeOK
  <2>5. CASE StoreLast(t)
    <3>1. pc' \in [Threads -> {"idle", "send", "cancel", "add", "store", "expired", "forget"}]
      BY <2>5, StepTypes DEF StoreLast
    <3>2. p_info' \in [Threads -> Addresses \cup {None}]
      BY <2>5, UsesTypes DEF StoreLast
    <3>3. s_last_wake_timeout_info' \in Addresses \cup {None}
      BY <2>5 DEF StoreLast, TypeOK
    <3>4. QED BY <2>5, <3>1, <3>2, <3>3, Zenon DEF StoreLast, TypeOK
  <2>6. QED BY <1>2, <2>1, <2>2, <2>3, <2>4, <2>5 DEF Reports
<1>3. CASE TimerExpires
  <2>1. pc' \in [Threads -> {"idle", "send", "cancel", "add", "store", "expired", "forget"}]
    BY <1>3, LoopIsThread, StepTypes DEF TimerExpires
  <2>2. Head(timers) \in Addresses /\ Tail(timers) \in Seq(Addresses)
    BY <1>3, HeadTailProperties DEF TimerExpires, TypeOK
  <2>3. p_info' \in [Threads -> Addresses \cup {None}]
    BY <1>3, <2>2, LoopIsThread, UsesTypes DEF TimerExpires
  <2>4. QED BY <1>3, <2>1, <2>2, <2>3, Zenon DEF TimerExpires, TypeOK
<1>4. CASE WakeTimeoutCallback
  <2>1. pc' \in [Threads -> {"idle", "send", "cancel", "add", "store", "expired", "forget"}]
    BY <1>4, LoopIsThread, StepTypes DEF WakeTimeoutCallback
  <2>2. wakeLock' \in BOOLEAN
    BY <1>4, Zenon DEF WakeTimeoutCallback
  <2>3. QED BY <1>4, <2>1, <2>2, Zenon DEF WakeTimeoutCallback, TypeOK
<1>5. CASE ForgetTimer
  <2>1. pc' \in [Threads -> {"idle", "send", "cancel", "add", "store", "expired", "forget"}]
    BY <1>5, LoopIsThread, StepTypes DEF ForgetTimer
  <2>2. p_info' \in [Threads -> Addresses \cup {None}]
    BY <1>5, LoopIsThread, UsesTypes DEF ForgetTimer
  <2>3. /\ s_last_wake_timeout_info' \in Addresses \cup {None}
        /\ allocated' \subseteq Addresses
    BY <1>5 DEF ForgetTimer, TypeOK
  <2>4. QED BY <1>5, <2>1, <2>2, <2>3, Zenon DEF ForgetTimer, TypeOK
<1>6. CASE UNCHANGED vars
  BY <1>6, Zenon DEF vars, TypeOK
<1>7. QED BY <1>1, <1>2, <1>3, <1>4, <1>5, <1>6, Zenon DEF Next, Timeouts

\* The variables keep their types (RIL_onUnsolicitedResponse, userTimerCallback).
THEOREM TypeCorrect == Spec => []TypeOK
BY InitTypeOK, NextTypeOK, PTL DEF Spec

-----------------------------------------------------------------------------
(* LockAccounted *)

Busy == \E t \in Threads : pc[t] \in {"send", "cancel", "add"}

\* A thread's step outside the timer callback loses no timer that runs.
LEMMA RunningKept ==
  ASSUME TypeOK, NEW t \in Threads, NEW from, NEW to, Goes(t, from, to),
         from # "expired",
         to \in {"idle", "send", "cancel", "add", "store", "forget"},
         \A u \in Threads : u # t => p_info'[u] = p_info[u],
         ToSet(timers) \subseteq ToSet(timers)'
  PROVE  Running \subseteq Running'
<1>1. /\ pc[t] = from /\ pc'[t] = to
      /\ \A u \in Threads : u # t => pc'[u] = pc[u]
  BY StepTypes
<1>2. pc[Loop] = "expired" => pc'[Loop] = "expired" /\ p_info'[Loop] = p_info[Loop]
  BY <1>1, LoopIsThread
<1>3. QED BY <1>2 DEF Running

LEMMA NextLockAccounted == TypeOK /\ LockAccounted /\ [Next]_vars => LockAccounted'
<1> SUFFICES ASSUME TypeOK, LockAccounted, [Next]_vars, wakeLock'
             PROVE  Busy' \/ \E a \in Running' : ~cancelled'[a]
  BY DEF LockAccounted, Busy
<1>1. ASSUME NEW t \in Threads, GrabPartialWakeLock(t) PROVE Busy'
  BY <1>1, StepTypes DEF GrabPartialWakeLock, Busy
<1>2. ASSUME NEW t \in Threads, ErrorExit(t) PROVE FALSE
  BY <1>2 DEF ErrorExit
<1>3. ASSUME NEW t \in Threads, LookForPrevious(t) PROVE Busy'
  BY <1>3, StepTypes DEF LookForPrevious, Busy
<1>4. ASSUME NEW t \in Threads, CancelPrevious(t) PROVE Busy'
  <2>1. Goes(t, "cancel", "add")
    BY <1>4 DEF CancelPrevious
  <2>2. QED BY <2>1, StepTypes DEF Busy
<1>5. ASSUME NEW t \in Threads, RequestTimeout(t) PROVE \E a \in Running' : ~cancelled'[a]
  <2>1. PICK a \in Addresses \ allocated :
          /\ cancelled' = [cancelled EXCEPT ![a] = FALSE]
          /\ timers' = Append(timers, a)
    BY <1>5 DEF RequestTimeout
  <2>2. ~cancelled'[a]
    BY <2>1 DEF TypeOK
  <2>3. a \in ToSet(timers)'
    BY <2>1, AppendProperties DEF TypeOK, ToSet
  <2>4. QED BY <2>2, <2>3 DEF Running
<1>6. ASSUME NEW t \in Threads, StoreLast(t) PROVE Busy' \/ \E a \in Running' : ~cancelled'[a]
  <2>1. /\ Goes(t, "store", "idle")
        /\ wakeLock' = wakeLock /\ cancelled' = cancelled /\ timers' = timers
        /\ \A u \in Threads : u # t => p_info'[u] = p_info[u]
    BY <1>6, UsesTypes DEF StoreLast
  <2>2. Running \subseteq Running'
    BY <2>1, RunningKept
  <2>3. Busy => Busy'
    BY <2>1, StepTypes DEF Busy
  <2>4. QED BY <2>1, <2>2, <2>3 DEF LockAccounted, Busy
<1>7. CASE TimerExpires
  <2>1. /\ Goes(Loop, "idle", "expired")
        /\ wakeLock' = wakeLock /\ cancelled' = cancelled
        /\ timers # <<>> /\ timers' = Tail(timers)
    BY <1>7 DEF TimerExpires
  <2>2. pc'[Loop] = "expired" /\ pc[Loop] = "idle" /\ \A u \in Threads : u # Loop => pc'[u] = pc[u]
    BY <2>1, LoopIsThread, StepTypes
  <2>3. p_info'[Loop] = Head(timers)
    BY <1>7, <2>1, LoopIsThread, UsesTypes, HeadTailProperties DEF TimerExpires, TypeOK
  <2>4. ToSet(timers) \subseteq {Head(timers)} \cup ToSet(timers)'
    <3>1. ASSUME NEW i \in 1..Len(timers), i # 1
          PROVE  i - 1 \in 1..Len(Tail(timers)) /\ Tail(timers)[i - 1] = timers[i]
      BY <2>1, <3>1, HeadTailProperties DEF TypeOK
    <3>2. Head(timers) = timers[1]
      BY <2>1, HeadTailProperties DEF TypeOK
    <3>3. DOMAIN timers = 1..Len(timers) /\ DOMAIN timers' = 1..Len(Tail(timers))
      BY <2>1, HeadTailProperties, LenProperties DEF TypeOK
    <3>4. QED BY <2>1, <3>1, <3>2, <3>3 DEF ToSet
  <2>5. Running \subseteq Running'
    BY <2>2, <2>3, <2>4 DEF Running
  <2>6. Busy => Busy'
    BY <2>2, LoopIsThread DEF Busy
  <2>7. QED BY <2>1, <2>5, <2>6 DEF LockAccounted, Busy
<1>8. CASE WakeTimeoutCallback
  <2>1. /\ Goes(Loop, "expired", "forget")
        /\ wakeLock /\ cancelled[p_info[Loop]]
        /\ cancelled' = cancelled /\ timers' = timers
    BY <1>8 DEF WakeTimeoutCallback
  <2>2. pc'[Loop] = "forget" /\ pc[Loop] = "expired" /\ \A u \in Threads : u # Loop => pc'[u] = pc[u]
    BY <2>1, LoopIsThread, StepTypes
  <2>3. Busy => Busy'
    BY <2>2, LoopIsThread DEF Busy
  <2>4. ASSUME NEW a \in Running, ~cancelled[a] PROVE a \in Running'
    BY <2>1, <2>4 DEF Running
  <2>5. QED BY <2>1, <2>3, <2>4 DEF LockAccounted, Busy
<1>9. CASE ForgetTimer
  <2>1. /\ Goes(Loop, "forget", "idle")
        /\ wakeLock' = wakeLock /\ cancelled' = cancelled /\ timers' = timers
        /\ \A u \in Threads : u # Loop => p_info'[u] = p_info[u]
    BY <1>9, LoopIsThread, UsesTypes DEF ForgetTimer
  <2>2. Running \subseteq Running'
    BY <2>1, LoopIsThread, RunningKept
  <2>3. Busy => Busy'
    BY <2>1, LoopIsThread, StepTypes DEF Busy
  <2>4. QED BY <2>1, <2>2, <2>3 DEF LockAccounted, Busy
<1>10. CASE UNCHANGED vars
  BY <1>10 DEF vars, LockAccounted, Busy, Running
<1>11. QED
  BY <1>1, <1>2, <1>3, <1>4, <1>5, <1>6, <1>7, <1>8, <1>9, <1>10, Zenon DEF Next, Reports, Timeouts

\* The lock is never held with nobody left to release it, whatever the threads that report
\* events and the timers do to s_last_wake_timeout_info (RIL_onUnsolicitedResponse,
\* wakeTimeoutCallback).
THEOREM LockIsAccounted == Spec => []LockAccounted
<1>1. Init => LockAccounted
  BY DEF Init, LockAccounted
<1>2. QED BY <1>1, TypeCorrect, NextLockAccounted, PTL DEF Spec
=============================================================================
