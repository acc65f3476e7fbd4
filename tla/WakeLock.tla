------------------------------- MODULE WakeLock -------------------------------
(***************************************************************************)
(* The wake lock of the radio daemon: the other half of                    *)
(* RIL_onUnsolicitedResponse (libril/ril.cpp; module RilRequests has the   *)
(* half that writes to the client).                                        *)
(*                                                                         *)
(* A thread that reports an event takes the one, named wake lock and leaves*)
(* a timer that releases it; the timer the thread before it left is        *)
(* cancelled through s_last_wake_timeout_info, which no mutex protects:    *)
(* the event loop clears the variable, and frees what it points to, when   *)
(* the timer has run.                                                      *)
(***************************************************************************)
EXTENDS Naturals, Sequences, SequencesExt

CONSTANTS
  Loop,       \* the thread of the event loop
  Vendors,    \* the other threads that report events
  Addresses,  \* where malloc may put a UserCallbackInfo: it never fails when there are
              \* MaxCalls of them
  MaxCalls,   \* bound: calls of RIL_onUnsolicitedResponse
  None

Threads == {Loop} \cup Vendors

ASSUME ThreadsAssumption == Loop \notin Vendors /\ None \notin Addresses
ASSUME BoundsAssumption == MaxCalls \in Nat

VARIABLES
  wakeLock,                  \* the kernel's: it is held
  s_last_wake_timeout_info,  \* an address or None
  cancelled,                 \* contents of a UserCallbackInfo: userParam # NULL
  allocated,                 \* addresses not freed
  timers,                    \* timeouts in the timer list, soonest first
  pc, p_info,                \* of each thread: where it is, and the address it uses
  crashed,                   \* the process has died on a NULL pointer
  calls                      \* history: counter behind MaxCalls

vars == <<wakeLock, s_last_wake_timeout_info, cancelled, allocated, timers, pc, p_info, crashed, calls>>

Init ==
  /\ wakeLock = FALSE
  /\ s_last_wake_timeout_info = None
  /\ cancelled = [a \in Addresses |-> FALSE]
  /\ allocated = {}
  /\ timers = <<>>
  /\ pc = [t \in Threads |-> "idle"]
  /\ p_info = [t \in Threads |-> None]
  /\ crashed = FALSE
  /\ calls = 0

\* One step of a thread, while the process lives.
Goes(t, from, to) == ~crashed /\ pc[t] = from /\ pc' = [pc EXCEPT ![t] = to]

Uses(t, a) == p_info' = [p_info EXCEPT ![t] = a]

-----------------------------------------------------------------------------
(* RIL_onUnsolicitedResponse, for an event of wake type WAKE_PARTIAL.      *)

GrabPartialWakeLock(t) ==
  /\ Goes(t, "idle", "send")
  /\ calls < MaxCalls
  /\ calls' = calls + 1
  /\ wakeLock' = TRUE
  /\ UNCHANGED <<s_last_wake_timeout_info, cancelled, allocated, timers, p_info, crashed>>

\* Variant: the error exit forgets the lock.
ExitWithLock(t) ==
  /\ Goes(t, "send", "idle")
  /\ UNCHANGED <<wakeLock, s_last_wake_timeout_info, cancelled, allocated, timers, p_info,
                 crashed, calls>>

\* The event's data cannot be marshalled: nothing is sent.
ErrorExit(t) ==
  /\ Goes(t, "send", "idle")
  /\ wakeLock' = FALSE
  /\ UNCHANGED <<s_last_wake_timeout_info, cancelled, allocated, timers, p_info, crashed, calls>>

\* Variant: the timer the thread before has left will do.
KeepPrevious(t) ==
  /\ Goes(t, "send", IF s_last_wake_timeout_info = None THEN "add" ELSE "idle")
  /\ UNCHANGED <<wakeLock, s_last_wake_timeout_info, cancelled, allocated, timers, p_info,
                 crashed, calls>>

LookForPrevious(t) ==
  /\ Goes(t, "send", IF s_last_wake_timeout_info = None THEN "add" ELSE "cancel")
  /\ Uses(t, s_last_wake_timeout_info)
  /\ UNCHANGED <<wakeLock, s_last_wake_timeout_info, cancelled, allocated, timers, crashed, calls>>

\* "userParam = 1" through the pointer that was tested, or, as the compiler likes, through
\* the variable read once more.
CancelPrevious(t) ==
  \E a \in {p_info[t], s_last_wake_timeout_info} :
    /\ Goes(t, "cancel", "add")
    /\ \/ /\ a # None
          /\ cancelled' = [cancelled EXCEPT ![a] = TRUE]
          /\ UNCHANGED crashed
       \/ /\ a = None
          /\ crashed' = TRUE
          /\ UNCHANGED cancelled
    /\ UNCHANGED <<wakeLock, s_last_wake_timeout_info, allocated, timers, p_info, calls>>

\* internalRequestTimedCallback: every timeout is one second from now, so the new one
\* is the last to expire.
RequestTimeout(t) ==
  \E a \in Addresses \ allocated :
    /\ Goes(t, "add", "store")
    /\ allocated' = allocated \cup {a}
    /\ cancelled' = [cancelled EXCEPT ![a] = FALSE]
    /\ timers' = Append(timers, a)
    /\ Uses(t, a)
    /\ UNCHANGED <<wakeLock, s_last_wake_timeout_info, crashed, calls>>

StoreLast(t) ==
  /\ Goes(t, "store", "idle")
  /\ s_last_wake_timeout_info' = p_info[t]
  /\ Uses(t, None)
  /\ UNCHANGED <<wakeLock, cancelled, allocated, timers, crashed, calls>>

Reports(t) ==
  \/ ErrorExit(t) \/ LookForPrevious(t) \/ CancelPrevious(t)
  \/ RequestTimeout(t) \/ StoreLast(t)

-----------------------------------------------------------------------------
(* The event loop: userTimerCallback, with wakeTimeoutCallback.            *)

TimerExpires ==
  /\ timers # <<>>
  /\ Goes(Loop, "idle", "expired")
  /\ timers' = Tail(timers)
  /\ Uses(Loop, Head(timers))
  /\ UNCHANGED <<wakeLock, s_last_wake_timeout_info, cancelled, allocated, crashed, calls>>

WakeTimeoutCallback ==
  /\ Goes(Loop, "expired", "forget")
  /\ wakeLock' = (wakeLock /\ cancelled[p_info[Loop]])
  /\ UNCHANGED <<s_last_wake_timeout_info, cancelled, allocated, timers, p_info, crashed, calls>>

ForgetTimer ==
  /\ Goes(Loop, "forget", "idle")
  /\ s_last_wake_timeout_info' =
       IF s_last_wake_timeout_info = p_info[Loop] THEN None ELSE s_last_wake_timeout_info
  /\ allocated' = allocated \ {p_info[Loop]}
  /\ Uses(Loop, None)
  /\ UNCHANGED <<wakeLock, cancelled, timers, crashed, calls>>

Timeouts == TimerExpires \/ WakeTimeoutCallback \/ ForgetTimer

-----------------------------------------------------------------------------

Next ==
  \/ \E t \in Threads : GrabPartialWakeLock(t) \/ Reports(t)
  \/ Timeouts

Spec == Init /\ [][Next]_vars

\* Threads run and timers expire.
FairSpec ==
  /\ Spec
  /\ \A t \in Threads : WF_vars(Reports(t))
  /\ WF_vars(Timeouts)

-----------------------------------------------------------------------------
(* Properties.                                                             *)

TypeOK ==
  /\ wakeLock \in BOOLEAN /\ crashed \in BOOLEAN
  /\ s_last_wake_timeout_info \in Addresses \cup {None}
  /\ cancelled \in [Addresses -> BOOLEAN]
  /\ allocated \subseteq Addresses
  /\ timers \in Seq(Addresses)
  /\ pc \in [Threads -> {"idle", "send", "cancel", "add", "store", "expired", "forget"}]
  /\ p_info \in [Threads -> Addresses \cup {None}]
  /\ calls \in 0..MaxCalls

Running == ToSet(timers) \cup (IF pc[Loop] = "expired" THEN {p_info[Loop]} ELSE {})

\* While the lock is held somebody is going to release it: a thread that has not left its
\* timer yet, or a timer nobody has cancelled; cancelling one never loses the last
\* (RIL_onUnsolicitedResponse, wakeTimeoutCallback).
LockAccounted ==
  wakeLock =>
    \/ \E t \in Threads : pc[t] \in {"send", "cancel", "add"}
    \/ \E a \in Running : ~cancelled[a]

\* The device goes back to sleep: the lock does not stay held unless the process dies.
WakeLockReleased == wakeLock ~> (~wakeLock \/ crashed)
=============================================================================
