--------------------------- MODULE RilEvent_proofs ---------------------------
(***************************************************************************)
(* Proofs about RilEvent: its type invariant, the agreement of the event   *)
(* tables, the absence of lost wakeups, and that the loop implements       *)
(* EventService, for any number of events, timers, threads, descriptors    *)
(* and slots.                                                              *)
(***************************************************************************)
EXTENDS RilEvent, SequenceTheorems, FiniteSetTheorems, TLAPS

-----------------------------------------------------------------------------
(* Sequences *)

\* q is s with x at place p.
Inserted(s, p, x, q) ==
  /\ Len(q) = Len(s) + 1
  /\ \A i \in 1..(Len(s) + 1) : q[i] = IF i < p THEN s[i] ELSE IF i = p THEN x ELSE s[i - 1]

LEMMA InsertAtInserts ==
  ASSUME NEW S, NEW s \in Seq(S), NEW p \in 1..(Len(s) + 1), NEW x \in S
  PROVE  InsertAt(s, p, x) \in Seq(S) /\ Inserted(s, p, x, InsertAt(s, p, x))
<1> DEFINE a == SubSeq(s, 1, p - 1)
           b == SubSeq(s, p, Len(s))
           c == a \o <<x>>
           IsFront(q) == Len(q) = p /\ \A i \in 1..p : q[i] = IF i < p THEN s[i] ELSE x
           IsRest(q) == /\ Len(q) = Len(s) - p + 1
                      /\ \A i \in 1..(Len(s) - p + 1) : q[i] = s[p + i - 1]
           IsWhole(q) == q \in Seq(S) /\ Inserted(s, p, x, q)
<1>1. /\ a \in Seq(S)
      /\ Len(a) = p - 1
      /\ \A i \in 1..(p - 1) : a[i] = s[i]
  <2>1. \A i \in 1..(p - 1) : s[i] \in S
    OBVIOUS
  <2>2. QED BY <2>1, SubSeqProperties
<1>2. b \in Seq(S) /\ IsRest(b)
  <2>1. \A i \in p..Len(s) : s[i] \in S
    OBVIOUS
  <2>2. QED BY <2>1, SubSeqProperties
<1>3. c \in Seq(S) /\ IsFront(c)
  BY <1>1, ConcatProperties
<1>4. ASSUME NEW q \in Seq(S), NEW r \in Seq(S), IsFront(q), IsRest(r)
      PROVE IsWhole(q \o r)
  <2>1. /\ q \o r \in Seq(S)
        /\ Len(q \o r) = Len(q) + Len(r)
        /\ \A i \in 1..(Len(q) + Len(r)) :
             (q \o r)[i] = IF i <= Len(q) THEN q[i] ELSE r[i - Len(q)]
    BY ConcatProperties
  <2>2. ASSUME NEW i \in 1..(Len(s) + 1)
        PROVE (q \o r)[i] = IF i < p THEN s[i] ELSE IF i = p THEN x ELSE s[i - 1]
    <3>1. CASE i <= p
      BY <1>4, <2>1, <3>1
    <3>2. CASE i > p
      <4>1. i - p \in 1..(Len(s) - p + 1)
        BY <3>2
      <4>2. r[i - p] = s[p + (i - p) - 1]
        BY <1>4, <4>1
      <4>3. QED BY <1>4, <2>1, <3>2, <4>2
    <3>3. i <= p \/ i > p
      OBVIOUS
    <3>4. QED BY <3>1, <3>2, <3>3, Zenon
  <2>3. QED BY <1>4, <2>1, <2>2 DEF Inserted
<1>5. IsWhole(c \o b)
  <2> HIDE DEF a, b, c, IsFront, IsRest, IsWhole
  <2>1. QED BY <1>2, <1>3, <1>4, Zenon
<1>6. QED BY <1>5 DEF InsertAt

-----------------------------------------------------------------------------
(* Type correctness *)

\* What a thread inside libril is working on.
CallArgs ==
  \A t \in Threads :
    /\ pc[t] \in {"add", "addNfds"} => arg[t] \in FdEvents
    /\ pc[t] = "timer" => arg[t] \in Timers

TypeInv == TypeOK /\ CallArgs

LEMMA TypeInit == Init => TypeInv
<1> SUFFICES ASSUME Init PROVE TypeInv
  OBVIOUS
<1> USE EventsAssumption, NumbersAssumption DEF Init
<1>1. /\ timer_list \in Seq(Timers)
      /\ pending_list \in Seq(Events)
  OBVIOUS
<1>2. /\ mutex \in Threads \cup {None}
      /\ watch_table \in [Slots -> FdEvents \cup {None}]
      /\ fd \in [FdEvents -> Fds]
      /\ index \in [Events -> Slots \cup {-1}]
      /\ timeout \in [Timers -> 0..MaxTime]
  OBVIOUS
<1>3. /\ pc \in [Threads -> {"idle", "add", "addNfds", "timer", "trigger"}]
      /\ arg \in [Threads -> Events \cup {None}]
      /\ CallArgs
  BY DEF CallArgs
<1>4. /\ nfds \in Nat /\ slot \in 0..MAX_FD_EVENTS /\ now \in 0..MaxTime
      /\ tv = Forever /\ deadline = Forever /\ aim = Forever
      /\ readFds = {} /\ readable = {} /\ rfds = {} /\ requested = {} /\ fired = {}
  OBVIOUS
<1>5. QED BY <1>1, <1>2, <1>3, <1>4 DEF TypeInv, TypeOK

\* Taking an event off its slot keeps the types of the four tables.
LEMMA RemoveWatchType ==
  ASSUME TypeInv, NEW ev \in Events, NEW i \in Slots, RemoveWatch(ev, i)
  PROVE  /\ watch_table' \in [Slots -> FdEvents \cup {None}]
         /\ fd' \in [FdEvents -> Fds]
         /\ index' \in [Events -> Slots \cup {-1}]
         /\ readFds' \in SUBSET Fds
         /\ nfds' \in Nat
<1> USE NumbersAssumption DEF TypeInv, TypeOK, RemoveWatch
<1>1. \A e \in Watched \ {ev} : fd[e] \in Nat
  BY DEF Watched
<1>2. nfds' \in Nat
  BY <1>1
<1>3. QED BY <1>2

LEMMA TypeStep == TypeInv /\ [Next]_vars => TypeInv'
<1> USE DEF tables, timers, loop, env, calls, history
<1> SUFFICES ASSUME TypeInv, [Next]_vars PROVE TypeInv'
  OBVIOUS
<1> USE EventsAssumption, ThreadsAssumption, NumbersAssumption, DelTimersAssumption
    DEF TypeInv, TypeOK, CallArgs
<1>1. CASE CreatePipe
  BY <1>1 DEF CreatePipe, LoopStep, Enter, Threads, Events
<1>2. CASE EnterLoop
  BY <1>2 DEF EnterLoop, LoopStep
<1>3. CASE CopyReadFds
  BY <1>3 DEF CopyReadFds, LoopStep
<1>4. CASE CalcNextTimeout
  <2>1. timer_list # <<>> => timeout[Head(timer_list)] \in 0..MaxTime
    OBVIOUS
  <2>2. tv' \in Nat \cup {Forever}
    BY <1>4, <2>1 DEF CalcNextTimeout, TimeLeft
  <2>3. aim' \in 0..MaxTime \cup {Forever}
    BY <1>4, <2>1 DEF CalcNextTimeout
  <2>4. QED BY <1>4, <2>2, <2>3 DEF CalcNextTimeout, LoopStep
<1>5. CASE SelectCall
  <2>1. rfds' \in SUBSET Fds
    BY <1>5 DEF SelectCall
  <2>2. deadline' \in Nat \cup {Forever} /\ tv' \in Nat \cup {Forever}
    BY <1>5 DEF SelectCall
  <2>3. QED BY <1>5, <2>1, <2>2 DEF SelectCall, LoopStep
<1>6. CASE SelectReturn
  BY <1>6 DEF SelectReturn, LoopStep, Ready
<1>7. CASE SelectInterrupted
  BY <1>7 DEF SelectInterrupted, LoopStep
<1>8. CASE SelectFails
  BY <1>8 DEF SelectFails, LoopStep
<1>9. CASE ProcessTimeouts
  <2>1. PICK k \in 0..Len(timer_list) :
          /\ pending_list' = pending_list \o SubSeq(timer_list, 1, k)
          /\ timer_list' = SubSeq(timer_list, k + 1, Len(timer_list))
    BY <1>9 DEF ProcessTimeouts
  <2>2. /\ SubSeq(timer_list, 1, k) \in Seq(Timers)
        /\ SubSeq(timer_list, k + 1, Len(timer_list)) \in Seq(Timers)
    OBVIOUS
  <2>3. SubSeq(timer_list, 1, k) \in Seq(Events)
    BY <2>2 DEF Events
  <2>4. pending_list' \in Seq(Events)
    BY <2>1, <2>3
  <2>5. QED BY <1>9, <2>1, <2>2, <2>4 DEF ProcessTimeouts, LoopStep
<1>10. CASE BeginReadReadies
  BY <1>10 DEF BeginReadReadies, LoopStep, Threads
<1>11. CASE ScanSlot
  <2>1. slot \in Slots /\ slot' \in 0..MAX_FD_EVENTS
    BY <1>11 DEF ScanSlot, Slots
  <2>2. CASE SlotReady
    <3>1. watch_table[slot] \in FdEvents /\ watch_table[slot] \in Events
      BY <2>1, <2>2 DEF SlotReady, Events
    <3>2. /\ watch_table' \in [Slots -> FdEvents \cup {None}]
          /\ fd' \in [FdEvents -> Fds]
          /\ index' \in [Events -> Slots \cup {-1}]
          /\ readFds' \in SUBSET Fds
          /\ nfds' \in Nat
      <4>1. CASE watch_table[slot] \in Persist
        BY <1>11, <2>2, <4>1 DEF ScanSlot
      <4>2. CASE watch_table[slot] \notin Persist
        <5>1. RemoveWatch(watch_table[slot], slot)
          BY <1>11, <2>2, <4>2 DEF ScanSlot
        <5>2. QED BY <2>1, <3>1, <5>1, RemoveWatchType
      <4>3. QED BY <4>1, <4>2
    <3>3. pending_list' \in Seq(Events)
      <4>1. pending_list' = Append(pending_list, watch_table[slot])
        BY <1>11, <2>2, Zenon DEF ScanSlot
      <4>2. QED BY <3>1, <4>1
    <3>4. rfds' \in SUBSET Fds
      BY <1>11, <2>2, <3>1 DEF ScanSlot
    <3>5. QED BY <1>11, <2>1, <3>2, <3>3, <3>4 DEF ScanSlot, LoopStep
  <2>3. CASE ~SlotReady
    BY <1>11, <2>1, <2>3 DEF ScanSlot, LoopStep
  <2>4. QED BY <2>2, <2>3
<1>12. CASE EndReadReadies
  BY <1>12 DEF EndReadReadies, LoopStep
<1>13. CASE FirePending
  <2>1. cur' \in Events /\ pending_list' \in Seq(Events)
    BY <1>13 DEF FirePending
  <2>2. readable' \in SUBSET Fds /\ fired' \in SUBSET Timers
    BY <1>13 DEF FirePending
  <2>3. QED BY <1>13, <2>1, <2>2 DEF FirePending, LoopStep
<1>14. CASE DrainWakeup
  BY <1>14 DEF DrainWakeup, LoopStep
<1>15. CASE CallbackReturns
  BY <1>15 DEF CallbackReturns, LoopStep
<1>16. CASE FireDone
  BY <1>16 DEF FireDone, LoopStep
<1>17. ASSUME NEW e \in Events, EventDel(e) PROVE TypeInv'
  <2>1. CASE index[e] \in Slots
    BY <1>17, <2>1, RemoveWatchType DEF EventDel
  <2>2. CASE index[e] \notin Slots
    <3>1. /\ mutex' = Loop
          /\ UNCHANGED <<tables, timers, pending_list, loop, env, calls, history>>
      BY <1>17, <2>2, Zenon DEF EventDel
    <3>2. QED BY <3>1 DEF Threads
  <2>3. QED BY <2>1, <2>2
<1>18. ASSUME NEW t \in Threads, EventAddTable(t) PROVE TypeInv'
  <2>1. arg[t] \in FdEvents /\ arg[t] \in Events
    BY <1>18 DEF EventAddTable, Events
  <2>2. /\ watch_table' \in [Slots -> FdEvents \cup {None}]
        /\ index' \in [Events -> Slots \cup {-1}]
        /\ readFds' \in SUBSET Fds
    <3>1. CASE \E i \in Slots : watch_table[i] = None
      <4>1. PICK i \in Slots :
              /\ watch_table' = [watch_table EXCEPT ![i] = arg[t]]
              /\ index' = [index EXCEPT ![arg[t]] = i]
              /\ readFds' = readFds \cup {fd[arg[t]]}
        BY <1>18, <3>1, Zenon DEF EventAddTable
      <4>2. watch_table' \in [Slots -> FdEvents \cup {None}]
        BY <2>1, <4>1
      <4>3. index' \in [Events -> Slots \cup {-1}]
        <5>1. i \in Slots \cup {-1}
          OBVIOUS
        <5> HIDE DEF CallArgs
        <5>2. QED BY <2>1, <4>1, <5>1
      <4>4. readFds' \in SUBSET Fds
        <5>1. fd[arg[t]] \in Fds
          BY <2>1
        <5>2. QED BY <4>1, <5>1
      <4>5. QED BY <4>2, <4>3, <4>4
    <3>2. CASE ~\E i \in Slots : watch_table[i] = None
      BY <1>18, <3>2 DEF EventAddTable
    <3>3. QED BY <3>1, <3>2
  <2>3. QED BY <1>18, <2>1, <2>2 DEF EventAddTable
<1>19. ASSUME NEW t \in Threads, EventAddNfds(t) PROVE TypeInv'
  <2>1. arg[t] \in FdEvents
    BY <1>19 DEF EventAddNfds
  <2>2. nfds' \in Nat
    <3>1. fd[arg[t]] \in Nat
      BY <2>1
    <3>2. QED BY <1>19, <3>1 DEF EventAddNfds
  <2>3. QED BY <1>19, <2>2 DEF EventAddNfds, Leave
<1>20. ASSUME NEW t \in Threads, TimerAdd(t) PROVE TypeInv'
  <2>1. arg[t] \in Timers
    BY <1>20 DEF TimerAdd
  <2>2. PICK d \in Delays, p \in 1..(Len(timer_list) + 1) :
          /\ now + d < MaxTime
          /\ timeout' = [timeout EXCEPT ![arg[t]] = now + d]
          /\ timer_list' = InsertAt(timer_list, p, arg[t])
    BY <1>20 DEF TimerAdd
  <2>3. timer_list' \in Seq(Timers)
    BY <2>1, <2>2, InsertAtInserts
  <2>4. timeout' \in [Timers -> 0..MaxTime]
    BY <2>1, <2>2
  <2>5. QED BY <1>20, <2>3, <2>4 DEF TimerAdd, Leave
<1>21. ASSUME NEW t \in Threads, TriggerEvLoop(t) PROVE TypeInv'
  BY <1>21 DEF TriggerEvLoop
<1>22. ASSUME NEW t \in Threads, NEW e \in FdEvents, NEW f \in Fds, CallEventAdd(t, e, f)
       PROVE TypeInv'
  BY <1>22 DEF CallEventAdd, Enter, Events
<1>23. ASSUME NEW t \in Threads, NEW m \in Timers, CallTimerAdd(t, m) PROVE TypeInv'
  BY <1>23 DEF CallTimerAdd, Enter, Events
<1>24. CASE Tick
  BY <1>24 DEF Tick
<1>25. ASSUME NEW f \in Fds, InputArrives(f) PROVE TypeInv'
  BY <1>25 DEF InputArrives
<1>26. CASE UNCHANGED vars
  BY <1>26 DEF vars
<1>27. QED
  BY <1>1, <1>2, <1>3, <1>4, <1>5, <1>6, <1>7, <1>8, <1>9, <1>10, <1>11, <1>12, <1>13,
     <1>14, <1>15, <1>16, <1>17, <1>18, <1>19, <1>20, <1>21, <1>22, <1>23, <1>24, <1>25,
     <1>26 DEF Next, LoopThread, InLibril

LEMMA TypeInvariant == Spec => []TypeInv
BY TypeInit, TypeStep, PTL DEF Spec

\* Every variable keeps its range; in particular the time left handed to
\* select() is never negative (calcNextTimeout clamps it) and the loop never
\* indexes outside watch_table.
THEOREM TypeCorrect == Spec => []TypeOK
<1>1. TypeInv => TypeOK
  BY DEF TypeInv
<1>2. QED BY <1>1, TypeInvariant, PTL

-----------------------------------------------------------------------------
(* The tables agree *)

\* The slots and the index fields are inverse to each other, and no timer has a
\* slot.
SlotsAgree ==
  /\ \A e \in FdEvents, i \in Slots : watch_table[i] = e <=> index[e] = i
  /\ \A m \in Timers : index[m] = -1

BitsAgree == readFds = {fd[e] : e \in Watched}

\* nfds is behind only for the event that is being added right now.
NfdsCovers ==
  \A e \in Watched :
    fd[e] < nfds \/ (mutex # None /\ pc[mutex] = "addNfds" /\ arg[mutex] = e)

\* Who may hold the mutex, and when the loop thread is inside libril.
MutexHeld ==
  /\ \A t \in Threads : pc[t] = "addNfds" => mutex = t
  /\ lpc = "scan" => mutex = Loop
  /\ pc[Loop] # "idle" => lpc \in {"booted", "callback"}

\* An event about to be added is in no slot, and only one thread adds it.
AddsApart ==
  /\ \A t \in Threads : pc[t] = "add" => arg[t] \notin Watched
  /\ \A t, u \in Threads : pc[t] = "add" /\ pc[u] = "add" /\ arg[t] = arg[u] => t = u

\* No two events in use share a descriptor, and the pipe's is the loop's own.
FdsApart ==
  /\ \A x, y \in Watched \cup Adding : fd[x] = fd[y] => x = y
  /\ \A x \in Watched \cup Adding : fd[x] = WakeFd => x = WakeEv
  /\ fd[WakeEv] = WakeFd
  /\ lpc = "boot" => WakeEv \notin Watched \cup Adding

TablesInv ==
  SlotsAgree /\ BitsAgree /\ NfdsCovers /\ MutexHeld /\ AddsApart /\ FdsApart

LEMMA TablesInit == Init => TablesInv
<1> SUFFICES ASSUME Init PROVE TablesInv
  OBVIOUS
<1> USE EventsAssumption, ThreadsAssumption, NumbersAssumption DEF Init
<1>1. Watched = {} /\ Adding = {}
  BY DEF Watched, Adding, Events
<1>2. SlotsAgree
  BY DEF SlotsAgree, Events, Slots
<1>3. BitsAgree /\ NfdsCovers /\ FdsApart
  BY <1>1 DEF BitsAgree, NfdsCovers, FdsApart
<1>4. MutexHeld /\ AddsApart
  BY DEF MutexHeld, AddsApart, Threads
<1>5. QED BY <1>2, <1>3, <1>4 DEF TablesInv

\* An event is watched when its index says so.
LEMMA WatchedIndex ==
  ASSUME TypeOK, SlotsAgree, NEW e \in FdEvents
  PROVE  e \in Watched <=> index[e] # -1
BY NumbersAssumption DEF TypeOK, SlotsAgree, Watched, Events, Slots

\* A step that touches neither the tables nor the calls in progress, and does
\* not enter the scan.
LEMMA TablesFrame ==
  ASSUME TablesInv, UNCHANGED <<mutex, tables, calls>>,
         lpc' = lpc \/ (pc[Loop] = "idle" /\ lpc' \notin {"scan", "boot"})
  PROVE  TablesInv'
<1> USE DEF tables, calls
<1>1. Watched' = Watched /\ Adding' = Adding
  BY DEF Watched, Adding
<1>2. SlotsAgree' /\ BitsAgree' /\ NfdsCovers' /\ AddsApart'
  BY <1>1 DEF TablesInv, SlotsAgree, BitsAgree, NfdsCovers, AddsApart
<1>3. MutexHeld'
  BY DEF TablesInv, MutexHeld
<1>4. FdsApart'
  BY <1>1 DEF TablesInv, FdsApart
<1>5. QED BY <1>2, <1>3, <1>4 DEF TablesInv

LEMMA TablesCallEventAdd ==
  ASSUME TypeInv, TablesInv, NEW t \in Threads, NEW e \in FdEvents, NEW f \in Fds,
         CallEventAdd(t, e, f)
  PROVE  TablesInv'
<1> USE EventsAssumption, ThreadsAssumption
    DEF TypeInv, TypeOK, CallEventAdd, MayCall, Enter
<1>1. /\ e \notin Watched \cup Adding /\ e # WakeEv
      /\ index[e] = -1
      /\ pc[t] = "idle"
  BY WatchedIndex DEF TablesInv
<1>2. index' = index
  BY <1>1 DEF Events
<1>3. Watched' = Watched
  BY DEF Watched
<1>4. /\ Adding' = Adding \cup {e}
      /\ \A x \in Watched \cup Adding : fd'[x] = fd[x]
  <2>1. \A u \in Threads : pc'[u] = IF u = t THEN "add" ELSE pc[u]
    OBVIOUS
  <2>2. \A u \in Threads : arg'[u] = IF u = t THEN e ELSE arg[u]
    OBVIOUS
  <2>3. Adding' = Adding \cup {e}
    BY <1>1, <2>1, <2>2 DEF Adding
  <2>4. Watched \cup Adding \subseteq FdEvents
    BY DEF Watched, Adding, CallArgs
  <2>5. QED BY <1>1, <2>3, <2>4
<1>5. SlotsAgree' /\ BitsAgree'
  BY <1>2, <1>3, <1>4 DEF TablesInv, SlotsAgree, BitsAgree
<1>6. NfdsCovers'
  <2>1. \A x \in Watched : fd'[x] < nfds \/ (mutex # None /\ pc[mutex] = "addNfds" /\ arg[mutex] = x)
    BY <1>4 DEF TablesInv, NfdsCovers
  <2>2. mutex # None /\ pc[mutex] = "addNfds" => pc'[mutex] = pc[mutex] /\ arg'[mutex] = arg[mutex]
    BY <1>1
  <2>3. QED BY <1>3, <2>1, <2>2 DEF NfdsCovers
<1>7. MutexHeld'
  <2>1. mutex' = mutex /\ lpc' = lpc /\ (t = Loop => lpc = "callback")
    BY DEF loop
  <2>2. \A u \in Threads : pc'[u] = IF u = t THEN "add" ELSE pc[u]
    OBVIOUS
  <2>3. Loop \in Threads
    BY DEF Threads
  <2>4. QED BY <1>1, <2>1, <2>2, <2>3 DEF TablesInv, MutexHeld
<1>8. AddsApart'
  <2>1. \A u \in Threads : pc'[u] = IF u = t THEN "add" ELSE pc[u]
    OBVIOUS
  <2>2. \A u \in Threads : arg'[u] = IF u = t THEN e ELSE arg[u]
    OBVIOUS
  <2>3. \A u \in Threads : pc[u] = "add" => arg[u] # e
    BY <1>1 DEF Adding
  <2>4. QED BY <1>1, <1>3, <2>1, <2>2, <2>3 DEF TablesInv, AddsApart
<1>9. FdsApart'
  <2>1. fd'[e] = f /\ f # WakeFd /\ \A x \in Watched \cup Adding : f # fd[x]
    BY <1>1 DEF InUse
  <2>2. lpc' = lpc /\ fd'[WakeEv] = fd[WakeEv]
    BY <1>1 DEF loop
  <2>3. QED BY <1>1, <1>3, <1>4, <2>1, <2>2 DEF TablesInv, FdsApart
<1>10. QED BY <1>5, <1>6, <1>7, <1>8, <1>9 DEF TablesInv

LEMMA TablesEventAddTable ==
  ASSUME TypeInv, TablesInv, NEW t \in Threads, EventAddTable(t)
  PROVE  TablesInv'
<1> USE EventsAssumption, ThreadsAssumption, NumbersAssumption DEF TypeInv, TypeOK
<1> DEFINE e == arg[t]
<1>1. /\ pc[t] = "add" /\ e \in FdEvents /\ e \in Events
      /\ mutex = None /\ mutex' = t /\ t # None
      /\ fd' = fd /\ nfds' = nfds /\ arg' = arg /\ lpc' = lpc
      /\ pc' = [pc EXCEPT ![t] = "addNfds"]
  BY DEF EventAddTable, CallArgs, Events, Threads, loop
<1>2. /\ e \notin Watched /\ index[e] = -1
      /\ \A u \in Threads : pc[u] # "addNfds"
      /\ lpc # "scan"
  BY <1>1, WatchedIndex DEF TablesInv, AddsApart, MutexHeld, Threads
<1>3. \A u \in Threads : pc'[u] = IF u = t THEN "addNfds" ELSE pc[u]
  BY <1>1
<1>4. /\ SlotsAgree' /\ BitsAgree'
      /\ Watched \subseteq Watched' /\ Watched' \subseteq Watched \cup {e}
  <2>1. CASE \E i \in Slots : watch_table[i] = None
    <3>1. PICK i \in Slots :
            /\ watch_table[i] = None
            /\ watch_table' = [watch_table EXCEPT ![i] = e]
            /\ index' = [index EXCEPT ![e] = i]
            /\ readFds' = readFds \cup {fd[e]}
      BY <2>1, Zenon DEF EventAddTable
    <3>2. \A j \in Slots : watch_table'[j] = IF j = i THEN e ELSE watch_table[j]
      <4>1. watch_table \in [Slots -> FdEvents \cup {None}]
        OBVIOUS
      <4> HIDE DEF TypeInv, TypeOK
      <4>2. QED BY <3>1, <4>1
    <3>3. \A x \in Events : index'[x] = IF x = e THEN i ELSE index[x]
      BY <1>1, <3>1
    <3>4. Watched' = Watched \cup {e}
      <4>1. watch_table'[i] = e /\ i \in Slots
        BY <3>2
      <4>2. \A j \in Slots : watch_table'[j] # e => watch_table'[j] = watch_table[j]
        BY <3>2
      <4>3. \A j \in Slots \ {i} : watch_table'[j] = watch_table[j]
        BY <3>2
      <4>4. watch_table[i] \notin FdEvents
        BY <3>1, EventsAssumption DEF Events
      <4>5. e \in FdEvents
        BY <1>1
      <4> HIDE DEF e, TypeInv, TypeOK
      <4>6. ASSUME NEW x \in Watched' PROVE x \in Watched \cup {e}
        BY <4>2, <4>6 DEF Watched
      <4>7. ASSUME NEW x \in Watched PROVE x \in Watched'
        BY <4>3, <4>4, <4>7 DEF Watched
      <4>8. e \in Watched'
        BY <4>1, <4>5 DEF Watched
      <4>9. QED BY <4>6, <4>7, <4>8
    <3>5. \A j \in Slots : watch_table[j] # e
      BY <1>1, <1>2 DEF Watched
    <3>6. \A x \in FdEvents : index[x] # i
      BY <3>1 DEF TablesInv, SlotsAgree, Events
    <3>7. SlotsAgree'
      <4>1. ASSUME NEW x \in FdEvents, NEW j \in Slots
            PROVE watch_table'[j] = x <=> index'[x] = j
        <5>1. x \in Events /\ (watch_table[j] = x <=> index[x] = j)
          BY DEF TablesInv, SlotsAgree, Events
        <5>2. QED BY <3>2, <3>3, <3>5, <3>6, <5>1
      <4>2. \A m \in Timers : index'[m] = -1
        BY <1>1, <3>3 DEF TablesInv, SlotsAgree, Events
      <4>3. QED BY <4>1, <4>2 DEF SlotsAgree
    <3>8. BitsAgree'
      BY <1>1, <3>1, <3>4 DEF TablesInv, BitsAgree
    <3>9. QED BY <3>4, <3>7, <3>8
  <2>2. CASE ~\E i \in Slots : watch_table[i] = None
    <3>1. UNCHANGED <<watch_table, index, readFds>>
      BY <2>2 DEF EventAddTable
    <3>2. Watched' = Watched
      BY <3>1 DEF Watched
    <3>3. QED BY <1>1, <3>1, <3>2 DEF TablesInv, SlotsAgree, BitsAgree
  <2>3. QED BY <2>1, <2>2
<1>5. NfdsCovers'
  BY <1>1, <1>3, <1>4 DEF TablesInv, NfdsCovers
<1>6. MutexHeld'
  BY <1>1, <1>2, <1>3 DEF TablesInv, MutexHeld, Threads
<1>7. AddsApart'
  BY <1>1, <1>3, <1>4 DEF TablesInv, AddsApart
<1>8. FdsApart'
  <2>1. Watched' \cup Adding' \subseteq Watched \cup Adding
    BY <1>1, <1>3, <1>4 DEF Adding
  <2>2. QED BY <1>1, <2>1 DEF TablesInv, FdsApart
<1>9. QED BY <1>4, <1>5, <1>6, <1>7, <1>8 DEF TablesInv

LEMMA TablesEventAddNfds ==
  ASSUME TypeInv, TablesInv, NEW t \in Threads, EventAddNfds(t)
  PROVE  TablesInv'
<1> USE EventsAssumption, ThreadsAssumption, NumbersAssumption DEF TypeInv, TypeOK
<1> DEFINE e == arg[t]
<1>1. /\ pc[t] = "addNfds" /\ mutex = t /\ mutex' = None /\ e \in FdEvents
      /\ UNCHANGED <<watch_table, fd, index, readFds, lpc>>
  BY DEF EventAddNfds, CallArgs, TablesInv, MutexHeld, loop
<1>2. \A u \in Threads : pc'[u] \notin {"add", "addNfds"} \/ (u # t /\ pc'[u] = pc[u])
  BY DEF EventAddNfds, Leave
<1>3. \A u \in Threads : u # t => arg'[u] = arg[u]
  BY DEF EventAddNfds, Leave
<1>4. \A u \in Threads : pc[u] = "addNfds" => u = t
  BY <1>1 DEF TablesInv, MutexHeld
<1>5. lpc # "scan"
  BY <1>1 DEF TablesInv, MutexHeld
<1>6. Watched' = Watched
  BY <1>1 DEF Watched
<1>7. NfdsCovers'
  <2> SUFFICES ASSUME NEW x \in Watched PROVE fd[x] < nfds'
    BY <1>1, <1>6 DEF NfdsCovers
  <2>1. x \in FdEvents /\ fd[x] \in Nat
    BY DEF Watched
  <2>2. nfds' = IF index[e] # -1 /\ fd[e] >= nfds THEN fd[e] + 1 ELSE nfds
    BY DEF EventAddNfds
  <2>3. fd[e] \in Nat
    BY <1>1
  <2>4. CASE x = e
    <3>1. index[e] # -1
      BY <1>1, <2>4, WatchedIndex DEF TablesInv
    <3>2. QED BY <2>2, <2>3, <2>4, <3>1
  <2>5. CASE x # e
    <3>1. fd[x] < nfds
      BY <1>1, <2>5 DEF TablesInv, NfdsCovers
    <3>2. QED BY <2>1, <2>2, <2>3, <3>1
  <2>6. QED BY <2>4, <2>5
<1>8. SlotsAgree' /\ BitsAgree'
  BY <1>1, <1>6 DEF TablesInv, SlotsAgree, BitsAgree
<1>9. MutexHeld'
  <2>1. pc'[Loop] # "idle" => pc[Loop] # "idle"
    BY <1>1 DEF EventAddNfds, Leave, Threads
  <2>2. QED BY <1>1, <1>2, <1>4, <1>5, <2>1 DEF TablesInv, MutexHeld
<1>10. AddsApart'
  BY <1>2, <1>3, <1>6 DEF TablesInv, AddsApart
<1>11. FdsApart'
  <2>1. Adding' \subseteq Adding
    BY <1>2, <1>3 DEF Adding
  <2>2. QED BY <1>1, <1>6, <2>1 DEF TablesInv, FdsApart
<1>12. QED BY <1>7, <1>8, <1>9, <1>10, <1>11 DEF TablesInv

\* A step of one call that stays clear of the tables and of ril_event_add.
LEMMA TablesOtherCall ==
  ASSUME TypeInv, TablesInv, NEW t \in Threads, UNCHANGED <<mutex, tables, lpc>>,
         pc[t] \notin {"add", "addNfds"},
         pc' \in [Threads -> {"idle", "add", "addNfds", "timer", "trigger"}],
         pc'[t] \notin {"add", "addNfds"},
         t = Loop /\ pc'[t] # "idle" => lpc \in {"booted", "callback"},
         \A u \in Threads \ {t} : pc'[u] = pc[u] /\ arg'[u] = arg[u]
  PROVE  TablesInv'
<1> USE ThreadsAssumption DEF TypeInv, TypeOK, tables
<1>1. Watched' = Watched
  BY DEF Watched
<1>2. Adding' = Adding
  <2>1. \A u \in Threads : pc'[u] = "add" <=> pc[u] = "add"
    OBVIOUS
  <2>2. \A u \in Threads : pc[u] = "add" => arg'[u] = arg[u]
    OBVIOUS
  <2>3. {u \in Threads : pc'[u] = "add"} = {u \in Threads : pc[u] = "add"}
    BY <2>1
  <2>4. QED BY <2>2, <2>3 DEF Adding
<1>3. SlotsAgree' /\ BitsAgree'
  BY <1>1 DEF TablesInv, SlotsAgree, BitsAgree
<1>4. NfdsCovers'
  BY <1>1 DEF TablesInv, NfdsCovers
<1>5. MutexHeld'
  BY DEF TablesInv, MutexHeld, Threads
<1>6. AddsApart'
  BY <1>1 DEF TablesInv, AddsApart
<1>8. FdsApart'
  BY <1>1, <1>2 DEF TablesInv, FdsApart
<1>7. QED BY <1>3, <1>4, <1>5, <1>6, <1>8 DEF TablesInv

LEMMA TablesCreatePipe ==
  ASSUME TypeInv, TablesInv, CreatePipe
  PROVE  TablesInv'
<1> USE EventsAssumption, ThreadsAssumption DEF TypeInv, TypeOK
<1>1. /\ lpc = "boot" /\ lpc' = "booted" /\ pc[Loop] = "idle" /\ Loop \in Threads
      /\ pc' = [pc EXCEPT ![Loop] = "add"]
      /\ arg' = [arg EXCEPT ![Loop] = WakeEv]
      /\ UNCHANGED <<mutex, watch_table, index, readFds, nfds>>
      /\ WakeEv \in FdEvents
  BY DEF CreatePipe, LoopStep, Enter, Threads
<1>2. WakeEv \notin Watched \cup Adding /\ fd' = fd
  BY <1>1 DEF CreatePipe, TablesInv, FdsApart
<1>3. \A u \in Threads : /\ pc'[u] = IF u = Loop THEN "add" ELSE pc[u]
                         /\ arg'[u] = IF u = Loop THEN WakeEv ELSE arg[u]
  BY <1>1
<1>4. Watched' = Watched /\ Adding' = Adding \cup {WakeEv}
  BY <1>1, <1>3 DEF Watched, Adding
<1>5. SlotsAgree' /\ BitsAgree'
  BY <1>1, <1>2, <1>4 DEF TablesInv, SlotsAgree, BitsAgree
<1>6. NfdsCovers'
  <2>1. mutex # None /\ pc[mutex] = "addNfds" => pc'[mutex] = "addNfds" /\ arg'[mutex] = arg[mutex]
    BY <1>1, <1>3
  <2>2. QED BY <1>1, <1>2, <1>4, <2>1 DEF TablesInv, NfdsCovers
<1>7. MutexHeld'
  BY <1>1, <1>3 DEF TablesInv, MutexHeld
<1>8. AddsApart'
  <2>1. \A u \in Threads : pc[u] = "add" => arg[u] # WakeEv
    BY <1>2 DEF Adding
  <2>2. \A u \in Threads : pc'[u] = "add" => arg'[u] \notin Watched'
    BY <1>2, <1>3, <1>4 DEF TablesInv, AddsApart
  <2>3. \A u, v \in Threads :
          pc'[u] = "add" /\ pc'[v] = "add" /\ arg'[u] = arg'[v] => u = v
    BY <1>3, <2>1 DEF TablesInv, AddsApart
  <2>4. QED BY <2>2, <2>3 DEF AddsApart
<1>9. FdsApart'
  BY <1>1, <1>2, <1>4 DEF TablesInv, FdsApart
<1>10. QED BY <1>5, <1>6, <1>7, <1>8, <1>9 DEF TablesInv

\* removeWatch while the mutex is free, or held by the scan.
LEMMA TablesRemoveWatch ==
  ASSUME TypeInv, TablesInv, NEW ev \in FdEvents, NEW i \in Slots, watch_table[i] = ev,
         RemoveWatch(ev, i), UNCHANGED <<mutex, calls, lpc>>,
         \A u \in Threads : pc[u] # "addNfds"
  PROVE  TablesInv' /\ Watched' = Watched \ {ev}
<1> USE EventsAssumption, NumbersAssumption DEF TypeInv, TypeOK, calls
<1>1. /\ watch_table' = [watch_table EXCEPT ![i] = None]
      /\ index' = [index EXCEPT ![ev] = -1]
      /\ readFds' = readFds \ {fd[ev]}
      /\ fd' = fd
      /\ ev \in Events /\ index[ev] = i
  BY DEF RemoveWatch, TablesInv, SlotsAgree, Events
<1>2. \A j \in Slots : watch_table'[j] = IF j = i THEN None ELSE watch_table[j]
  BY <1>1
<1>3. \A x \in Events : index'[x] = IF x = ev THEN -1 ELSE index[x]
  BY <1>1
<1>4. SlotsAgree'
  <2>1. ASSUME NEW x \in FdEvents, NEW j \in Slots
        PROVE watch_table'[j] = x <=> index'[x] = j
    <3>1. /\ x \in Events /\ x # None /\ j # -1
          /\ (watch_table[j] = x <=> index[x] = j)
          /\ (watch_table[j] = ev <=> index[ev] = j)
      BY DEF TablesInv, SlotsAgree, Events, Slots
    <3>2. QED BY <1>1, <1>2, <1>3, <3>1
  <2>2. \A m \in Timers : index'[m] = -1
    BY <1>3 DEF TablesInv, SlotsAgree, Events
  <2>3. QED BY <2>1, <2>2 DEF SlotsAgree
<1>5. Watched' = Watched \ {ev}
  <2>1. ASSUME NEW x \in FdEvents PROVE x \in Watched' <=> x \in Watched /\ x # ev
    <3>1. /\ (x \in Watched <=> index[x] \in Slots)
          /\ (x \in Watched' <=> index'[x] \in Slots)
      BY <1>4 DEF Watched, TablesInv, SlotsAgree
    <3>2. index'[x] = IF x = ev THEN -1 ELSE index[x]
      BY <1>3 DEF Events
    <3>3. -1 \notin Slots
      BY DEF Slots
    <3>4. QED BY <3>1, <3>2, <3>3
  <2>2. Watched \subseteq FdEvents /\ Watched' \subseteq FdEvents
    BY DEF Watched
  <2>3. QED BY <2>1, <2>2
<1>6. ev \in Watched
  BY DEF Watched
<1>7. BitsAgree'
  BY <1>1, <1>5, <1>6 DEF TablesInv, BitsAgree, FdsApart
<1>8. NfdsCovers'
  <2> SUFFICES ASSUME NEW x \in Watched, x # ev PROVE fd[x] < nfds'
    BY <1>1, <1>5 DEF NfdsCovers
  <2>1. x \in FdEvents /\ fd[x] \in Nat /\ fd[ev] \in Nat
    BY DEF Watched
  <2>2. fd[x] < nfds
    BY DEF TablesInv, NfdsCovers
  <2>3. CASE fd[ev] + 1 = nfds
    <3>1. PICK h \in {0} \cup {fd[y] : y \in Watched \ {ev}} :
            /\ \A g \in {0} \cup {fd[y] : y \in Watched \ {ev}} : g <= h
            /\ nfds' = h + 1
      BY <2>3 DEF RemoveWatch
    <3>2. fd[x] <= h
      BY <3>1
    <3>3. h \in Nat
      BY <3>1 DEF Watched
    <3>4. QED BY <2>1, <3>1, <3>2, <3>3
  <2>4. CASE fd[ev] + 1 # nfds
    BY <2>2, <2>4 DEF RemoveWatch
  <2>5. QED BY <2>3, <2>4
<1>9. MutexHeld'
  BY DEF TablesInv, MutexHeld
<1>10. Adding' = Adding
  BY DEF Adding
<1>11. AddsApart' /\ FdsApart'
  <2>1. AddsApart'
    BY <1>5 DEF TablesInv, AddsApart
  <2>2. FdsApart'
    BY <1>1, <1>5, <1>10 DEF TablesInv, FdsApart
  <2>3. QED BY <2>1, <2>2
<1>12. QED BY <1>4, <1>5, <1>7, <1>8, <1>9, <1>11 DEF TablesInv

LEMMA TablesEventDel ==
  ASSUME TypeInv, TablesInv, NEW e \in Events, EventDel(e)
  PROVE  TablesInv'
<1> USE EventsAssumption, ThreadsAssumption, NumbersAssumption, DelTimersAssumption
<1>1. /\ mutex = None
      /\ \A u \in Threads : pc[u] # "addNfds"
      /\ lpc = "callback" /\ lpc' = lpc /\ UNCHANGED calls
  BY DEF EventDel, MayCall, TablesInv, MutexHeld, Threads, loop
<1>2. CASE index[e] \in Slots
  <2>1. e \in FdEvents /\ watch_table[index[e]] = e
    BY <1>2 DEF TypeInv, TypeOK, TablesInv, SlotsAgree, Events, Slots
  <2>2. RemoveWatch(e, index[e]) /\ mutex' = mutex
    BY <1>2 DEF EventDel
  <2>3. QED BY <1>1, <1>2, <2>1, <2>2, TablesRemoveWatch
<1>3. CASE index[e] \notin Slots
  <2>1. mutex' = Loop /\ UNCHANGED tables
    BY <1>3 DEF EventDel
  <2>2. Watched' = Watched /\ Adding' = Adding
    BY <1>1, <2>1 DEF Watched, Adding, tables, calls
  <2>3. SlotsAgree' /\ BitsAgree' /\ AddsApart' /\ FdsApart'
    BY <1>1, <2>1, <2>2
       DEF TablesInv, SlotsAgree, BitsAgree, AddsApart, FdsApart, tables, calls
  <2>4. NfdsCovers'
    BY <1>1, <2>1, <2>2 DEF TablesInv, NfdsCovers, tables, calls
  <2>5. MutexHeld'
    BY <1>1 DEF TablesInv, MutexHeld, calls
  <2>6. QED BY <2>3, <2>4, <2>5 DEF TablesInv
<1>4. QED BY <1>2, <1>3

LEMMA TablesScan ==
  ASSUME TypeInv, TablesInv, ScanSlot
  PROVE  TablesInv'
<1> USE EventsAssumption, ThreadsAssumption, NumbersAssumption DEF TypeInv, TypeOK
<1>1. /\ slot \in Slots
      /\ lpc = "scan" /\ lpc' = lpc /\ pc[Loop] = "idle"
      /\ UNCHANGED <<mutex, calls>>
  BY DEF ScanSlot, LoopStep, Slots
<1>2. \A u \in Threads : pc[u] # "addNfds"
  BY <1>1 DEF TablesInv, MutexHeld
<1>3. CASE UNCHANGED tables
  BY <1>1, <1>3, TablesFrame
<1>4. CASE ~UNCHANGED tables
  <2>1. SlotReady /\ RemoveWatch(watch_table[slot], slot)
    BY <1>4 DEF ScanSlot
  <2>2. watch_table[slot] \in FdEvents
    BY <1>1, <2>1 DEF SlotReady
  <2>3. QED BY <1>1, <1>2, <2>1, <2>2, TablesRemoveWatch
<1>5. QED BY <1>3, <1>4

\* The scan takes the mutex and gives it back.
LEMMA TablesScanEnds ==
  ASSUME TypeInv, TablesInv, BeginReadReadies \/ EndReadReadies
  PROVE  TablesInv'
<1> USE EventsAssumption, ThreadsAssumption DEF tables, calls
<1>1. /\ UNCHANGED <<tables, calls>> /\ pc[Loop] = "idle"
      /\ \/ mutex = None /\ mutex' = Loop /\ lpc' = "scan"
         \/ lpc = "scan" /\ mutex' = None /\ lpc' = "fire"
  BY DEF BeginReadReadies, EndReadReadies, LoopStep
<1>2. \A u \in Threads : pc[u] # "addNfds"
  BY <1>1 DEF TablesInv, MutexHeld, Threads
<1>3. Watched' = Watched /\ Adding' = Adding
  BY <1>1 DEF Watched, Adding
<1>4. SlotsAgree' /\ BitsAgree' /\ AddsApart' /\ FdsApart'
  BY <1>1, <1>3 DEF TablesInv, SlotsAgree, BitsAgree, AddsApart, FdsApart
<1>5. NfdsCovers'
  <2>1. mutex \in Threads \cup {None}
    BY DEF TypeInv, TypeOK
  <2>2. \A x \in Watched : fd[x] < nfds
    BY <1>2, <2>1 DEF TablesInv, NfdsCovers
  <2>3. QED BY <1>1, <1>3, <2>2 DEF NfdsCovers
<1>6. MutexHeld'
  BY <1>1, <1>2 DEF MutexHeld
<1>7. QED BY <1>4, <1>5, <1>6 DEF TablesInv

LEMMA TablesStep == TypeInv /\ TypeInv' /\ TablesInv /\ [Next]_vars => TablesInv'
<1> SUFFICES ASSUME TypeInv, TypeInv', TablesInv, [Next]_vars PROVE TablesInv'
  OBVIOUS
<1> USE DEF loop
<1>1. CASE CreatePipe
  BY <1>1, TablesCreatePipe
<1>2. CASE EnterLoop \/ CopyReadFds \/ CalcNextTimeout \/ SelectCall
  BY <1>2, TablesFrame DEF EnterLoop, CopyReadFds, CalcNextTimeout, SelectCall, LoopStep
<1>3. CASE SelectReturn \/ SelectInterrupted \/ SelectFails
  BY <1>3, TablesFrame DEF SelectReturn, SelectInterrupted, SelectFails, LoopStep
<1>4. CASE ProcessTimeouts
  BY <1>4, TablesFrame DEF ProcessTimeouts, LoopStep
<1>5. CASE BeginReadReadies \/ EndReadReadies
  BY <1>5, TablesScanEnds
<1>6. CASE ScanSlot
  BY <1>6, TablesScan
<1>7. CASE FirePending \/ DrainWakeup \/ CallbackReturns \/ FireDone
  BY <1>7, TablesFrame DEF FirePending, DrainWakeup, CallbackReturns, FireDone, LoopStep
<1>8. ASSUME NEW e \in Events, EventDel(e) PROVE TablesInv'
  BY <1>8, TablesEventDel
<1>9. ASSUME NEW t \in Threads, EventAddTable(t) \/ EventAddNfds(t) PROVE TablesInv'
  BY <1>9, TablesEventAddTable, TablesEventAddNfds
<1>10. ASSUME NEW t \in Threads, TimerAdd(t) PROVE TablesInv'
  <2>1. /\ UNCHANGED <<mutex, tables, lpc>> /\ pc[t] = "timer"
        /\ pc' = [pc EXCEPT ![t] = IF t = Loop THEN "idle" ELSE "trigger"]
        /\ arg' = [arg EXCEPT ![t] = None]
    BY <1>10 DEF TimerAdd, Leave
  <2>2. QED BY <2>1, TablesOtherCall DEF TypeInv, TypeOK
<1>11. ASSUME NEW t \in Threads, TriggerEvLoop(t) PROVE TablesInv'
  <2>1. /\ UNCHANGED <<mutex, tables, lpc, arg>> /\ pc[t] = "trigger"
        /\ pc' = [pc EXCEPT ![t] = "idle"]
    BY <1>11 DEF TriggerEvLoop
  <2>2. QED BY <2>1, TablesOtherCall DEF TypeInv, TypeOK
<1>12. ASSUME NEW t \in Threads, NEW e \in FdEvents, NEW f \in Fds, CallEventAdd(t, e, f)
       PROVE TablesInv'
  BY <1>12, TablesCallEventAdd
<1>13. ASSUME NEW t \in Threads, NEW m \in Timers, CallTimerAdd(t, m) PROVE TablesInv'
  <2>1. /\ UNCHANGED <<mutex, tables, lpc>> /\ pc[t] = "idle"
        /\ t = Loop => lpc = "callback"
        /\ pc' = [pc EXCEPT ![t] = "timer"]
        /\ arg' = [arg EXCEPT ![t] = m]
    BY <1>13 DEF CallTimerAdd, MayCall, Enter
  <2>2. QED BY <2>1, TablesOtherCall DEF TypeInv, TypeOK
<1>14. CASE Tick
  BY <1>14, TablesFrame DEF Tick
<1>15. ASSUME NEW f \in Fds, InputArrives(f) PROVE TablesInv'
  BY <1>15, TablesFrame DEF InputArrives
<1>16. CASE UNCHANGED vars
  BY <1>16, TablesFrame DEF vars
<1>17. QED
  BY <1>1, <1>2, <1>3, <1>4, <1>5, <1>6, <1>7, <1>8, <1>9, <1>10, <1>11, <1>12, <1>13,
     <1>14, <1>15, <1>16 DEF Next, LoopThread, InLibril

LEMMA TablesInvariant == Spec => [](TypeInv /\ TablesInv)
BY TypeInit, TypeStep, TablesInit, TablesStep, PTL DEF Spec

\* ril_event_add and removeWatch keep the slots, the index fields, readFds and
\* nfds in step, whichever thread adds while the loop removes.
THEOREM TablesCorrect == Spec => []TablesAgree
<1>1. TablesInv => TablesAgree
  BY DEF TablesInv, TablesAgree, SlotsAgree, BitsAgree, NfdsCovers
<1>2. QED BY <1>1, TablesInvariant, PTL

-----------------------------------------------------------------------------
(* No lost wakeup *)

\* Once it has booted the loop watches the pipe, which no other thread adds
\* and no handler removes; what it is about to sleep on is up to date or a byte
\* is on its way.
WakeWatched ==
  /\ \A t \in Adders : arg[t] # WakeEv
  /\ lpc = "booted" => WakeEv \in Watched \/ (pc[Loop] = "add" /\ arg[Loop] = WakeEv)
  /\ lpc \notin {"boot", "booted"} => WakeEv \in Watched

SleepFresh ==
  /\ lpc \in {"calc", "select", "blocked"} =>
       WakeFd \in rfds /\ (~WakeupComing => rfds = readFds)
  /\ lpc \in {"select", "blocked"} /\ ~WakeupComing /\ timer_list # <<>> =>
       aim # Forever /\ aim <= timeout[Head(timer_list)]

WakeInv == WakeWatched /\ SleepFresh

\* watch_table has room for every event of the program (ril.cpp has four, the
\* table eight slots); ril_event_add drops an event that finds no slot.
EnoughSlots == IsFiniteSet(FdEvents) /\ Cardinality(FdEvents) <= MAX_FD_EVENTS

\* Then an event that is not watched finds a free slot.
LEMMA FreeSlot ==
  ASSUME EnoughSlots, TypeOK, SlotsAgree, NEW e \in FdEvents, e \notin Watched
  PROVE  \E i \in Slots : watch_table[i] = None
<1> USE NumbersAssumption DEF TypeOK
<1> SUFFICES ASSUME \A i \in Slots : watch_table[i] # None
             PROVE FALSE
  OBVIOUS
<1>1. watch_table \in [Slots -> FdEvents \ {e}]
  BY DEF Watched
<1>2. IsFiniteSet(Slots) /\ Cardinality(Slots) = MAX_FD_EVENTS
  BY FS_Interval DEF Slots
<1>3. IsFiniteSet(FdEvents \ {e}) /\ Cardinality(FdEvents \ {e}) = Cardinality(FdEvents) - 1
  BY FS_RemoveElement DEF EnoughSlots
<1>4. Cardinality(FdEvents) \in Nat
  BY FS_CardinalityType DEF EnoughSlots
<1>5. Cardinality(FdEvents \ {e}) < Cardinality(Slots)
  BY <1>2, <1>3, <1>4 DEF EnoughSlots
<1>6. PICK i, j \in Slots : i # j /\ watch_table[i] = watch_table[j]
  BY ONLY <1>1, <1>2, <1>3, <1>5, FS_PigeonHole
<1>7. watch_table[i] \in FdEvents
  BY <1>1
<1>8. QED BY <1>6, <1>7 DEF SlotsAgree

LEMMA WakeInit == Init => WakeInv
BY EventsAssumption DEF Init, WakeInv, WakeWatched, SleepFresh, Threads, Events

\* The pipe's event stays watched.
LEMMA WakeWatchedStep ==
  ASSUME EnoughSlots, TypeInv, TablesInv, WakeWatched, [Next]_vars
  PROVE  WakeWatched'
<1> USE EventsAssumption, ThreadsAssumption DEF loop, calls, tables, TypeInv, TypeOK
<1>0. WakeEv \in FdEvents /\ WakeEv \in Events /\ WakeEv # None /\ Loop \in Threads
  BY DEF Events, Threads
<1>1. CASE CreatePipe
  BY <1>0, <1>1 DEF CreatePipe, LoopStep, Enter, WakeWatched, Threads
<1>2. ASSUME UNCHANGED <<watch_table, calls>>,
             lpc' = lpc \/ (lpc # "boot" /\ pc[Loop] = "idle" /\ lpc' \notin {"boot", "booted"})
      PROVE WakeWatched'
  BY <1>2 DEF WakeWatched, Watched
<1>3. CASE EnterLoop \/ CopyReadFds \/ CalcNextTimeout \/ SelectCall
  BY <1>2, <1>3 DEF EnterLoop, CopyReadFds, CalcNextTimeout, SelectCall, LoopStep
<1>4. CASE SelectReturn \/ SelectInterrupted \/ SelectFails
  BY <1>2, <1>4 DEF SelectReturn, SelectInterrupted, SelectFails, LoopStep
<1>5. CASE ProcessTimeouts \/ BeginReadReadies \/ EndReadReadies
  BY <1>2, <1>5 DEF ProcessTimeouts, BeginReadReadies, EndReadReadies, LoopStep
<1>6. CASE FirePending \/ DrainWakeup \/ CallbackReturns \/ FireDone
  BY <1>2, <1>6 DEF FirePending, DrainWakeup, CallbackReturns, FireDone, LoopStep
<1>7. CASE Tick \/ (\E f \in Fds : InputArrives(f))
  BY <1>2, <1>7 DEF Tick, InputArrives
<1>8. CASE UNCHANGED vars
  BY <1>2, <1>8 DEF vars
<1>9. ASSUME NEW ev \in FdEvents, ev # WakeEv, NEW i \in Slots, watch_table[i] = ev,
             RemoveWatch(ev, i), UNCHANGED <<mutex, calls, lpc>>,
             \A u \in Threads : pc[u] # "addNfds"
      PROVE WakeWatched'
  <2>1. Watched' = Watched \ {ev}
    BY <1>9, TablesRemoveWatch
  <2>2. QED BY <1>9, <2>1 DEF WakeWatched
<1>10. CASE ScanSlot
  <2>1. /\ slot \in Slots /\ lpc = "scan" /\ UNCHANGED <<mutex, calls, lpc>>
        /\ pc[Loop] = "idle"
    BY <1>10, NumbersAssumption DEF ScanSlot, LoopStep, Slots
  <2>2. \A u \in Threads : pc[u] # "addNfds"
    BY <2>1 DEF TablesInv, MutexHeld
  <2>3. CASE UNCHANGED tables
    BY <1>2, <2>1, <2>3
  <2>4. CASE ~UNCHANGED tables
    <3>1. /\ SlotReady /\ RemoveWatch(watch_table[slot], slot)
          /\ watch_table[slot] \notin Persist
      BY <1>10, <2>4 DEF ScanSlot
    <3>2. watch_table[slot] \in FdEvents /\ watch_table[slot] # WakeEv
      BY <2>1, <3>1 DEF SlotReady
    <3>3. QED BY <1>9, <2>1, <2>2, <3>1, <3>2
  <2>5. QED BY <2>3, <2>4
<1>11. ASSUME NEW e \in Events, EventDel(e) PROVE WakeWatched'
  <2>1. /\ mutex = None /\ UNCHANGED <<calls, lpc>> /\ cur # WakeEv
        /\ \A u \in Threads : pc[u] # "addNfds"
        /\ e # WakeEv
    BY <1>11, DelTimersAssumption DEF EventDel, MayCall, TablesInv, MutexHeld, Threads
  <2>2. CASE index[e] \in Slots
    <3>1. RemoveWatch(e, index[e]) /\ mutex' = mutex
      BY <1>11, <2>2 DEF EventDel
    <3>2. e \in FdEvents /\ watch_table[index[e]] = e
      BY <2>2 DEF TablesInv, SlotsAgree, Events, Slots
    <3>3. QED BY <1>9, <2>1, <2>2, <3>1, <3>2
  <2>3. CASE index[e] \notin Slots
    BY <1>2, <1>11, <2>1, <2>3 DEF EventDel
  <2>4. QED BY <2>2, <2>3
<1>12. ASSUME NEW t \in Threads, EventAddTable(t) PROVE WakeWatched'
  <2>1. /\ pc[t] = "add" /\ arg[t] \in FdEvents /\ arg[t] \notin Watched
        /\ pc' = [pc EXCEPT ![t] = "addNfds"] /\ arg' = arg /\ lpc' = lpc
    BY <1>12 DEF EventAddTable, CallArgs, TablesInv, AddsApart
  <2>2. PICK i \in Slots :
          /\ watch_table[i] = None
          /\ watch_table' = [watch_table EXCEPT ![i] = arg[t]]
    <3>1. \E i \in Slots : watch_table[i] = None
      BY <2>1, FreeSlot DEF TablesInv
    <3>2. QED BY <1>12, <3>1, Zenon DEF EventAddTable
  <2>3. \A j \in Slots : watch_table'[j] = IF j = i THEN arg[t] ELSE watch_table[j]
    BY <2>2
  <2>4. Watched \subseteq Watched' /\ arg[t] \in Watched'
    <3>1. arg[t] \in Watched'
      BY <2>1, <2>3 DEF Watched
    <3>2. ASSUME NEW x \in Watched PROVE x \in Watched'
      BY <2>2, <2>3, Zenon DEF Watched, Events
    <3>3. QED BY <3>1, <3>2
  <2>5. QED BY <1>0, <2>1, <2>4 DEF WakeWatched
<1>13. ASSUME NEW t \in Threads, EventAddNfds(t) \/ TimerAdd(t) PROVE WakeWatched'
  <2>1. /\ UNCHANGED <<watch_table, lpc>> /\ pc[t] # "add"
        /\ \A u \in Threads \ {t} : pc'[u] = pc[u] /\ arg'[u] = arg[u]
        /\ arg'[t] = None
    BY <1>13 DEF EventAddNfds, TimerAdd, Leave
  <2>2. QED BY <1>0, <2>1 DEF WakeWatched, Watched, Threads
<1>14. ASSUME NEW t \in Threads, TriggerEvLoop(t) PROVE WakeWatched'
  <2>1. /\ UNCHANGED <<watch_table, lpc, arg>> /\ pc[t] = "trigger"
        /\ \A u \in Threads \ {t} : pc'[u] = pc[u]
    BY <1>14 DEF TriggerEvLoop
  <2>2. QED BY <1>0, <2>1 DEF WakeWatched, Watched
<1>15. ASSUME NEW t \in Threads, NEW e \in Events, e # WakeEv,
              UNCHANGED <<watch_table, lpc>>, MayCall(t),
              arg' = [arg EXCEPT ![t] = e],
              \A u \in Threads \ {t} : pc'[u] = pc[u]
       PROVE WakeWatched'
  BY <1>0, <1>15 DEF WakeWatched, Watched, MayCall, Threads
<1>16. ASSUME NEW t \in Threads, NEW e \in FdEvents, NEW f \in Fds, CallEventAdd(t, e, f)
       PROVE WakeWatched'
  BY <1>15, <1>16 DEF CallEventAdd, Enter, Events
<1>17. ASSUME NEW t \in Threads, NEW m \in Timers, CallTimerAdd(t, m) PROVE WakeWatched'
  BY <1>0, <1>15, <1>17 DEF CallTimerAdd, Enter, Events
<1>18. QED
  BY <1>1, <1>3, <1>4, <1>5, <1>6, <1>7, <1>8, <1>10, <1>11, <1>12, <1>13, <1>14,
     <1>16, <1>17 DEF Next, LoopThread, InLibril

\* While the loop is on its way to sleep, or asleep, only other threads act on
\* the tables, and each of them has a write to the pipe ahead of it.
LEMMA SleepFreshStep ==
  ASSUME TypeInv, TypeInv', TablesInv, WakeWatched, SleepFresh, [Next]_vars
  PROVE  SleepFresh'
<1> USE EventsAssumption, ThreadsAssumption, NumbersAssumption
    DEF loop, calls, tables, timers, env, history, TypeInv, TypeOK
<1> DEFINE Falling == {"calc", "select", "blocked"}
\* Steps that end outside the window.
<1>1. ASSUME lpc' \notin Falling PROVE SleepFresh'
  BY <1>1 DEF SleepFresh
<1>2. CASE CreatePipe \/ EnterLoop \/ SelectReturn \/ SelectInterrupted \/ SelectFails
           \/ ProcessTimeouts \/ BeginReadReadies \/ ScanSlot \/ EndReadReadies
           \/ FirePending \/ DrainWakeup \/ CallbackReturns \/ FireDone
  <2>1. lpc' \notin Falling
    BY <1>2, Zenon
       DEF CreatePipe, EnterLoop, SelectReturn, SelectInterrupted, SelectFails,
           ProcessTimeouts, BeginReadReadies, ScanSlot, EndReadReadies,
           FirePending, DrainWakeup, CallbackReturns, FireDone, LoopStep
  <2>2. QED BY <1>1, <2>1
<1>3. ASSUME lpc = "callback", lpc' = lpc PROVE SleepFresh'
  BY <1>1, <1>3
\* The loop's own way through the window.
<1>4. CASE CopyReadFds
  <2>1. lpc = "copy" /\ lpc' = "calc" /\ rfds' = readFds /\ readFds' = readFds
    BY <1>4 DEF CopyReadFds, LoopStep
  <2>2. WakeEv \in Watched
    BY <2>1 DEF WakeWatched
  <2>3. WakeFd \in readFds
    BY <2>2 DEF TablesInv, BitsAgree, FdsApart
  <2>4. QED BY <2>1, <2>3 DEF SleepFresh
<1>5. CASE CalcNextTimeout
  <2>1. /\ lpc = "calc" /\ lpc' = "select"
        /\ UNCHANGED <<rfds, readFds, wakeup, pc, timer_list, timeout>>
    BY <1>5 DEF CalcNextTimeout, LoopStep
  <2>2. WakeupComing' <=> WakeupComing
    BY <2>1 DEF WakeupComing
  <2>3. timer_list # <<>> =>
          aim' = timeout[Head(timer_list)] /\ timeout[Head(timer_list)] \in 0..MaxTime
    BY <1>5 DEF CalcNextTimeout
  <2>4. QED BY <2>1, <2>2, <2>3 DEF SleepFresh, Forever
<1>6. CASE SelectCall
  <2>1. /\ lpc = "select" /\ lpc' = "blocked" /\ pc[Loop] = "idle"
        /\ rfds' = {f \in rfds : f < nfds}
        /\ UNCHANGED <<readFds, wakeup, pc, timer_list, timeout, aim>>
    BY <1>6 DEF SelectCall, LoopStep
  <2>2. WakeupComing' <=> WakeupComing
    BY <2>1 DEF WakeupComing
  <2>3. ASSUME NEW e \in Watched PROVE fd[e] < nfds \/ (WakeupComing /\ e # WakeEv)
    BY <2>1 DEF TablesInv, NfdsCovers, WakeupComing, WakeWatched, Threads
  <2>4. WakeFd < nfds
    BY <2>1, <2>3 DEF WakeWatched, TablesInv, FdsApart
  <2>5. ~WakeupComing => rfds' = readFds
    <3>1. ~WakeupComing => rfds = readFds /\ \A f \in readFds : f < nfds
      BY <2>1, <2>3 DEF SleepFresh, TablesInv, BitsAgree
    <3>2. QED BY <2>1, <3>1
  <2>6. QED BY <2>1, <2>2, <2>4, <2>5 DEF SleepFresh
\* The other threads.
<1>7. ASSUME NEW t \in Threads, t \in Adders => WakeupComing',
             pc[t] # "idle", UNCHANGED <<lpc, rfds>>
      PROVE SleepFresh'
  <2>1. t = Loop => lpc \notin Falling
    BY <1>7 DEF TablesInv, MutexHeld
  <2>2. QED BY <1>1, <1>7, <2>1 DEF SleepFresh, Threads
<1>8. ASSUME NEW t \in Threads, EventAddTable(t) PROVE SleepFresh'
  <2>1. pc[t] = "add" /\ pc' = [pc EXCEPT ![t] = "addNfds"] /\ UNCHANGED <<lpc, rfds>>
    BY <1>8 DEF EventAddTable
  <2>2. QED BY <1>7, <2>1 DEF WakeupComing
<1>9. ASSUME NEW t \in Threads, EventAddNfds(t) \/ TimerAdd(t) PROVE SleepFresh'
  <2>1. /\ pc[t] \in {"addNfds", "timer"} /\ UNCHANGED <<lpc, rfds>>
        /\ pc' = [pc EXCEPT ![t] = IF t = Loop THEN "idle" ELSE "trigger"]
    BY <1>9 DEF EventAddNfds, TimerAdd, Leave
  <2>2. t \in Adders => WakeupComing'
    BY <2>1 DEF WakeupComing
  <2>3. QED BY <1>7, <2>1, <2>2
<1>10. ASSUME NEW t \in Threads, TriggerEvLoop(t) PROVE SleepFresh'
  <2>1. /\ pc[t] = "trigger" /\ UNCHANGED <<lpc, rfds>>
        /\ wakeup' = (wakeup \/ lpc # "boot")
    BY <1>10 DEF TriggerEvLoop
  <2>2. CASE lpc \notin Falling
    BY <1>1, <2>1, <2>2
  <2>3. CASE lpc \in Falling
    BY <1>7, <2>1, <2>3 DEF WakeupComing
  <2>4. QED BY <2>2, <2>3
<1>11. ASSUME NEW t \in Threads, MayCall(t),
              UNCHANGED <<lpc, rfds, readFds, wakeup, timer_list, timeout, aim>>,
              \A u \in Threads \ {t} : pc'[u] = pc[u]
       PROVE SleepFresh'
  <2>1. WakeupComing => WakeupComing'
    BY <1>11 DEF WakeupComing, MayCall, Threads
  <2>2. QED BY <1>11, <2>1 DEF SleepFresh
<1>12. ASSUME NEW t \in Threads, NEW e \in FdEvents, NEW f \in Fds, CallEventAdd(t, e, f)
       PROVE SleepFresh'
  BY <1>11, <1>12 DEF CallEventAdd, Enter
<1>13. ASSUME NEW t \in Threads, NEW m \in Timers, CallTimerAdd(t, m) PROVE SleepFresh'
  BY <1>11, <1>13 DEF CallTimerAdd, Enter
<1>14. ASSUME NEW e \in Events, EventDel(e) PROVE SleepFresh'
  BY <1>3, <1>14 DEF EventDel, MayCall
<1>15. ASSUME UNCHANGED <<lpc, rfds, readFds, wakeup, timer_list, timeout, aim, pc>>
       PROVE SleepFresh'
  BY <1>15 DEF SleepFresh, WakeupComing
<1>16. CASE Tick \/ (\E f \in Fds : InputArrives(f)) \/ UNCHANGED vars
  BY <1>15, <1>16 DEF Tick, InputArrives, vars
<1>17. QED
  BY <1>2, <1>4, <1>5, <1>6, <1>8, <1>9, <1>10, <1>12, <1>13, <1>14, <1>16
     DEF Next, LoopThread, InLibril

\* No lost wakeup: whatever other threads add while the loop decides what to
\* sleep on, either the loop's view is up to date or the pipe will wake it.
THEOREM WakeupNotLost ==
  ASSUME EnoughSlots
  PROVE  Spec => []NoLostWakeup
<1>1. TypeInv /\ TypeInv' /\ TablesInv /\ WakeInv /\ [Next]_vars => WakeInv'
  BY WakeWatchedStep, SleepFreshStep DEF WakeInv
<1>2. WakeInv => NoLostWakeup
  BY DEF WakeInv, SleepFresh, NoLostWakeup
<1>3. QED BY WakeInit, TablesInvariant, <1>1, <1>2, PTL DEF Spec

-----------------------------------------------------------------------------
(* The loop implements the service                                         *)

\* No element comes twice.
NoDup(s) == \A i, j \in 1..Len(s) : s[i] = s[j] => i = j

\* The timers of a list come in the order of their times.
InOrder(s) ==
  \A i, j \in 1..Len(s) :
    i < j /\ s[i] \in Timers /\ s[j] \in Timers => timeout[s[i]] <= timeout[s[j]]

LEMMA ToSetMembers ==
  ASSUME NEW S, NEW s \in Seq(S)
  PROVE  /\ \A x : x \in ToSet(s) <=> \E i \in 1..Len(s) : s[i] = x
         /\ ToSet(s) \subseteq S
BY DEF ToSet

LEMMA InsertOnce ==
  ASSUME NEW S, NEW s \in Seq(S), NEW p \in 1..(Len(s) + 1), NEW x \in S,
         NEW q \in Seq(S), Inserted(s, p, x, q), NoDup(s), x \notin ToSet(s)
  PROVE  NoDup(q) /\ ToSet(q) = ToSet(s) \cup {x}
<1>1. /\ q \in Seq(S) /\ Len(q) = Len(s) + 1
      /\ \A i \in 1..(Len(s) + 1) : q[i] = IF i < p THEN s[i] ELSE IF i = p THEN x ELSE s[i - 1]
  BY DEF Inserted
<1>2. \A i \in 1..Len(s) : s[i] # x
  BY ToSetMembers
<1>3. NoDup(q)
  <2>1. \A i \in 1..Len(q) :
          \/ i < p /\ i \in 1..Len(s) /\ q[i] = s[i]
          \/ i = p /\ q[i] = x
          \/ i > p /\ i - 1 \in 1..Len(s) /\ q[i] = s[i - 1]
    <3> TAKE i \in 1..Len(q)
    <3>1. q[i] = IF i < p THEN s[i] ELSE IF i = p THEN x ELSE s[i - 1]
      BY <1>1
    <3>2. CASE i < p
      BY <3>1, <3>2
    <3>3. CASE i = p
      BY <3>1, <3>3
    <3>4. CASE i > p
      <4>1. i - 1 \in 1..Len(s)
        BY <1>1, <3>4
      <4>2. QED BY <3>1, <3>4, <4>1
    <3>5. QED BY <3>2, <3>3, <3>4
  <2>2. ASSUME NEW i \in 1..Len(q), NEW j \in 1..Len(q), q[i] = q[j] PROVE i = j
    <3>1. CASE i = p \/ j = p
      <4>1. q[i] = x /\ q[j] = x
        BY <2>1, <2>2, <3>1
      <4>2. i = p
        <5>1. ~(i < p) /\ ~(i > p)
          BY <1>2, <2>1, <4>1
        <5>2. QED BY <5>1
      <4>3. j = p
        <5>1. ~(j < p) /\ ~(j > p)
          BY <1>2, <2>1, <4>1
        <5>2. QED BY <5>1
      <4>4. QED BY <4>2, <4>3
    <3>2. ASSUME NEW g \in 1..Len(s), NEW h \in 1..Len(s), s[g] = s[h] PROVE g = h
      BY <3>2 DEF NoDup
    <3>3. CASE i < p /\ j < p
      BY <2>1, <2>2, <3>2, <3>3
    <3>4. CASE i > p /\ j > p
      <4>1. i - 1 \in 1..Len(s) /\ j - 1 \in 1..Len(s) /\ s[i - 1] = s[j - 1]
        BY <2>1, <2>2, <3>4
      <4>2. i - 1 = j - 1
        BY <3>2, <4>1
      <4>3. QED BY <4>2
    <3>5. CASE i < p /\ j > p
      <4>1. i = j - 1
        BY <2>1, <2>2, <3>2, <3>5
      <4>2. QED BY <3>5, <4>1
    <3>6. CASE i > p /\ j < p
      <4>1. i - 1 = j
        BY <2>1, <2>2, <3>2, <3>6
      <4>2. QED BY <3>6, <4>1
    <3>7. QED BY <3>1, <3>3, <3>4, <3>5, <3>6
  <2>3. QED BY <2>2 DEF NoDup
<1>4. ASSUME NEW y \in ToSet(q) PROVE y \in ToSet(s) \cup {x}
  <2>1. PICK i \in 1..Len(q) : q[i] = y
    BY <1>1, ToSetMembers
  <2>2. CASE i < p
    BY <1>1, <2>1, <2>2, ToSetMembers
  <2>3. CASE i > p
    <3>1. i - 1 \in 1..Len(s) /\ y = s[i - 1]
      BY <1>1, <2>1, <2>3
    <3>2. QED BY <3>1, ToSetMembers
  <2>4. QED BY <1>1, <2>1, <2>2, <2>3
<1>5. ASSUME NEW i \in 1..Len(s) PROVE s[i] \in ToSet(q)
  <2>1. CASE i < p
    <3>1. i \in 1..Len(q) /\ q[i] = s[i]
      BY <1>1, <2>1
    <3>2. QED BY <1>1, <3>1, ToSetMembers
  <2>2. CASE i >= p
    <3>1. i + 1 \in 1..Len(q) /\ q[i + 1] = s[i]
      BY <1>1, <2>2
    <3>2. QED BY <1>1, <3>1, ToSetMembers
  <2>3. QED BY <2>1, <2>2
<1>6. x \in ToSet(q)
  <2>1. p \in 1..Len(q) /\ q[p] = x
    BY <1>1
  <2>2. QED BY <1>1, <2>1, ToSetMembers
<1>7. ToSet(q) = ToSet(s) \cup {x}
  BY <1>4, <1>5, <1>6, ToSetMembers
<1>8. QED BY <1>3, <1>7

LEMMA AppendOnce ==
  ASSUME NEW S, NEW s \in Seq(S), NEW x \in S, NoDup(s), x \notin ToSet(s)
  PROVE  NoDup(Append(s, x)) /\ ToSet(Append(s, x)) = ToSet(s) \cup {x}
<1>1. /\ Append(s, x) \in Seq(S) /\ Len(Append(s, x)) = Len(s) + 1
      /\ \A i \in 1..Len(s) : Append(s, x)[i] = s[i]
      /\ Append(s, x)[Len(s) + 1] = x
  OBVIOUS
<1>2. \A i \in 1..Len(s) : s[i] # x
  BY ToSetMembers
<1>3. NoDup(Append(s, x))
  BY <1>1, <1>2 DEF NoDup
<1>4. \A y : y \in ToSet(Append(s, x)) <=> y \in ToSet(s) \cup {x}
  <2>1. \A y : y \in ToSet(Append(s, x)) <=> \E i \in 1..Len(Append(s, x)) : Append(s, x)[i] = y
    BY <1>1, ToSetMembers
  <2>2. \A y : y \in ToSet(s) <=> \E i \in 1..Len(s) : s[i] = y
    BY ToSetMembers
  <2>3. \A i \in 1..Len(Append(s, x)) : i \in 1..Len(s) \/ i = Len(s) + 1
    BY <1>1
  <2>4. 1..Len(s) \subseteq 1..Len(Append(s, x)) /\ Len(s) + 1 \in 1..Len(Append(s, x))
    BY <1>1
  <2>5. QED BY <1>1, <2>1, <2>2, <2>3, <2>4
<1>5. QED BY <1>3, <1>4

LEMMA TailOnce ==
  ASSUME NEW S, NEW s \in Seq(S), s # <<>>, NoDup(s)
  PROVE  /\ NoDup(Tail(s)) /\ Head(s) \in ToSet(s)
         /\ ToSet(Tail(s)) = ToSet(s) \ {Head(s)}
         /\ \A i \in 1..Len(Tail(s)) : i + 1 \in 1..Len(s) /\ Tail(s)[i] = s[i + 1]
<1>1. /\ Tail(s) \in Seq(S) /\ Len(Tail(s)) = Len(s) - 1 /\ Len(s) \in Nat \ {0}
      /\ \A i \in 1..Len(Tail(s)) : i + 1 \in 1..Len(s) /\ Tail(s)[i] = s[i + 1]
      /\ Head(s) = s[1] /\ 1 \in 1..Len(s)
  OBVIOUS
<1>2. NoDup(Tail(s))
  BY <1>1 DEF NoDup
<1>3. \A i \in 1..Len(s) : i # 1 => i - 1 \in 1..Len(Tail(s)) /\ Tail(s)[i - 1] = s[i]
  BY <1>1
<1>4. ASSUME NEW y PROVE y \in ToSet(Tail(s)) <=> y \in ToSet(s) \ {Head(s)}
  <2>1. y \in ToSet(Tail(s)) <=> \E i \in 1..Len(Tail(s)) : Tail(s)[i] = y
    <3>1. ASSUME NEW q \in Seq(S) PROVE y \in ToSet(q) <=> \E i \in 1..Len(q) : q[i] = y
      BY ToSetMembers
    <3>2. QED BY <1>1, <3>1, Zenon
  <2>2. y \in ToSet(s) <=> \E i \in 1..Len(s) : s[i] = y
    BY ToSetMembers
  <2>3. ASSUME NEW i \in 1..Len(Tail(s)), Tail(s)[i] = y PROVE y \in ToSet(s) /\ y # Head(s)
    <3>1. i + 1 # 1 /\ i + 1 \in 1..Len(s) /\ s[i + 1] = y
      BY <1>1, <2>3
    <3>2. QED BY <1>1, <2>2, <3>1 DEF NoDup
  <2>4. ASSUME NEW i \in 1..Len(s), s[i] = y, y # Head(s) PROVE y \in ToSet(Tail(s))
    <3>1. i # 1
      BY <1>1, <2>4
    <3>2. i - 1 \in 1..Len(Tail(s)) /\ Tail(s)[i - 1] = y
      BY <1>3, <2>4, <3>1
    <3>3. \E j \in 1..Len(Tail(s)) : Tail(s)[j] = y
      BY <3>2, Zenon
    <3>4. QED BY <2>1, <3>3, Zenon
  <2>5. QED BY <2>1, <2>2, <2>3, <2>4
<1>5. Head(s) \in ToSet(s)
  BY <1>1, ToSetMembers
<1>6. QED BY <1>1, <1>2, <1>4, <1>5

\* a and b are the first k elements of s and the others.
Split(s, k, a, b) ==
  /\ Len(a) = k /\ \A i \in 1..k : a[i] = s[i]
  /\ Len(b) = Len(s) - k /\ \A i \in 1..Len(b) : b[i] = s[k + i]

LEMMA SplitOnce ==
  ASSUME NEW S, NEW s \in Seq(S), NEW k \in 0..Len(s), NoDup(s),
         NEW a \in Seq(S), NEW b \in Seq(S), Split(s, k, a, b)
  PROVE  /\ NoDup(a) /\ NoDup(b)
         /\ ToSet(s) = ToSet(a) \cup ToSet(b)
         /\ ToSet(a) \cap ToSet(b) = {}
<1> USE DEF Split
<1>1. \A i \in 1..Len(b) : k + i \in 1..Len(s)
  OBVIOUS
<1>2. NoDup(a) /\ NoDup(b)
  <2>1. NoDup(a)
    <3>1. ASSUME NEW i \in 1..Len(a), NEW j \in 1..Len(a), a[i] = a[j] PROVE i = j
      <4>1. i \in 1..Len(s) /\ j \in 1..Len(s) /\ s[i] = s[j]
        BY <3>1
      <4>2. QED BY <4>1 DEF NoDup
    <3>2. QED BY <3>1 DEF NoDup
  <2>2. NoDup(b)
    <3>1. ASSUME NEW i \in 1..Len(b), NEW j \in 1..Len(b), b[i] = b[j] PROVE i = j
      <4>1. k + i \in 1..Len(s) /\ k + j \in 1..Len(s) /\ s[k + i] = s[k + j]
        BY <1>1, <3>1
      <4>2. k + i = k + j
        BY <4>1 DEF NoDup
      <4>3. QED BY <4>2
    <3>2. QED BY <3>1 DEF NoDup
  <2>3. QED BY <2>1, <2>2
<1>3. /\ \A y : y \in ToSet(s) <=> \E i \in 1..Len(s) : s[i] = y
      /\ \A y : y \in ToSet(a) <=> \E i \in 1..k : a[i] = y
      /\ \A y : y \in ToSet(b) <=> \E i \in 1..Len(b) : b[i] = y
  <2>1. \A y : y \in ToSet(s) <=> \E i \in 1..Len(s) : s[i] = y
    BY ToSetMembers
  <2>2. \A y : y \in ToSet(a) <=> \E i \in 1..Len(a) : a[i] = y
    BY ToSetMembers
  <2>3. \A y : y \in ToSet(b) <=> \E i \in 1..Len(b) : b[i] = y
    BY ToSetMembers
  <2>4. QED BY <2>1, <2>2, <2>3
<1>4. ToSet(a) \cap ToSet(b) = {}
  <2>1. ASSUME NEW i \in 1..k, NEW j \in 1..Len(b) PROVE a[i] # b[j]
    <3>1. i \in 1..Len(s) /\ k + j \in 1..Len(s) /\ i # k + j
      BY <1>1
    <3>2. a[i] = s[i] /\ b[j] = s[k + j]
      OBVIOUS
    <3>3. QED BY <3>1, <3>2 DEF NoDup
  <2>2. ASSUME NEW y \in ToSet(a), y \in ToSet(b) PROVE FALSE
    <3>1. PICK i \in 1..k : a[i] = y
      BY <1>3, <2>2
    <3>2. PICK j \in 1..Len(b) : b[j] = y
      BY <1>3, <2>2
    <3>3. QED BY <2>1, <3>1, <3>2
  <2>3. QED BY <2>2
<1>5. ToSet(a) \cup ToSet(b) \subseteq ToSet(s)
  <2>1. ASSUME NEW i \in 1..k PROVE a[i] \in ToSet(s)
    <3>1. i \in 1..Len(s) /\ s[i] = a[i]
      OBVIOUS
    <3>2. QED BY <1>3, <3>1
  <2>2. ASSUME NEW i \in 1..Len(b) PROVE b[i] \in ToSet(s)
    <3>1. k + i \in 1..Len(s) /\ s[k + i] = b[i]
      BY <1>1
    <3>2. QED BY <1>3, <3>1
  <2>3. QED BY <1>3, <2>1, <2>2
<1>6. ASSUME NEW i \in 1..Len(s) PROVE s[i] \in ToSet(a) \cup ToSet(b)
  <2>1. CASE i <= k
    <3>1. i \in 1..k /\ a[i] = s[i]
      BY <2>1
    <3>2. QED BY <1>3, <3>1
  <2>2. CASE i > k
    <3>1. i - k \in 1..Len(b) /\ b[i - k] = s[i]
      BY <2>2
    <3>2. QED BY <1>3, <3>1
  <2>3. QED BY <2>1, <2>2
<1>7. ToSet(s) \subseteq ToSet(a) \cup ToSet(b)
  BY <1>3, <1>6
<1>8. QED BY <1>2, <1>4, <1>5, <1>7

\* A timer that is requested waits in one place: with the thread that adds it, in
\* timer_list, or in pending_list; and then it has fired.
TimersOnce ==
  /\ NoDup(timer_list) /\ NoDup(pending_list)
  /\ \A m \in ToSet(timer_list) : m \notin Pending /\ m \notin fired /\ m \in requested
  /\ \A m \in Pending \cap Timers : m \notin fired /\ m \in requested
  /\ fired \subseteq requested
  /\ \A t \in Threads : pc[t] = "timer" =>
       /\ arg[t] \in requested
       /\ arg[t] \notin ToSet(timer_list) \cup Pending \cup fired
  /\ \A t, u \in Threads : pc[t] = "timer" /\ pc[u] = "timer" /\ arg[t] = arg[u] => t = u

\* Both lists are in order of time, and what is pending is late and comes first.
TimersInOrder ==
  /\ InOrder(timer_list) /\ InOrder(pending_list)
  /\ \A m \in Pending \cap Timers :
       /\ timeout[m] < now
       /\ \A k \in ToSet(timer_list) : timeout[m] <= timeout[k]

\* Events are pending only from processTimeouts to firePending; the one whose
\* callback runs is not.
OneAtATime ==
  /\ lpc \notin {"readies", "scan", "fire", "callback"} => pending_list = <<>>
  /\ cur # None <=> lpc = "callback"
  /\ cur \notin Pending

\* A pending event is watched if it is persistent, and if it is not, it is neither
\* watched nor about to be; the scan has passed its slot.
QueuedEvents ==
  \A e \in Pending \cap FdEvents :
    /\ lpc \in {"scan", "fire", "callback"}
    /\ \A t \in Threads : pc[t] = "add" => arg[t] # e
    /\ e \in Persist <=> e \in Watched
    /\ lpc = "scan" => index[e] < slot

QueuesInv == TimersOnce /\ TimersInOrder /\ OneAtATime /\ QueuedEvents

LEMMA QueuesInit == Init => QueuesInv
<1> SUFFICES ASSUME Init PROVE QueuesInv
  OBVIOUS
<1>1. /\ timer_list = <<>> /\ pending_list = <<>> /\ fired = {} /\ cur = None /\ lpc = "boot"
      /\ \A t \in Threads : pc[t] = "idle"
  BY DEF Init
<1>2. ToSet(timer_list) = {} /\ Pending = {}
  BY <1>1 DEF Pending, ToSet
<1>3. TimersOnce
  BY <1>1, <1>2 DEF TimersOnce, NoDup
<1>4. TimersInOrder
  BY <1>1, <1>2 DEF TimersInOrder, InOrder
<1>5. OneAtATime /\ QueuedEvents
  BY <1>1, <1>2 DEF OneAtATime, QueuedEvents
<1>6. QED BY <1>3, <1>4, <1>5 DEF QueuesInv

\* What leaves the timers as they are, and starts no request.
LEMMA TimersFrame ==
  ASSUME TimersOnce, TimersInOrder,
         UNCHANGED <<timer_list, timeout, pending_list, requested, fired, now>>,
         \A t \in Threads : pc'[t] = "timer" => pc[t] = "timer" /\ arg'[t] = arg[t]
  PROVE  TimersOnce' /\ TimersInOrder'
<1>1. Pending' = Pending
  BY DEF Pending
<1>2. TimersOnce'
  BY <1>1 DEF TimersOnce, NoDup
<1>3. TimersInOrder'
  BY <1>1 DEF TimersInOrder, InOrder
<1>4. QED BY <1>2, <1>3

\* What leaves the loop and the pending events as they are.
LEMMA EventsFrame ==
  ASSUME OneAtATime, QueuedEvents, UNCHANGED <<pending_list, lpc, cur, slot>>,
         \A e \in Pending \cap FdEvents :
           /\ index'[e] = index[e] /\ (e \in Watched' <=> e \in Watched)
           /\ \A t \in Threads : pc'[t] = "add" => arg'[t] # e
  PROVE  OneAtATime' /\ QueuedEvents'
<1>1. Pending' = Pending
  BY DEF Pending
<1>2. OneAtATime'
  BY <1>1 DEF OneAtATime
<1>3. QueuedEvents'
  BY <1>1 DEF QueuedEvents
<1>4. QED BY <1>2, <1>3

\* A step of the loop that leaves the tables and the lists as they are.
LEMMA LoopFrame ==
  ASSUME TypeInv, QueuesInv,
         UNCHANGED <<tables, timers, pending_list, calls, requested, fired, now>>,
         lpc' \in {"readies", "scan", "fire", "callback"} \/ pending_list = <<>>,
         lpc' \in {"fire", "callback"} \/ Pending \cap FdEvents = {},
         cur' # None <=> lpc' = "callback",
         cur' \in {cur, None}
  PROVE  QueuesInv'
<1> USE DEF tables, timers, calls
<1>1. Pending' = Pending /\ Watched' = Watched
  BY DEF Pending, Watched
<1>2. TimersOnce' /\ TimersInOrder'
  BY TimersFrame DEF QueuesInv
<1>3. None \notin Pending
  BY EventsAssumption DEF TypeInv, TypeOK, Pending, ToSet
<1>4. OneAtATime'
  BY <1>1, <1>3 DEF QueuesInv, OneAtATime
<1>5. QueuedEvents'
  BY <1>1 DEF QueuesInv, QueuedEvents
<1>6. QED BY <1>2, <1>4, <1>5 DEF QueuesInv

\* What the service shows stays as it is.
ServiceStutter == UNCHANGED <<Service!svars>>

LEMMA Stutters ==
  ASSUME UNCHANGED <<now, timeout, fired, cur, watch_table, timer_list, pending_list>>
  PROVE  ServiceStutter
<1>1. Pending' = Pending /\ Watched' = Watched
  BY DEF Pending, Watched
<1>2. QED BY <1>1 DEF ServiceStutter, Service!svars

LEMMA PendingTypes ==
  ASSUME TypeInv
  PROVE  /\ Pending \subseteq Events /\ None \notin Pending /\ ToSet(timer_list) \subseteq Timers
         /\ \A x : x \in Pending <=> \E i \in 1..Len(pending_list) : pending_list[i] = x
         /\ \A x : x \in ToSet(timer_list) <=> \E i \in 1..Len(timer_list) : timer_list[i] = x
<1>1. pending_list \in Seq(Events) /\ timer_list \in Seq(Timers)
  BY DEF TypeInv, TypeOK
<1>2. /\ ToSet(pending_list) \subseteq Events
      /\ \A x : x \in ToSet(pending_list) <=> \E i \in 1..Len(pending_list) : pending_list[i] = x
  BY <1>1, ToSetMembers
<1>3. /\ ToSet(timer_list) \subseteq Timers
      /\ \A x : x \in ToSet(timer_list) <=> \E i \in 1..Len(timer_list) : timer_list[i] = x
  BY <1>1, ToSetMembers
<1>4. QED BY <1>2, <1>3, EventsAssumption DEF Pending

\* ril_timer_add keeps the list in order: it is a request of the service.
LEMMA QueuesTimerAdd ==
  ASSUME TypeInv, QueuesInv, NEW t \in Threads, TimerAdd(t)
  PROVE  QueuesInv' /\ Service!Request(arg[t])
<1> DEFINE m == arg[t]
<1>1. /\ pc[t] = "timer" /\ arg[t] \in Timers
      /\ UNCHANGED <<tables, pending_list, loop, env, history>>
      /\ \A u \in Threads : pc'[u] \in {"add", "timer"} => u # t /\ pc'[u] = pc[u]
      /\ \A u \in Threads : u # t => arg'[u] = arg[u]
  BY DEF TimerAdd, TypeInv, TypeOK, CallArgs, Leave
<1>2. PICK d \in Delays, p \in 1..(Len(timer_list) + 1) :
        /\ now + d < MaxTime
        /\ timeout' = [timeout EXCEPT ![m] = now + d]
        /\ TimerPosition(p, now + d)
        /\ timer_list' = InsertAt(timer_list, p, m)
  BY DEF TimerAdd
<1>3. /\ timer_list \in Seq(Timers) /\ pending_list \in Seq(Events)
      /\ now \in 0..MaxTime /\ d \in Nat /\ MaxTime \in Nat
      /\ timeout \in [Timers -> 0..MaxTime]
  BY NumbersAssumption DEF TypeInv, TypeOK
<1>4. /\ NoDup(timer_list) /\ m \in requested
      /\ m \notin ToSet(timer_list) \cup Pending \cup fired
  BY <1>1 DEF QueuesInv, TimersOnce
<1>5. /\ NoDup(timer_list') /\ ToSet(timer_list') = ToSet(timer_list) \cup {m}
      /\ timer_list' \in Seq(Timers) /\ Len(timer_list') = Len(timer_list) + 1
      /\ \A i \in 1..(Len(timer_list) + 1) :
           timer_list'[i] = IF i < p THEN timer_list[i]
                            ELSE IF i = p THEN m ELSE timer_list[i - 1]
  <2>1. timer_list' \in Seq(Timers) /\ Inserted(timer_list, p, m, timer_list')
    BY <1>1, <1>2, <1>3, InsertAtInserts
  <2>2. NoDup(timer_list') /\ ToSet(timer_list') = ToSet(timer_list) \cup {m}
    BY <1>1, <1>3, <1>4, <2>1, InsertOnce
  <2>3. QED BY <2>1, <2>2, Zenon DEF Inserted
<1>6. /\ Pending' = Pending /\ Watched' = Watched
      /\ timeout'[m] = now + d /\ \A k \in Timers : k # m => timeout'[k] = timeout[k]
  BY <1>1, <1>2, <1>3 DEF Pending, Watched, tables
<1>7. TimersOnce'
  <2>1. /\ pending_list' = pending_list /\ fired' = fired /\ requested' = requested
    BY <1>1 DEF history
  <2>2. NoDup(pending_list)' /\ NoDup(timer_list)'
    BY <1>5, <2>1 DEF QueuesInv, TimersOnce, NoDup
  <2>3. \A k \in ToSet(timer_list)' : k \notin Pending' /\ k \notin fired' /\ k \in requested'
    BY <1>4, <1>5, <1>6, <2>1 DEF QueuesInv, TimersOnce
  <2>4. \A u \in Threads : pc'[u] = "timer" =>
          /\ pc[u] = "timer" /\ arg'[u] = arg[u] /\ arg[u] # m
    BY <1>1 DEF QueuesInv, TimersOnce
  <2>5. \A u \in Threads : pc'[u] = "timer" =>
          /\ arg'[u] \in requested'
          /\ arg'[u] \notin ToSet(timer_list)' \cup Pending' \cup fired'
    BY <1>5, <1>6, <2>1, <2>4 DEF QueuesInv, TimersOnce
  <2>6. \A u, w \in Threads : pc'[u] = "timer" /\ pc'[w] = "timer" /\ arg'[u] = arg'[w] => u = w
    BY <2>4 DEF QueuesInv, TimersOnce
  <2>7. QED BY <1>6, <2>1, <2>2, <2>3, <2>5, <2>6 DEF QueuesInv, TimersOnce
<1>8. TimersInOrder'
  <2>1. /\ \A i \in 1..(p - 1) : timeout[timer_list[i]] < now + d
        /\ p <= Len(timer_list) => now + d <= timeout[timer_list[p]]
    BY <1>2 DEF TimerPosition
  <2>2. \A i \in 1..Len(timer_list) : timer_list[i] \in Timers /\ timer_list[i] # m
    BY <1>3, <1>4, PendingTypes
  <2>3. ASSUME NEW i \in 1..Len(timer_list), NEW j \in 1..Len(timer_list), i <= j
        PROVE timeout[timer_list[i]] <= timeout[timer_list[j]]
    <3>1. CASE i = j
      BY <1>3, <2>2, <3>1
    <3>2. CASE i < j
      BY <2>2, <3>2 DEF QueuesInv, TimersInOrder, InOrder
    <3>3. QED BY <2>3, <3>1, <3>2
  <2>4. \A i \in 1..Len(timer_list) :
          /\ timeout[timer_list[i]] \in Nat
          /\ i < p => timeout[timer_list[i]] <= now + d
          /\ i >= p => now + d <= timeout[timer_list[i]]
    <3> TAKE i \in 1..Len(timer_list)
    <3>1. timeout[timer_list[i]] \in Nat
      BY <1>3, <2>2
    <3>2. CASE i < p
      BY <1>3, <2>1, <3>1, <3>2
    <3>3. CASE i >= p
      <4>1. p \in 1..Len(timer_list) /\ timeout[timer_list[p]] <= timeout[timer_list[i]]
        BY <2>3, <3>3
      <4>2. timeout[timer_list[p]] \in Nat
        BY <1>3, <2>2, <4>1
      <4>3. QED BY <1>3, <2>1, <3>1, <3>3, <4>1, <4>2
    <3>4. QED BY <3>1, <3>2, <3>3
  <2>5. ASSUME NEW i \in 1..Len(timer_list'), NEW j \in 1..Len(timer_list'), i < j
        PROVE timeout'[timer_list'[i]] <= timeout'[timer_list'[j]]
    <3>1. /\ i \in 1..(Len(timer_list) + 1) /\ j \in 1..(Len(timer_list) + 1)
      BY <1>5
    <3>2. CASE j < p
      <4>1. /\ i \in 1..Len(timer_list) /\ j \in 1..Len(timer_list)
            /\ timer_list'[i] = timer_list[i] /\ timer_list'[j] = timer_list[j]
        BY <1>5, <2>5, <3>1, <3>2
      <4>2. QED BY <1>6, <2>2, <2>3, <2>5, <4>1
    <3>3. CASE j = p
      <4>1. /\ i \in 1..Len(timer_list) /\ i < p
            /\ timer_list'[i] = timer_list[i] /\ timer_list'[j] = m
        BY <1>5, <2>5, <3>1, <3>3
      <4>2. QED BY <1>6, <2>2, <2>4, <4>1
    <3>4. CASE i < p /\ p < j
      <4>1. /\ i \in 1..Len(timer_list) /\ j - 1 \in 1..Len(timer_list) /\ i <= j - 1
            /\ timer_list'[i] = timer_list[i] /\ timer_list'[j] = timer_list[j - 1]
        BY <1>5, <2>5, <3>1, <3>4
      <4>2. QED BY <1>6, <2>2, <2>3, <4>1
    <3>5. CASE i = p
      <4>1. /\ j - 1 \in 1..Len(timer_list) /\ j - 1 >= p
            /\ timer_list'[i] = m /\ timer_list'[j] = timer_list[j - 1]
        BY <1>5, <2>5, <3>1, <3>5
      <4>2. QED BY <1>6, <2>2, <2>4, <4>1
    <3>6. CASE p < i
      <4>1. /\ i - 1 \in 1..Len(timer_list) /\ j - 1 \in 1..Len(timer_list) /\ i - 1 <= j - 1
            /\ timer_list'[i] = timer_list[i - 1] /\ timer_list'[j] = timer_list[j - 1]
        BY <1>5, <2>5, <3>1, <3>6
      <4>2. QED BY <1>6, <2>2, <2>3, <4>1
    <3>7. QED BY <2>5, <3>1, <3>2, <3>3, <3>4, <3>5, <3>6
  <2>6. InOrder(timer_list)'
    BY <2>5 DEF InOrder
  <2>7. InOrder(pending_list)'
    <3>1. \A i \in 1..Len(pending_list) : pending_list[i] # m
      BY <1>4, PendingTypes
    <3>2. pending_list' = pending_list
      BY <1>1
    <3>3. QED BY <1>6, <3>1, <3>2 DEF QueuesInv, TimersInOrder, InOrder
  <2>8. ASSUME NEW x \in Pending \cap Timers
        PROVE timeout'[x] < now' /\ \A k \in ToSet(timer_list)' : timeout'[x] <= timeout'[k]
    <3>1. /\ x # m /\ timeout'[x] = timeout[x] /\ now' = now
          /\ timeout[x] < now /\ \A k \in ToSet(timer_list) : timeout[x] <= timeout[k]
      BY <1>1, <1>4, <1>6 DEF env, QueuesInv, TimersInOrder
    <3>2. timeout[x] \in Nat /\ timeout[x] <= now + d
      BY <1>3, <3>1
    <3>3. \A k \in ToSet(timer_list) : k \in Timers /\ k # m
      BY <1>4, PendingTypes
    <3>4. QED BY <1>5, <1>6, <3>1, <3>2, <3>3
  <2>9. QED BY <1>6, <2>6, <2>7, <2>8 DEF TimersInOrder
<1>9. OneAtATime' /\ QueuedEvents'
  <2>1. \A e \in Pending \cap FdEvents :
          \A u \in Threads : pc'[u] = "add" => arg'[u] # e
    BY <1>1 DEF QueuesInv, QueuedEvents
  <2>2. QED BY <1>1, <1>6, <2>1, EventsFrame DEF QueuesInv, tables, loop
<1>10. Service!Request(m)
  <2>1. m \notin ToSet(timer_list) \cup (Pending \cap Timers) \cup fired
    BY <1>4
  <2>2. (ToSet(timer_list) \cup (Pending \cap Timers))'
          = (ToSet(timer_list) \cup (Pending \cap Timers)) \cup {m}
    BY <1>5, <1>6
  <2>3. now + d \in now..MaxTime
    BY <1>2, <1>3
  <2>4. UNCHANGED <<now, fired, cur>>
    BY <1>1 DEF env, history, loop
  <2>5. (Watched \cup (Pending \cap FdEvents))' = Watched \cup (Pending \cap FdEvents)
    BY <1>6
  <2>6. QED BY <1>2, <2>1, <2>2, <2>3, <2>4, <2>5 DEF Service!Request
<1>11. QED BY <1>7, <1>8, <1>9, <1>10 DEF QueuesInv

\* processTimeouts moves the late timers, in order, to the empty pending list.
LEMMA QueuesProcessTimeouts ==
  ASSUME TypeInv, QueuesInv, ProcessTimeouts
  PROVE  QueuesInv' /\ ServiceStutter
<1>1. /\ lpc = "timeouts" /\ lpc' = "readies"
      /\ UNCHANGED <<tables, timeout, cur, calls, requested, fired, now>>
  BY DEF ProcessTimeouts, LoopStep, env, history
<1>2. /\ timer_list \in Seq(Timers) /\ now \in Nat /\ timeout \in [Timers -> 0..MaxTime]
      /\ MaxTime \in Nat
  BY NumbersAssumption DEF TypeInv, TypeOK
<1>3. pending_list = <<>> /\ Pending = {} /\ cur = None
  BY <1>1 DEF QueuesInv, OneAtATime, Pending, ToSet
<1>4. PICK k \in 0..Len(timer_list) :
        /\ \A i \in 1..k : Expired(timeout[timer_list[i]])
        /\ k < Len(timer_list) => ~Expired(timeout[timer_list[k + 1]])
        /\ pending_list' = pending_list \o SubSeq(timer_list, 1, k)
        /\ timer_list' = SubSeq(timer_list, k + 1, Len(timer_list))
  BY DEF ProcessTimeouts
<1>5. /\ pending_list' \in Seq(Timers) /\ Len(pending_list') = k
      /\ \A i \in 1..k : pending_list'[i] = timer_list[i]
  <2>1. \A i \in 1..k : timer_list[i] \in Timers
    BY <1>2
  <2>2. /\ SubSeq(timer_list, 1, k) \in Seq(Timers) /\ Len(SubSeq(timer_list, 1, k)) = k
        /\ \A i \in 1..k : SubSeq(timer_list, 1, k)[i] = timer_list[i]
    BY <1>2, <2>1, SubSeqProperties
  <2>3. <<>> \o SubSeq(timer_list, 1, k) = SubSeq(timer_list, 1, k)
    BY <2>2
  <2>4. pending_list' = SubSeq(timer_list, 1, k)
    BY <1>3, <1>4, <2>3
  <2>5. QED BY <2>2, <2>4
<1>6. /\ timer_list' \in Seq(Timers) /\ Len(timer_list') = Len(timer_list) - k
      /\ \A i \in 1..Len(timer_list') : timer_list'[i] = timer_list[k + i]
  <2>1. \A i \in (k + 1)..Len(timer_list) : timer_list[i] \in Timers
    BY <1>2
  <2>2. QED BY <1>2, <1>4, <2>1, SubSeqProperties
<1>7. /\ NoDup(pending_list') /\ NoDup(timer_list')
      /\ ToSet(timer_list) = Pending' \cup ToSet(timer_list')
      /\ Pending' \cap ToSet(timer_list') = {}
  <2>1. NoDup(timer_list)
    BY DEF QueuesInv, TimersOnce
  <2>2. Split(timer_list, k, pending_list', timer_list')
    BY <1>5, <1>6 DEF Split
  <2>3. QED BY <1>2, <1>5, <1>6, <2>1, <2>2, SplitOnce DEF Pending
<1>8. TimersOnce'
  <2>1. /\ NoDup(pending_list)' /\ NoDup(timer_list)'
    BY <1>7 DEF NoDup
  <2>2. \A m \in ToSet(timer_list) : m \notin fired /\ m \in requested
    BY DEF QueuesInv, TimersOnce
  <2>3. fired' \subseteq requested'
    BY <1>1 DEF QueuesInv, TimersOnce
  <2>4. \A t \in Threads : pc'[t] = "timer" =>
          /\ arg'[t] \in requested'
          /\ arg'[t] \notin ToSet(timer_list) \cup fired'
    BY <1>1 DEF QueuesInv, TimersOnce, calls
  <2>5. \A t, u \in Threads : pc'[t] = "timer" /\ pc'[u] = "timer" /\ arg'[t] = arg'[u] => t = u
    BY <1>1 DEF QueuesInv, TimersOnce, calls
  <2>6. QED BY <1>1, <1>7, <2>1, <2>2, <2>3, <2>4, <2>5 DEF TimersOnce
<1>9. TimersInOrder'
  <2>1. /\ timeout' = timeout /\ now' = now
        /\ \A i \in 1..Len(timer_list) : timer_list[i] \in Timers /\ timeout[timer_list[i]] \in Nat
    BY <1>1, <1>2
  <2>2. \A i, j \in 1..Len(timer_list) :
          i < j => timeout[timer_list[i]] <= timeout[timer_list[j]]
    BY <2>1 DEF QueuesInv, TimersInOrder, InOrder
  <2>3. InOrder(pending_list)'
    <3>1. \A i \in 1..k : i \in 1..Len(timer_list)
      OBVIOUS
    <3>2. QED BY <1>5, <2>1, <2>2, <3>1 DEF InOrder
  <2>4. InOrder(timer_list)'
    <3>1. ASSUME NEW i \in 1..Len(timer_list'), NEW j \in 1..Len(timer_list'), i < j
          PROVE timeout'[timer_list'[i]] <= timeout'[timer_list'[j]]
      <4>1. k + i \in 1..Len(timer_list) /\ k + j \in 1..Len(timer_list) /\ k + i < k + j
        BY <1>6, <3>1
      <4>2. QED BY <1>6, <2>1, <2>2, <4>1
    <3>2. QED BY <3>1 DEF InOrder
  <2>5. ASSUME NEW i \in 1..k, NEW j \in 1..Len(timer_list')
        PROVE timeout[pending_list'[i]] <= timeout[timer_list'[j]]
    <3>1. i \in 1..Len(timer_list) /\ k + j \in 1..Len(timer_list) /\ i < k + j
      BY <1>6
    <3>2. QED BY <1>5, <1>6, <2>2, <3>1
  <2>6. \A i \in 1..k : timeout[pending_list'[i]] < now
    BY <1>4, <1>5 DEF Expired
  <2>7. /\ \A x : x \in Pending' <=> \E i \in 1..k : pending_list'[i] = x
        /\ \A x : x \in ToSet(timer_list') <=> \E i \in 1..Len(timer_list') : timer_list'[i] = x
    <3>1. \A x : x \in ToSet(pending_list') <=> \E i \in 1..Len(pending_list') : pending_list'[i] = x
      BY <1>5, ToSetMembers
    <3>2. \A x : x \in ToSet(timer_list') <=> \E i \in 1..Len(timer_list') : timer_list'[i] = x
      BY <1>6, ToSetMembers
    <3>3. QED BY <1>5, <3>1, <3>2 DEF Pending
  <2>8. QED BY <2>1, <2>3, <2>4, <2>5, <2>6, <2>7 DEF TimersInOrder
<1>10. Pending' \subseteq Timers /\ None \notin Pending' /\ Pending' \cap FdEvents = {}
  BY <1>5, ToSetMembers, EventsAssumption DEF Pending, Events
<1>11. OneAtATime' /\ QueuedEvents'
  BY <1>1, <1>3, <1>10 DEF OneAtATime, QueuedEvents
<1>12. ServiceStutter
  <2>1. (ToSet(timer_list) \cup (Pending \cap Timers))' = ToSet(timer_list) \cup (Pending \cap Timers)
    BY <1>3, <1>7, <1>10
  <2>2. (Watched \cup (Pending \cap FdEvents))' = Watched \cup (Pending \cap FdEvents)
    BY <1>1, <1>3, <1>10 DEF Watched, tables
  <2>3. QED BY <1>1, <2>1, <2>2 DEF ServiceStutter, Service!svars
<1>13. QED BY <1>8, <1>9, <1>11, <1>12 DEF QueuesInv

\* processReadReadies queues each event once, and a one-shot event goes from the
\* table to the list in one step.
LEMMA QueuesScan ==
  ASSUME TypeInv, TablesInv, QueuesInv, ScanSlot
  PROVE  QueuesInv' /\ ServiceStutter
<1> DEFINE rev == watch_table[slot]
<1>1. /\ lpc = "scan" /\ lpc' = lpc /\ slot \in Slots /\ slot' = slot + 1 /\ slot \in Nat
      /\ UNCHANGED <<timers, cur, calls, requested, fired, now>>
      /\ mutex = Loop /\ mutex' = mutex /\ \A t \in Threads : pc[t] # "addNfds"
  BY NumbersAssumption DEF ScanSlot, LoopStep, Slots, TypeInv, TypeOK, env, history,
     TablesInv, MutexHeld
<1>2. CASE ~SlotReady
  <2>1. UNCHANGED <<pending_list, tables>>
    BY <1>2 DEF ScanSlot
  <2>2. Pending' = Pending /\ Watched' = Watched /\ index' = index
    BY <2>1 DEF Pending, Watched, tables
  <2>3. TimersOnce' /\ TimersInOrder'
    BY <1>1, <2>1, TimersFrame DEF QueuesInv, timers, calls
  <2>4. OneAtATime'
    BY <1>1, <2>1, <2>2 DEF QueuesInv, OneAtATime
  <2>5. \A e \in FdEvents : index[e] \in Int
    BY DEF TypeInv, TypeOK, Events, Slots
  <2>6. QueuedEvents'
    BY <1>1, <2>2, <2>5 DEF QueuesInv, QueuedEvents, calls
  <2>7. ServiceStutter
    BY <1>1, <2>1, Stutters DEF timers, tables
  <2>8. QED BY <2>3, <2>4, <2>6, <2>7 DEF QueuesInv
<1>3. CASE SlotReady
  <2>1. rev \in FdEvents /\ rev \in Events /\ rev # None /\ rev \in Watched
    BY <1>1, <1>3, EventsAssumption DEF SlotReady, TypeInv, TypeOK, Watched, Events
  <2>2. index[rev] = slot
    BY <1>1, <2>1 DEF TablesInv, SlotsAgree
  <2>3. /\ pending_list' = Append(pending_list, rev)
        /\ IF rev \in Persist THEN UNCHANGED tables ELSE RemoveWatch(rev, slot)
    BY <1>3 DEF ScanSlot
  <2>4. rev \notin Pending
    BY <1>1, <2>1, <2>2 DEF QueuesInv, QueuedEvents
  <2>5. pending_list \in Seq(Events)
    BY DEF TypeInv, TypeOK
  <2>6. NoDup(pending_list') /\ Pending' = Pending \cup {rev}
    <3>1. NoDup(pending_list)
      BY DEF QueuesInv, TimersOnce
    <3>2. NoDup(Append(pending_list, rev)) /\ ToSet(Append(pending_list, rev)) = Pending \cup {rev}
      BY <2>1, <2>4, <2>5, <3>1, AppendOnce DEF Pending
    <3>3. QED BY <2>3, <3>2 DEF Pending
  <2>7. /\ rev \notin Timers /\ Pending' \cap Timers = Pending \cap Timers
        /\ Pending' \cap FdEvents = (Pending \cap FdEvents) \cup {rev}
    BY <2>1, <2>6, EventsAssumption
  <2>8. \A t \in Threads : pc[t] = "add" => arg[t] # rev
    BY <2>1 DEF TablesInv, AddsApart
  <2>9. /\ Watched' = IF rev \in Persist THEN Watched ELSE Watched \ {rev}
        /\ \A e \in FdEvents : index'[e] = IF rev \in Persist \/ e # rev THEN index[e] ELSE -1
    <3>1. CASE rev \in Persist
      BY <2>3, <3>1 DEF Watched, tables
    <3>2. CASE rev \notin Persist
      <4>1. RemoveWatch(rev, slot)
        BY <2>3, <3>2
      <4>2. Watched' = Watched \ {rev}
        BY <1>1, <2>1, <4>1, TablesRemoveWatch
      <4>3. index' = [index EXCEPT ![rev] = -1] /\ index \in [Events -> Slots \cup {-1}]
        BY <4>1 DEF RemoveWatch, TypeInv, TypeOK
      <4>4. QED BY <2>1, <3>2, <4>2, <4>3 DEF Events
    <3>3. QED BY <3>1, <3>2
  <2>10. TimersOnce'
    <3>1. NoDup(pending_list)' /\ NoDup(timer_list)'
      BY <1>1, <2>6 DEF QueuesInv, TimersOnce, NoDup, timers
    <3>2. \A t \in Threads : pc[t] = "timer" => arg[t] # rev
      BY <2>7 DEF TypeInv, CallArgs
    <3>3. ToSet(timer_list) \subseteq Timers
      BY PendingTypes
    <3>4. UNCHANGED <<timer_list, pc, arg, requested, fired>>
      BY <1>1 DEF timers, calls
    <3>5. QED BY <2>6, <2>7, <3>1, <3>2, <3>3, <3>4 DEF QueuesInv, TimersOnce
  <2>11. TimersInOrder'
    <3>1. UNCHANGED <<timer_list, timeout, now>>
      BY <1>1 DEF timers
    <3>2. /\ Len(pending_list') = Len(pending_list) + 1
          /\ \A i \in 1..Len(pending_list) : pending_list'[i] = pending_list[i]
          /\ pending_list'[Len(pending_list) + 1] = rev
          /\ Len(pending_list) \in Nat
      BY <2>1, <2>3, <2>5
    <3>3. \A i \in 1..Len(pending_list') : pending_list'[i] \in Timers => i \in 1..Len(pending_list)
      BY <2>7, <3>2
    <3>4. InOrder(pending_list)'
      BY <3>1, <3>2, <3>3 DEF QueuesInv, TimersInOrder, InOrder
    <3>5. InOrder(timer_list)'
      BY <3>1 DEF QueuesInv, TimersInOrder, InOrder
    <3>6. QED BY <2>7, <3>1, <3>4, <3>5 DEF QueuesInv, TimersInOrder
  <2>12. OneAtATime'
    <3>1. cur = None /\ cur' = None
      BY <1>1 DEF QueuesInv, OneAtATime
    <3>2. QED BY <1>1, <2>1, <2>6, <3>1 DEF QueuesInv, OneAtATime
  <2>13. QueuedEvents'
    <3>1. ASSUME NEW e \in (Pending \cap FdEvents) \cup {rev}
          PROVE /\ \A t \in Threads : pc'[t] = "add" => arg'[t] # e
                /\ e \in Persist <=> e \in Watched'
                /\ index'[e] < slot'
      <4>1. CASE e = rev
        BY <1>1, <2>1, <2>2, <2>8, <2>9, <4>1 DEF calls
      <4>2. CASE e # rev
        <5>1. index[e] < slot /\ (e \in Persist <=> e \in Watched)
              /\ \A t \in Threads : pc[t] = "add" => arg[t] # e
          BY <1>1, <3>1, <4>2 DEF QueuesInv, QueuedEvents
        <5>2. index[e] \in Int
          BY <3>1, <4>2 DEF TypeInv, TypeOK, Events, Slots
        <5>3. QED BY <1>1, <2>9, <3>1, <4>2, <5>1, <5>2 DEF calls
      <4>3. QED BY <4>1, <4>2
    <3>2. QED BY <1>1, <2>7, <3>1 DEF QueuedEvents
  <2>14. ServiceStutter
    <3>1. (ToSet(timer_list) \cup (Pending \cap Timers))' = ToSet(timer_list) \cup (Pending \cap Timers)
      BY <1>1, <2>7 DEF timers
    <3>2. (Watched \cup (Pending \cap FdEvents))' = Watched \cup (Pending \cap FdEvents)
      BY <2>1, <2>7, <2>9
    <3>3. QED BY <1>1, <3>1, <3>2 DEF ServiceStutter, Service!svars, timers
  <2>15. QED BY <2>10, <2>11, <2>12, <2>13, <2>14 DEF QueuesInv
<1>4. QED BY <1>2, <1>3

\* firePending calls the first pending event: a timer that is late and first, or a
\* handler whose event is watched, or was until the scan took it off.
LEMMA QueuesFirePending ==
  ASSUME TypeInv, QueuesInv, FirePending
  PROVE  /\ QueuesInv'
         /\ \/ \E m \in Timers : Service!RunTimer(m)
            \/ \E e \in FdEvents : Service!RunHandler(e)
<1> DEFINE e == Head(pending_list)
<1>1. /\ pending_list # <<>> /\ lpc = "fire" /\ lpc' = "callback"
      /\ cur' = e /\ pending_list' = Tail(pending_list)
      /\ fired' = fired \cup ({e} \cap Timers)
      /\ UNCHANGED <<tables, timers, calls, requested, now>>
  BY DEF FirePending, LoopStep
<1>2. pending_list \in Seq(Events) /\ NoDup(pending_list)
  BY DEF TypeInv, TypeOK, QueuesInv, TimersOnce
<1>3. /\ NoDup(pending_list') /\ e \in Pending /\ Pending' = Pending \ {e}
      /\ \A i \in 1..Len(pending_list') :
           i + 1 \in 1..Len(pending_list) /\ pending_list'[i] = pending_list[i + 1]
  BY <1>1, <1>2, TailOnce DEF Pending
<1>4. /\ e \in Events /\ e # None /\ None \notin Pending
      /\ ToSet(timer_list) \subseteq Timers
  BY <1>3, PendingTypes
<1>5. cur = None
  BY <1>1 DEF QueuesInv, OneAtATime
<1>6. Watched' = Watched /\ UNCHANGED <<timer_list, timeout, pc, arg, index>>
  BY <1>1 DEF Watched, tables, timers, calls
<1>7. e \in Timers => e \in requested /\ e \notin fired /\ e \notin ToSet(timer_list)
  BY <1>3 DEF QueuesInv, TimersOnce
<1>8. TimersOnce'
  <2>1. NoDup(pending_list)' /\ NoDup(timer_list)'
    BY <1>3, <1>6 DEF QueuesInv, TimersOnce, NoDup
  <2>2. \A m \in Timers : m \in fired' <=> m \in fired \/ m = e
    BY <1>1
  <2>3. fired' \subseteq requested'
    BY <1>1, <1>7 DEF QueuesInv, TimersOnce
  <2>4. \A m \in ToSet(timer_list) : m \notin Pending' /\ m \notin fired' /\ m \in requested'
    BY <1>1, <1>3, <1>4, <1>7, <2>2 DEF QueuesInv, TimersOnce
  <2>5. \A m \in Pending' \cap Timers : m \notin fired' /\ m \in requested'
    BY <1>1, <1>3, <2>2 DEF QueuesInv, TimersOnce
  <2>6. \A t \in Threads : pc[t] = "timer" =>
          arg[t] \in requested' /\ arg[t] \notin ToSet(timer_list) \cup Pending' \cup fired'
    <3>1. \A t \in Threads : pc[t] = "timer" => arg[t] \in Timers
      BY DEF TypeInv, CallArgs
    <3>2. QED BY <1>1, <1>3, <2>2, <3>1 DEF QueuesInv, TimersOnce
  <2>7. QED BY <1>6, <2>1, <2>3, <2>4, <2>5, <2>6 DEF QueuesInv, TimersOnce
<1>9. TimersInOrder'
  <2>1. \A i, j \in 1..Len(pending_list') : i < j => i + 1 < j + 1
    OBVIOUS
  <2>2. InOrder(pending_list)'
    BY <1>3, <1>6, <2>1 DEF QueuesInv, TimersInOrder, InOrder
  <2>3. InOrder(timer_list)'
    BY <1>6 DEF QueuesInv, TimersInOrder, InOrder
  <2>4. QED BY <1>1, <1>3, <1>6, <2>2, <2>3 DEF QueuesInv, TimersInOrder
<1>10. OneAtATime'
  BY <1>1, <1>3, <1>4 DEF OneAtATime
<1>11. QueuedEvents'
  BY <1>1, <1>3, <1>6 DEF QueuesInv, QueuedEvents
<1>12. CASE e \in Timers
  <2>1. /\ e \notin FdEvents /\ timeout[e] < now
        /\ \A k \in ToSet(timer_list) : timeout[e] <= timeout[k]
    BY <1>3, <1>12, EventsAssumption DEF QueuesInv, TimersInOrder
  <2>2. \A k \in Pending \cap Timers : timeout[e] <= timeout[k]
    <3>1. ASSUME NEW k \in Pending \cap Timers PROVE timeout[e] <= timeout[k]
      <4>1. PICK j \in 1..Len(pending_list) : pending_list[j] = k
        BY PendingTypes
      <4>2. e = pending_list[1] /\ 1 \in 1..Len(pending_list)
        BY <1>1, <1>2
      <4>3. CASE j = 1
        <5>1. k = e /\ timeout[e] \in Nat
          BY <1>12, <4>1, <4>2, <4>3, NumbersAssumption DEF TypeInv, TypeOK
        <5>2. QED BY <5>1
      <4>4. CASE 1 < j
        BY <1>12, <4>1, <4>2, <4>4 DEF QueuesInv, TimersInOrder, InOrder
      <4>5. QED BY <4>3, <4>4
    <3>2. QED BY <3>1
  <2>3. (ToSet(timer_list) \cup (Pending \cap Timers))'
          = (ToSet(timer_list) \cup (Pending \cap Timers)) \ {e}
    BY <1>3, <1>6, <1>7, <1>12
  <2>4. (Watched \cup (Pending \cap FdEvents))' = Watched \cup (Pending \cap FdEvents)
    BY <1>3, <1>6, <2>1
  <2>5. Service!RunTimer(e)
    BY <1>1, <1>3, <1>5, <1>6, <1>12, <2>1, <2>2, <2>3, <2>4 DEF Service!RunTimer
  <2>6. QED BY <1>8, <1>9, <1>10, <1>11, <1>12, <2>5 DEF QueuesInv
<1>13. CASE e \in FdEvents
  <2>1. e \notin Timers /\ (e \in Persist <=> e \in Watched)
    BY <1>3, <1>13, EventsAssumption DEF QueuesInv, QueuedEvents
  <2>2. (ToSet(timer_list) \cup (Pending \cap Timers))' = ToSet(timer_list) \cup (Pending \cap Timers)
    BY <1>3, <1>6, <2>1
  <2>3. (Watched \cup (Pending \cap FdEvents))'
          = IF e \in Persist THEN Watched \cup (Pending \cap FdEvents)
            ELSE (Watched \cup (Pending \cap FdEvents)) \ {e}
    BY <1>3, <1>6, <1>13, <2>1
  <2>4. fired' = fired
    BY <1>1, <2>1
  <2>5. Service!RunHandler(e)
    BY <1>1, <1>3, <1>5, <1>6, <1>13, <2>2, <2>3, <2>4 DEF Service!RunHandler
  <2>6. QED BY <1>8, <1>9, <1>10, <1>11, <1>13, <2>5 DEF QueuesInv
<1>14. QED BY <1>4, <1>12, <1>13 DEF Events

\* ril_event_del: the running handler ends its own watch, or nothing happens.
LEMMA QueuesEventDel ==
  ASSUME TypeInv, TablesInv, QueuesInv, NEW e \in Events, EventDel(e)
  PROVE  QueuesInv' /\ (Service!Unwatch \/ ServiceStutter)
<1>1. /\ UNCHANGED <<timers, pending_list, calls, history, lpc, cur, slot, now>>
      /\ mutex = None /\ lpc = "callback"
      /\ e \in DelTimers \/ (e = cur /\ e \in FdEvents)
  BY DEF EventDel, MayCall, loop, env
<1>2. TimersOnce' /\ TimersInOrder'
  BY <1>1, TimersFrame DEF QueuesInv, timers, history, calls
<1>3. \A u \in Threads : pc[u] # "addNfds"
  BY <1>1, EventsAssumption DEF TablesInv, MutexHeld
<1>4. CASE index[e] \in Slots
  <2>1. /\ e \in FdEvents /\ watch_table[index[e]] = e /\ e \in Watched /\ e = cur
    BY <1>1, <1>4, DelTimersAssumption DEF TypeInv, TypeOK, TablesInv, SlotsAgree, Events, Slots, Watched
  <2>2. RemoveWatch(e, index[e]) /\ mutex' = mutex
    BY <1>4 DEF EventDel
  <2>3. Watched' = Watched \ {e}
    BY <1>1, <1>3, <1>4, <2>1, <2>2, TablesRemoveWatch
  <2>4. e \notin Pending
    BY <2>1 DEF QueuesInv, OneAtATime
  <2>5. \A x \in FdEvents : x # e => index'[x] = index[x]
    <3>1. index' = [index EXCEPT ![e] = -1] /\ index \in [Events -> Slots \cup {-1}]
      BY <2>2 DEF RemoveWatch, TypeInv, TypeOK
    <3>2. QED BY <3>1 DEF Events
  <2>6. OneAtATime' /\ QueuedEvents'
    <3>1. \A x \in Pending \cap FdEvents :
            /\ index'[x] = index[x] /\ (x \in Watched' <=> x \in Watched)
            /\ \A t \in Threads : pc'[t] = "add" => arg'[t] # x
      BY <1>1, <2>3, <2>4, <2>5 DEF QueuesInv, QueuedEvents, calls
    <3>2. QED BY <1>1, <3>1, EventsFrame DEF QueuesInv
  <2>7. Service!Unwatch
    <3>1. (ToSet(timer_list) \cup (Pending \cap Timers))' = ToSet(timer_list) \cup (Pending \cap Timers)
      BY <1>1 DEF timers, Pending
    <3>2. (Watched \cup (Pending \cap FdEvents))' = (Watched \cup (Pending \cap FdEvents)) \ {cur}
      BY <1>1, <2>1, <2>3, <2>4 DEF Pending
    <3>3. QED BY <1>1, <2>1, <3>1, <3>2 DEF Service!Unwatch, timers, history
  <2>8. QED BY <1>2, <2>6, <2>7 DEF QueuesInv
<1>5. CASE index[e] \notin Slots
  <2>1. UNCHANGED tables
    BY <1>5 DEF EventDel
  <2>2. Watched' = Watched /\ index' = index
    BY <2>1 DEF Watched, tables
  <2>3. OneAtATime' /\ QueuedEvents'
    <3>1. \A x \in Pending \cap FdEvents : \A t \in Threads : pc'[t] = "add" => arg'[t] # x
      BY <1>1 DEF QueuesInv, QueuedEvents, calls
    <3>2. QED BY <1>1, <2>2, <3>1, EventsFrame DEF QueuesInv
  <2>4. ServiceStutter
    BY <1>1, <2>1, Stutters DEF timers, tables, history
  <2>5. QED BY <1>2, <2>3, <2>4 DEF QueuesInv
<1>6. QED BY <1>4, <1>5

\* ril_event_add: the watch begins when the event has a slot; if the table is full it
\* does not begin.
LEMMA QueuesEventAddTable ==
  ASSUME TypeInv, TablesInv, QueuesInv, NEW t \in Threads, EventAddTable(t)
  PROVE  QueuesInv' /\ (Service!Watch(arg[t]) \/ ServiceStutter)
<1> DEFINE e == arg[t]
<1>1. /\ pc[t] = "add" /\ e \in FdEvents /\ e \notin Watched /\ mutex = None
      /\ UNCHANGED <<timers, pending_list, history, arg, lpc, cur, slot, now>>
      /\ pc' = [pc EXCEPT ![t] = "addNfds"] /\ pc \in [Threads -> {"idle", "add", "addNfds", "timer", "trigger"}]
  BY DEF EventAddTable, TypeInv, TypeOK, CallArgs, TablesInv, AddsApart, loop, env
<1>2. \A u \in Threads : pc'[u] \in {"add", "timer"} => pc'[u] = pc[u]
  BY <1>1
<1>3. TimersOnce' /\ TimersInOrder'
  BY <1>1, <1>2, TimersFrame DEF QueuesInv, timers, history
<1>4. e \notin Pending
  BY <1>1 DEF QueuesInv, QueuedEvents
<1>5. /\ lpc # "scan"
  BY <1>1, EventsAssumption DEF TablesInv, MutexHeld, Threads
<1>6. /\ \A x \in FdEvents : x # e => index'[x] = index[x]
      /\ \/ Watched' = Watched \cup {e}
         \/ Watched' = Watched /\ watch_table' = watch_table
  <2>1. CASE \E i \in Slots : watch_table[i] = None
    <3>1. PICK i \in Slots :
            /\ watch_table[i] = None
            /\ watch_table' = [watch_table EXCEPT ![i] = e]
            /\ index' = [index EXCEPT ![e] = i]
      BY <2>1, Zenon DEF EventAddTable
    <3>2. watch_table \in [Slots -> FdEvents \cup {None}] /\ index \in [Events -> Slots \cup {-1}]
      BY DEF TypeInv, TypeOK
    <3>3. \A j \in Slots : watch_table'[j] = IF j = i THEN e ELSE watch_table[j]
      BY <3>1, <3>2
    <3>4. watch_table[i] \notin FdEvents
      BY <3>1, EventsAssumption DEF Events
    <3> HIDE DEF e
    <3>5. ASSUME NEW x \in FdEvents PROVE x \in Watched' <=> x \in Watched \/ x = e
      BY <3>3, <3>4 DEF Watched
    <3>6. Watched' = Watched \cup {e}
      BY <1>1, <3>5 DEF Watched
    <3>7. \A x \in FdEvents : x # e => index'[x] = index[x]
      BY <3>1, <3>2 DEF Events
    <3>8. QED BY <3>6, <3>7
  <2>2. CASE ~\E i \in Slots : watch_table[i] = None
    BY <2>2 DEF EventAddTable, Watched
  <2>3. QED BY <2>1, <2>2
<1>7. OneAtATime' /\ QueuedEvents'
  <2>1. \A x \in Pending \cap FdEvents :
          /\ index'[x] = index[x] /\ (x \in Watched' <=> x \in Watched)
          /\ \A u \in Threads : pc'[u] = "add" => arg'[u] # x
    BY <1>1, <1>2, <1>4, <1>6 DEF QueuesInv, QueuedEvents
  <2>2. QED BY <1>1, <2>1, EventsFrame DEF QueuesInv
<1>8. Pending' = Pending
  BY <1>1 DEF Pending
<1>9. CASE Watched' = Watched \cup {e}
  <2>1. (Watched \cup (Pending \cap FdEvents))' = (Watched \cup (Pending \cap FdEvents)) \cup {e}
    BY <1>8, <1>9
  <2>2. Service!Watch(e)
    BY <1>1, <1>4, <1>8, <2>1 DEF Service!Watch, timers, history
  <2>3. QED BY <1>3, <1>7, <2>2 DEF QueuesInv
<1>10. CASE Watched' = Watched /\ watch_table' = watch_table
  <2>1. ServiceStutter
    BY <1>1, <1>10, Stutters DEF timers, history
  <2>2. QED BY <1>3, <1>7, <2>1 DEF QueuesInv
<1>11. QED BY <1>6, <1>9, <1>10

\* The other steps of a call change neither the lists nor the slots.
LEMMA QueuesCall ==
  ASSUME TypeInv, TablesInv, QueuesInv, NEW t \in Threads,
         UNCHANGED <<watch_table, timers, pending_list, cur, slot, now, fired>>,
         lpc' = lpc \/ (lpc = "boot" /\ lpc' = "booted"),
         \A u \in Threads : u # t => pc'[u] = pc[u] /\ arg'[u] = arg[u],
         \A x \in Pending \cap FdEvents : index'[x] = index[x],
         \/ pc'[t] \in {"idle", "trigger"} /\ requested' = requested
         \/ /\ pc'[t] = "add" /\ arg'[t] \in FdEvents \ Pending /\ requested' = requested
         \/ /\ pc'[t] = "timer" /\ arg'[t] \in Timers \ requested
            /\ requested' = requested \cup {arg'[t]}
  PROVE  QueuesInv' /\ ServiceStutter
<1>1. /\ Pending' = Pending /\ Watched' = Watched
      /\ UNCHANGED <<timer_list, timeout>>
  BY DEF Pending, Watched, timers
<1>2. TimersOnce'
  <2>1. NoDup(timer_list)' /\ NoDup(pending_list)'
    BY <1>1 DEF QueuesInv, TimersOnce, NoDup
  <2>2. requested \subseteq requested'
    OBVIOUS
  <2>3. \A u \in Threads : u # t /\ pc'[u] = "timer" =>
          /\ pc[u] = "timer" /\ arg'[u] \in requested
          /\ arg'[u] \notin ToSet(timer_list) \cup Pending \cup fired
    BY DEF QueuesInv, TimersOnce
  <2>4. pc'[t] = "timer" =>
          /\ arg'[t] \in requested' /\ arg'[t] \notin requested
          /\ arg'[t] \notin ToSet(timer_list) \cup Pending \cup fired
    BY DEF QueuesInv, TimersOnce
  <2>5. \A u, w \in Threads : pc'[u] = "timer" /\ pc'[w] = "timer" /\ arg'[u] = arg'[w] => u = w
    BY <2>3, <2>4 DEF QueuesInv, TimersOnce
  <2>6. QED BY <1>1, <2>1, <2>2, <2>3, <2>4, <2>5 DEF QueuesInv, TimersOnce
<1>3. TimersInOrder'
  BY <1>1 DEF QueuesInv, TimersInOrder, InOrder
<1>4. OneAtATime'
  BY <1>1 DEF QueuesInv, OneAtATime
<1>5. QueuedEvents'
  BY <1>1 DEF QueuesInv, QueuedEvents
<1>6. ServiceStutter
  BY <1>1, Stutters
<1>7. QED BY <1>2, <1>3, <1>4, <1>5, <1>6 DEF QueuesInv

\* Every step keeps the queues, and is a step of the service or changes nothing of it.
LEMMA QueuesStep ==
  TypeInv /\ TablesInv /\ QueuesInv /\ [Next]_vars
    => QueuesInv' /\ (Service!SNext \/ ServiceStutter)
<1> SUFFICES ASSUME TypeInv, TablesInv, QueuesInv, [Next]_vars
             PROVE  QueuesInv' /\ (Service!SNext \/ ServiceStutter)
  OBVIOUS
<1> USE DEF tables, timers, calls, history, env, loop
<1>0. /\ cur # None <=> lpc = "callback"
      /\ lpc \notin {"readies", "scan", "fire", "callback"} => pending_list = <<>> /\ Pending = {}
      /\ lpc = "readies" => Pending \cap FdEvents = {}
  BY DEF QueuesInv, OneAtATime, QueuedEvents, Pending, ToSet
<1>1. ASSUME UNCHANGED <<tables, timers, pending_list, calls, requested, fired, now, cur>>,
             lpc \notin {"scan", "fire", "callback"}, lpc' \notin {"scan", "callback"},
             lpc = "readies" => lpc' = "readies"
      PROVE  QueuesInv' /\ ServiceStutter
  <2>1. /\ lpc' \in {"readies", "scan", "fire", "callback"} \/ pending_list = <<>>
        /\ lpc' \in {"fire", "callback"} \/ Pending \cap FdEvents = {}
        /\ cur' # None <=> lpc' = "callback"
    BY <1>0, <1>1
  <2>2. QueuesInv'
    BY <1>1, <2>1, LoopFrame
  <2>3. QED BY <1>1, <2>2, Stutters
<1>2. CASE EnterLoop \/ CopyReadFds \/ CalcNextTimeout \/ SelectCall \/ SelectReturn
           \/ SelectInterrupted \/ SelectFails
  <2>1. /\ UNCHANGED <<tables, timers, pending_list, calls, requested, fired, now, cur>>
        /\ lpc \in {"booted", "copy", "calc", "select", "blocked"}
        /\ lpc' \notin {"scan", "callback", "fire", "readies"}
    BY <1>2 DEF EnterLoop, CopyReadFds, CalcNextTimeout, SelectCall, SelectReturn,
                SelectInterrupted, SelectFails, LoopStep
  <2>2. QED BY <1>1, <2>1
<1>3. CASE BeginReadReadies
  <2>1. /\ UNCHANGED <<tables, timers, pending_list, calls, requested, fired, now, cur>>
        /\ lpc = "readies" /\ lpc' = "scan"
    BY <1>3 DEF BeginReadReadies, LoopStep
  <2>2. QueuesInv'
    BY <1>0, <2>1, LoopFrame
  <2>3. QED BY <2>1, <2>2, Stutters
<1>4. CASE EndReadReadies
  <2>1. /\ UNCHANGED <<tables, timers, pending_list, calls, requested, fired, now, cur>>
        /\ lpc = "scan" /\ lpc' = "fire"
    BY <1>4 DEF EndReadReadies, LoopStep
  <2>2. QueuesInv'
    BY <1>0, <2>1, LoopFrame
  <2>3. QED BY <2>1, <2>2, Stutters
<1>5. CASE FireDone
  <2>1. /\ UNCHANGED <<tables, timers, pending_list, calls, requested, fired, now, cur>>
        /\ lpc = "fire" /\ lpc' = "copy" /\ pending_list = <<>>
    BY <1>5 DEF FireDone, LoopStep
  <2>2. Pending = {}
    BY <2>1 DEF Pending, ToSet
  <2>3. QueuesInv'
    BY <1>0, <2>1, <2>2, LoopFrame
  <2>4. QED BY <2>1, <2>3, Stutters
<1>6. CASE DrainWakeup \/ CallbackReturns
  <2>1. /\ UNCHANGED <<tables, timers, pending_list, calls, requested, fired, now>>
        /\ lpc = "callback" /\ lpc' = "fire" /\ cur' = None
    BY <1>6 DEF DrainWakeup, CallbackReturns, LoopStep
  <2>2. QueuesInv'
    BY <2>1, LoopFrame
  <2>3. /\ (ToSet(timer_list) \cup (Pending \cap Timers))' = ToSet(timer_list) \cup (Pending \cap Timers)
        /\ (Watched \cup (Pending \cap FdEvents))' = Watched \cup (Pending \cap FdEvents)
    BY <2>1 DEF Pending, Watched
  <2>4. Service!Return
    BY <1>0, <2>1, <2>3 DEF Service!Return
  <2>5. QED BY <2>2, <2>4 DEF Service!SNext
<1>7. CASE CreatePipe
  <2>1. /\ UNCHANGED <<watch_table, index, timers, pending_list, cur, slot, now, fired, requested>>
        /\ lpc = "boot" /\ lpc' = "booted"
        /\ pc' = [pc EXCEPT ![Loop] = "add"] /\ arg' = [arg EXCEPT ![Loop] = WakeEv]
    BY <1>7 DEF CreatePipe, LoopStep, Enter
  <2>2. /\ Loop \in Threads /\ WakeEv \in FdEvents \ Pending
        /\ pc'[Loop] = "add" /\ arg'[Loop] = WakeEv
        /\ \A u \in Threads : u # Loop => pc'[u] = pc[u] /\ arg'[u] = arg[u]
    BY <1>0, <2>1, EventsAssumption DEF Threads, TypeInv, TypeOK
  <2>3. QED BY <2>1, <2>2, QueuesCall
<1>8. CASE ProcessTimeouts
  BY <1>8, QueuesProcessTimeouts
<1>9. CASE ScanSlot
  BY <1>9, QueuesScan
<1>10. CASE FirePending
  BY <1>10, QueuesFirePending DEF Service!SNext
<1>11. ASSUME NEW e \in Events, EventDel(e)
       PROVE  QueuesInv' /\ (Service!SNext \/ ServiceStutter)
  BY <1>11, QueuesEventDel DEF Service!SNext
<1>12. ASSUME NEW t \in Threads, EventAddTable(t)
       PROVE  QueuesInv' /\ (Service!SNext \/ ServiceStutter)
  <2>1. arg[t] \in FdEvents
    BY <1>12 DEF EventAddTable, TypeInv, CallArgs
  <2>2. QED BY <1>12, <2>1, QueuesEventAddTable DEF Service!SNext
<1>13. ASSUME NEW t \in Threads, TimerAdd(t)
       PROVE  QueuesInv' /\ (Service!SNext \/ ServiceStutter)
  <2>1. arg[t] \in Timers
    BY <1>13 DEF TimerAdd, TypeInv, CallArgs
  <2>2. QED BY <1>13, <2>1, QueuesTimerAdd DEF Service!SNext
<1>14. ASSUME NEW t \in Threads, EventAddNfds(t) \/ TriggerEvLoop(t)
       PROVE  QueuesInv' /\ ServiceStutter
  <2>1. /\ UNCHANGED <<watch_table, index, timers, pending_list, cur, slot, now, fired, requested, lpc>>
        /\ pc'[t] \in {"idle", "trigger"}
        /\ \A u \in Threads : u # t => pc'[u] = pc[u] /\ arg'[u] = arg[u]
    BY <1>14 DEF EventAddNfds, TriggerEvLoop, Leave, TypeInv, TypeOK
  <2>2. QED BY <2>1, QueuesCall
<1>15. ASSUME NEW t \in Threads, NEW e \in FdEvents, NEW f \in Fds, CallEventAdd(t, e, f)
       PROVE  QueuesInv' /\ ServiceStutter
  <2>1. /\ UNCHANGED <<watch_table, timers, pending_list, cur, slot, now, fired, requested, lpc>>
        /\ pc' = [pc EXCEPT ![t] = "add"] /\ arg' = [arg EXCEPT ![t] = e]
        /\ index' = [index EXCEPT ![e] = -1] /\ e \notin Pending
    BY <1>15 DEF CallEventAdd, Enter
  <2>2. /\ pc'[t] = "add" /\ arg'[t] = e
        /\ \A u \in Threads : u # t => pc'[u] = pc[u] /\ arg'[u] = arg[u]
        /\ \A x \in Pending \cap FdEvents : index'[x] = index[x]
    BY <2>1 DEF TypeInv, TypeOK, Events
  <2>3. QED BY <2>1, <2>2, QueuesCall
<1>16. ASSUME NEW t \in Threads, NEW m \in Timers, CallTimerAdd(t, m)
       PROVE  QueuesInv' /\ ServiceStutter
  <2>1. /\ UNCHANGED <<watch_table, index, timers, pending_list, cur, slot, now, fired, lpc>>
        /\ requested' = requested \cup {m} /\ m \notin requested
        /\ pc' = [pc EXCEPT ![t] = "timer"] /\ arg' = [arg EXCEPT ![t] = m]
    BY <1>16 DEF CallTimerAdd, Enter
  <2>2. /\ pc'[t] = "timer" /\ arg'[t] = m
        /\ \A u \in Threads : u # t => pc'[u] = pc[u] /\ arg'[u] = arg[u]
    BY <2>1 DEF TypeInv, TypeOK
  <2>3. QED BY <2>1, <2>2, QueuesCall
<1>17. CASE Tick
  <2>1. /\ UNCHANGED <<tables, timers, pending_list, loop, calls, history>>
        /\ now < MaxTime /\ now' = now + 1 /\ now \in Nat
    BY <1>17, NumbersAssumption DEF Tick, TypeInv, TypeOK
  <2>2. Pending' = Pending /\ Watched' = Watched
    BY <2>1 DEF Pending, Watched
  <2>3. TimersOnce'
    BY <2>1, <2>2 DEF QueuesInv, TimersOnce, NoDup
  <2>4. TimersInOrder'
    <3>1. \A m \in Timers : timeout[m] \in Nat
      BY NumbersAssumption DEF TypeInv, TypeOK
    <3>2. InOrder(timer_list)' /\ InOrder(pending_list)'
      BY <2>1 DEF QueuesInv, TimersInOrder, InOrder
    <3>3. QED BY <2>1, <2>2, <3>1, <3>2 DEF QueuesInv, TimersInOrder
  <2>5. OneAtATime' /\ QueuedEvents'
    BY <2>1, <2>2 DEF QueuesInv, OneAtATime, QueuedEvents
  <2>6. Service!Clock
    BY <2>1, <2>2 DEF Service!Clock
  <2>7. QED BY <2>3, <2>4, <2>5, <2>6 DEF QueuesInv, Service!SNext
<1>18. ASSUME UNCHANGED <<tables, timers, pending_list, loop, calls, history, now>>
       PROVE  QueuesInv' /\ ServiceStutter
  <2>1. Pending' = Pending /\ Watched' = Watched
    BY <1>18 DEF Pending, Watched
  <2>2. TimersOnce' /\ TimersInOrder'
    BY <1>18, TimersFrame DEF QueuesInv
  <2>3. OneAtATime' /\ QueuedEvents'
    BY <1>18, <2>1 DEF QueuesInv, OneAtATime, QueuedEvents
  <2>4. ServiceStutter
    BY <1>18, Stutters
  <2>5. QED BY <2>2, <2>3, <2>4 DEF QueuesInv
<1>19. ASSUME NEW f \in Fds, InputArrives(f) PROVE QueuesInv' /\ ServiceStutter
  BY <1>18, <1>19 DEF InputArrives
<1>20. CASE UNCHANGED vars
  BY <1>18, <1>20 DEF vars
<1>21. QED
  BY <1>2, <1>3, <1>4, <1>5, <1>6, <1>7, <1>8, <1>9, <1>10, <1>11, <1>12, <1>13, <1>14,
     <1>15, <1>16, <1>17, <1>19, <1>20, Zenon DEF Next, LoopThread, InLibril

\* The tables, the lists and the unprotected reads, with any number of threads that
\* call in between, do what EventService promises: timers run once, in the order of
\* their times and never early, and handlers run only for watched events.
THEOREM ServiceImplemented == Spec => ImplementsService
<1>1. Init => Service!SInit
  <2> SUFFICES ASSUME Init PROVE Service!SInit
    OBVIOUS
  <2>1. ToSet(timer_list) = {} /\ Pending = {} /\ Watched = {}
    BY EventsAssumption DEF Init, ToSet, Pending, Watched, Events
  <2>2. QED BY <2>1 DEF Init, Service!SInit
<1>2. TypeInv /\ TablesInv /\ QueuesInv /\ [Next]_vars => [Service!SNext]_(Service!svars)
  BY QueuesStep DEF ServiceStutter
<1>3. TypeInv /\ TablesInv /\ QueuesInv /\ [Next]_vars => QueuesInv'
  BY QueuesStep
<1>4. Spec => [](TypeInv /\ TablesInv)
  BY TablesInvariant
<1>5. QED
  BY <1>1, <1>2, <1>3, <1>4, QueuesInit, PTL DEF Spec, ImplementsService, Service!SSpec
=============================================================================
