-------------------------- MODULE AtChannel_proofs --------------------------
(***************************************************************************)
(* Proofs about AtChannel, for any kinds of commands, any number of        *)
(* handshake attempts and all bounds: its type invariant; and, when there  *)
(* is one command thread, the ownership of the pending response; the right *)
(* answer, which rests on an invariant about the order of the lines        *)
(* between the modem and the reader; and that no wake-up is lost.          *)
(***************************************************************************)
EXTENDS AtChannel, SequenceTheorems, TLAPS

-----------------------------------------------------------------------------
(* The type invariant *)

\* The reader has a line in hand when it enters processLine.
LineInHand == rpc = "process" => rline \in ALine

\* A call has a kind, and an attempt to make before it is at its limit.
CallUnderWay ==
  \A c \in Commanders :
    /\ pc[c] \notin {"idle", "crashed"} => op[c] \in Kinds
    /\ tries[c] < HANDSHAKE_RETRY_COUNT

TypeInv == TypeOK /\ LineInHand /\ CallUnderWay

\* The parts of TypeOK, by the thread whose state they type.
ShareOK ==
  /\ mutex \in {None} \cup Commanders
  /\ sp_response \in {None} \cup Response
  /\ s_smsPDU \in BOOLEAN /\ s_fd \in BOOLEAN /\ s_readerClosed \in BOOLEAN
ReaderOK ==
  /\ rpc \in {"none", "read", "sms", "handler", "process", "eof", "close", "closed", "report",
              "crashed"}
  /\ rline \in {None} \cup ALine
  /\ partial \in {None} \cup CutLooks
  /\ LineInHand
CommanderOK ==
  /\ pc \in [Commanders -> Places]
  /\ op \in [Commanders -> {"none"} \cup Kinds]
  /\ tries \in [Commanders -> 0..HANDSHAKE_RETRY_COUNT]
  /\ CallUnderWay
MainOK ==
  mpc \in {"open", "opening", "wait", "crashed"} /\ s_closed \in BOOLEAN /\ opens \in 0..MaxOpens
ModemOK ==
  /\ wire \in Seq(ALine)
  /\ todo \in Seq([cmd : Commands, kind : Kinds])
  /\ prompted \in {"no", "asked", "got"} /\ hungup \in BOOLEAN
  /\ said \in [Commands -> Nat]
  /\ unsol \in 0..MaxUnsol
HistoryOK ==
  /\ written \in Nat
  /\ late \in {"none", "late", "drained"} /\ calls \in 0..MaxCalls
  /\ strays \subseteq AnswerLooks /\ eaten \subseteq ALine /\ undercut \subseteq Commanders
  /\ greets \in Nat

LEMMA TypeParts ==
  TypeInv <=> ShareOK /\ ReaderOK /\ CommanderOK /\ MainOK /\ ModemOK /\ HistoryOK
BY DEF TypeInv, TypeOK, ShareOK, ReaderOK, CommanderOK, MainOK, ModemOK, HistoryOK

\* The bounds are natural numbers, and an attempt is always made.
LEMMA BoundsFacts ==
  /\ HANDSHAKE_RETRY_COUNT \in Nat /\ HANDSHAKE_RETRY_COUNT > 0
  /\ MaxCalls \in Nat /\ MaxUnsol \in Nat /\ MaxLines \in Nat /\ MaxOpens \in Nat
BY BoundsAssumption

\* Commands are numbered by natural numbers.
LEMMA CommandsNat == Commands \subseteq Nat
<1>1. MaxCalls * HANDSHAKE_RETRY_COUNT \in Int
  BY BoundsFacts
<1>2. QED BY <1>1 DEF Commands

\* A signal wakes at most one thread that sleeps.
LEMMA SignalFacts ==
  ASSUME pc \in [Commanders -> Places], Signal
  PROVE  /\ pc' \in [Commanders -> Places]
         /\ \A c \in Commanders : pc'[c] = pc[c] \/ (pc[c] = "wait" /\ pc'[c] = "woken")
<1>1. CASE pc' = pc
  BY <1>1
<1>2. CASE \E c \in {d \in Commanders : pc[d] = "wait"} : pc' = [pc EXCEPT ![c] = "woken"]
  BY <1>2 DEF Places
<1>3. QED BY <1>1, <1>2 DEF Signal

\* What a commander's step to another place keeps.
LEMMA MoveFacts ==
  ASSUME CommanderOK, NEW c \in Commanders, pc[c] \notin {"idle", "crashed"},
         NEW p \in Places, pc' = [pc EXCEPT ![c] = p], UNCHANGED <<op, tries>>
  PROVE  CommanderOK'
<1>1. \A d \in Commanders : pc'[d] = IF d = c THEN p ELSE pc[d]
  BY DEF CommanderOK
<1>2. pc' \in [Commanders -> Places]
  BY DEF CommanderOK
<1>3. CallUnderWay'
  BY <1>1 DEF CallUnderWay, CommanderOK
<1>4. QED BY <1>2, <1>3 DEF CommanderOK

\* The end of an attempt leaves the thread idle, pausing, or about to try again
\* with attempts to spare.
LEMMA AttemptEndsFacts ==
  ASSUME CommanderOK, NEW c \in Commanders, NEW e, AttemptEnds(c, e), op' = op,
         pc[c] \notin {"idle", "crashed"}
  PROVE  /\ CommanderOK'
         /\ mutex' \in {None} \cup Commanders
         /\ pc'[c] \in {"idle", "pause", "retry"}
         /\ \A d \in Commanders \ {c} : pc'[d] = pc[d]
<1>0. /\ tries[c] \in 0..HANDSHAKE_RETRY_COUNT /\ tries[c] < HANDSHAKE_RETRY_COUNT
      /\ HANDSHAKE_RETRY_COUNT \in Nat /\ HANDSHAKE_RETRY_COUNT > 0 /\ op[c] \in Kinds
  BY BoundsFacts DEF CommanderOK, CallUnderWay
<1>1. PICK p \in {"idle", "pause", "retry"}, n \in 0..HANDSHAKE_RETRY_COUNT :
        /\ n < HANDSHAKE_RETRY_COUNT
        /\ pc' = [pc EXCEPT ![c] = p] /\ mutex' \in {None} \cup Commanders
        /\ tries' = [tries EXCEPT ![c] = n]
  <2>1. CASE op[c] # "HANDSHAKE"
    <3>1. tries' = [tries EXCEPT ![c] = tries[c]]
      BY <2>1 DEF AttemptEnds, CommanderOK
    <3>2. pc' = [pc EXCEPT ![c] = "idle"] /\ mutex' = None
      BY <2>1 DEF AttemptEnds
    <3>3. QED BY <1>0, <3>1, <3>2
  <2>2. CASE op[c] = "HANDSHAKE" /\ e = "ok"
    BY <1>0, <2>2 DEF AttemptEnds
  <2>3. CASE op[c] = "HANDSHAKE" /\ e # "ok" /\ tries[c] + 1 < HANDSHAKE_RETRY_COUNT
    BY <1>0, <2>3 DEF AttemptEnds
  <2>4. CASE op[c] = "HANDSHAKE" /\ e # "ok" /\ ~(tries[c] + 1 < HANDSHAKE_RETRY_COUNT)
    BY <1>0, <2>4 DEF AttemptEnds
  <2>5. QED BY <2>1, <2>2, <2>3, <2>4
<1>2. p \in Places
  BY DEF Places
<1>3. /\ pc' \in [Commanders -> Places] /\ tries' \in [Commanders -> 0..HANDSHAKE_RETRY_COUNT]
      /\ \A d \in Commanders : /\ pc'[d] = IF d = c THEN p ELSE pc[d]
                               /\ tries'[d] = IF d = c THEN n ELSE tries[d]
  BY <1>1, <1>2 DEF CommanderOK
<1>4. CallUnderWay'
  BY <1>0, <1>1, <1>3 DEF CallUnderWay, CommanderOK
<1>5. QED BY <1>1, <1>3, <1>4 DEF CommanderOK

\* What a step leaves alone stays of its type.
LEMMA StayFacts ==
  /\ ShareOK /\ UNCHANGED <<mutex, sp_response, s_smsPDU, s_fd, s_readerClosed>> => ShareOK'
  /\ ReaderOK /\ UNCHANGED <<rpc, rline, partial>> => ReaderOK'
  /\ CommanderOK /\ UNCHANGED <<pc, op, tries>> => CommanderOK'
  /\ MainOK /\ UNCHANGED <<mpc, s_closed, opens>> => MainOK'
  /\ ModemOK /\ UNCHANGED <<wire, todo, prompted, hungup, said, unsol>> => ModemOK'
  /\ HistoryOK /\ UNCHANGED <<written, late, strays, eaten, undercut, greets, calls>> => HistoryOK'
BY DEF ShareOK, ReaderOK, LineInHand, CommanderOK, CallUnderWay, MainOK, ModemOK, HistoryOK

LEMMA TypeInit == Init => TypeInv
<1> SUFFICES ASSUME Init PROVE TypeInv
  OBVIOUS
<1> USE DEF Init
<1>1. ShareOK
  BY DEF ShareOK
<1>2. ReaderOK
  BY DEF ReaderOK, LineInHand
<1>3. CommanderOK
  <2>1. 0 \in 0..HANDSHAKE_RETRY_COUNT /\ 0 < HANDSHAKE_RETRY_COUNT
    BY BoundsFacts
  <2>2. \A c \in Commanders : pc[c] = "idle"
    OBVIOUS
  <2>3. pc \in [Commanders -> Places] /\ op \in [Commanders -> {"none"} \cup Kinds]
    BY DEF Places
  <2>4. QED BY <2>1, <2>2, <2>3 DEF CommanderOK, CallUnderWay
<1>4. MainOK /\ ModemOK /\ HistoryOK
  <2>1. /\ 0 \in Nat /\ 0 \in 0..MaxOpens /\ 0 \in 0..MaxUnsol /\ 0 \in 0..MaxCalls
        /\ \A S : {} \subseteq S
    BY BoundsFacts
  <2>2. wire \in Seq(ALine) /\ todo \in Seq([cmd : Commands, kind : Kinds])
    OBVIOUS
  <2>3. said \in [Commands -> Nat]
    OBVIOUS
  <2>4. MainOK
    BY <2>1, Zenon DEF MainOK
  <2>5. ModemOK
    BY <2>1, <2>2, <2>3, Zenon DEF ModemOK
  <2>6. HistoryOK
    BY <2>1, Zenon DEF HistoryOK
  <2>7. QED BY <2>4, <2>5, <2>6
<1>5. QED BY <1>1, <1>2, <1>3, <1>4, TypeParts

LEMMA PartsType ==
  ShareOK' /\ ReaderOK' /\ CommanderOK' /\ MainOK' /\ ModemOK' /\ HistoryOK' => TypeInv'
BY DEF TypeInv, TypeOK, ShareOK, ReaderOK, CommanderOK, MainOK, ModemOK, HistoryOK

LEMMA TypeStep == TypeInv /\ [Next]_vars => TypeInv'
<1> SUFFICES ASSUME TypeInv, [Next]_vars PROVE TypeInv'
  OBVIOUS
<1> USE TypeParts
<1>1. ASSUME NEW c \in Commanders, NEW k \in Kinds, Call(c, k)
      PROVE TypeInv'
  <2>1. ShareOK' /\ ReaderOK' /\ MainOK' /\ ModemOK'
    BY <1>1, StayFacts DEF Call, pending, reader, commander, main, modem, history
  <2>2. CommanderOK'
    <3>1. /\ pc' = [pc EXCEPT ![c] = "lock"] /\ op' = [op EXCEPT ![c] = k]
          /\ tries' = tries
      BY <1>1 DEF Call
    <3>2. /\ pc' \in [Commanders -> Places] /\ op' \in [Commanders -> {"none"} \cup Kinds]
          /\ tries' \in [Commanders -> 0..HANDSHAKE_RETRY_COUNT]
      BY <3>1, BoundsFacts DEF CommanderOK, Places
    <3>3. \A d \in Commanders :
            /\ pc'[d] = IF d = c THEN "lock" ELSE pc[d]
            /\ op'[d] = IF d = c THEN k ELSE op[d]
      BY <3>1 DEF CommanderOK
    <3>4. CallUnderWay'
      BY <3>1, <3>3 DEF CommanderOK, CallUnderWay
    <3>5. QED BY <3>2, <3>4 DEF CommanderOK
  <2>3. HistoryOK'
    <3>1. calls \in 0..MaxCalls /\ calls < MaxCalls /\ calls' = calls + 1
      BY <1>1 DEF Call, HistoryOK
    <3>2. calls' \in 0..MaxCalls
      BY <3>1, BoundsFacts
    <3>3. UNCHANGED <<written, late, strays, eaten, undercut>>
      BY <1>1 DEF Call
    <3>4. greets' \in Nat
      BY <1>1 DEF Call, HistoryOK
    <3>5. QED BY <3>2, <3>3, <3>4 DEF HistoryOK
  <2>4. QED BY <2>1, <2>2, <2>3, PartsType
<1>2. ASSUME NEW c \in Commanders, Send(c)
      PROVE TypeInv'
  <2>1. ReaderOK' /\ MainOK'
    BY <1>2, StayFacts DEF Send, reader, main
  <2>2. /\ pc[c] \notin {"idle", "crashed"} /\ op[c] \in Kinds
        /\ UNCHANGED <<op, s_fd, s_readerClosed, wire, prompted, hungup, said, unsol, late,
                       strays, eaten, undercut, greets, calls>>
    BY <1>2 DEF Send, CommanderOK, CallUnderWay
  <2>3. PICK e \in SendError :
          \/ /\ written + 1 \in Commands
             /\ written' = written + 1
             /\ todo' = IF hungup THEN todo ELSE Append(todo, [cmd |-> written', kind |-> op[c]])
             /\ sp_response' = [owner |-> c, cmd |-> written', kind |-> op[c],
                                final |-> None, lines |-> <<>>]
             /\ s_smsPDU' = (op[c] = "SMS")
             /\ pc' = [pc EXCEPT ![c] = "wait"]
             /\ mutex' = None
             /\ UNCHANGED <<tries, result>>
          \/ /\ sp_response' = None
             /\ s_smsPDU' = FALSE
             /\ AttemptEnds(c, e)
             /\ UNCHANGED <<written, todo>>
    BY <1>2, Zenon DEF Send
  <2>4. CASE /\ written + 1 \in Commands
             /\ written' = written + 1
             /\ todo' = IF hungup THEN todo ELSE Append(todo, [cmd |-> written', kind |-> op[c]])
             /\ sp_response' = [owner |-> c, cmd |-> written', kind |-> op[c],
                                final |-> None, lines |-> <<>>]
             /\ s_smsPDU' = (op[c] = "SMS")
             /\ pc' = [pc EXCEPT ![c] = "wait"]
             /\ mutex' = None
             /\ UNCHANGED <<tries, result>>
    <3>1. "wait" \in Places
      BY DEF Places
    <3>2. CommanderOK'
      BY <2>2, <2>4, <3>1, MoveFacts
    <3>3. sp_response' \in Response
      BY <2>2, <2>4 DEF Response
    <3>4. s_smsPDU' \in BOOLEAN
      BY <2>4, Zenon
    <3>5. ShareOK'
      BY <2>2, <2>4, <3>3, <3>4 DEF ShareOK
    <3>6. [cmd |-> written', kind |-> op[c]] \in [cmd : Commands, kind : Kinds]
      BY <2>2, <2>4
    <3>7. todo' \in Seq([cmd : Commands, kind : Kinds])
      <4>1. todo \in Seq([cmd : Commands, kind : Kinds])
        BY DEF ModemOK
      <4>2. Append(todo, [cmd |-> written', kind |-> op[c]]) \in Seq([cmd : Commands, kind : Kinds])
        BY <3>6, <4>1
      <4>3. QED BY <2>4, <4>1, <4>2, Zenon
    <3>8. ModemOK'
      BY <2>2, <3>7 DEF ModemOK
    <3>9. written' \in Nat
      BY <2>4, CommandsNat
    <3>10. HistoryOK'
      BY <2>2, <2>4, <3>9 DEF HistoryOK
    <3>11. QED BY <2>1, <3>2, <3>5, <3>8, <3>10, PartsType
  <2>5. CASE /\ sp_response' = None
             /\ s_smsPDU' = FALSE
             /\ AttemptEnds(c, e)
             /\ UNCHANGED <<written, todo>>
    <3>1. CommanderOK' /\ mutex' \in {None} \cup Commanders
      BY <2>2, <2>5, AttemptEndsFacts
    <3>2. ShareOK'
      BY <2>2, <2>5, <3>1 DEF ShareOK
    <3>3. ModemOK' /\ HistoryOK'
      BY <2>2, <2>5, <3>1 DEF ModemOK, HistoryOK
    <3>4. QED BY <2>1, <3>1, <3>2, <3>3, PartsType
  <2>6. QED BY <2>3, <2>4, <2>5
<1>3. ASSUME NEW c \in Commanders, TimesOut(c)
      PROVE TypeInv'
  <2>1. ShareOK' /\ ReaderOK' /\ MainOK' /\ ModemOK' /\ HistoryOK'
    BY <1>3, StayFacts DEF TimesOut, pending, reader, commander, main, modem, history
  <2>2. CommanderOK'
    <3>1. pc[c] \notin {"idle", "crashed"} /\ "timedout" \in Places
      BY <1>3 DEF TimesOut, Places
    <3>2. pc' = [pc EXCEPT ![c] = "timedout"] /\ UNCHANGED <<op, tries>>
      BY <1>3 DEF TimesOut, commander
    <3>3. QED BY <3>1, <3>2, MoveFacts
  <2>3. QED BY <2>1, <2>2, PartsType
<1>4. ASSUME NEW c \in Commanders, SpuriousWake(c)
      PROVE TypeInv'
  <2>1. ShareOK' /\ ReaderOK' /\ MainOK' /\ ModemOK' /\ HistoryOK'
    BY <1>4, StayFacts DEF SpuriousWake, pending, reader, commander, main, modem, history
  <2>2. CommanderOK'
    <3>1. pc[c] \notin {"idle", "crashed"} /\ "woken" \in Places
      BY <1>4 DEF SpuriousWake, Places
    <3>2. pc' = [pc EXCEPT ![c] = "woken"] /\ UNCHANGED <<op, tries>>
      BY <1>4 DEF SpuriousWake, commander
    <3>3. QED BY <3>1, <3>2, MoveFacts
  <2>3. QED BY <2>1, <2>2, PartsType
<1>5. ASSUME NEW c \in Commanders, GiveUp(c)
      PROVE TypeInv'
  <2>1. ReaderOK' /\ MainOK' /\ ModemOK'
    BY <1>5, StayFacts DEF GiveUp, reader, main, modem
  <2>2. /\ pc[c] \notin {"idle", "crashed"}
        /\ UNCHANGED <<op, s_fd, s_readerClosed, written, strays, eaten, greets, calls>>
        /\ sp_response' = None /\ s_smsPDU' = FALSE /\ late' = "late"
        /\ undercut' = undercut \ {c}
    BY <1>5 DEF GiveUp
  <2>3. AttemptEnds(c, "TIMEOUT")
    BY <1>5, Zenon DEF GiveUp
  <2>4. CommanderOK' /\ mutex' \in {None} \cup Commanders
    BY <2>2, <2>3, AttemptEndsFacts
  <2>5. ShareOK'
    BY <2>2, <2>4 DEF ShareOK
  <2>6. HistoryOK'
    BY <2>2, <2>4 DEF HistoryOK
  <2>7. QED BY <2>1, <2>4, <2>5, <2>6, PartsType
<1>6. ASSUME NEW c \in Commanders, WaitAgain(c)
      PROVE TypeInv'
  <2>1. ShareOK' /\ ReaderOK' /\ MainOK' /\ ModemOK' /\ HistoryOK'
    BY <1>6, StayFacts DEF WaitAgain, pending, reader, commander, main, modem, history
  <2>2. CommanderOK'
    <3>1. pc[c] \notin {"idle", "crashed"} /\ "wait" \in Places
      BY <1>6 DEF WaitAgain, Places
    <3>2. pc' = [pc EXCEPT ![c] = "wait"] /\ UNCHANGED <<op, tries>>
      BY <1>6 DEF WaitAgain, commander
    <3>3. QED BY <3>1, <3>2, MoveFacts
  <2>3. QED BY <2>1, <2>2, PartsType
<1>7. ASSUME NEW c \in Commanders, Complete(c)
      PROVE TypeInv'
  <2>1. ReaderOK' /\ MainOK' /\ ModemOK'
    BY <1>7, StayFacts DEF Complete, reader, main, modem
  <2>2. /\ pc[c] \notin {"idle", "crashed"}
        /\ UNCHANGED <<op, s_fd, s_readerClosed, written, late, strays, eaten, greets, calls>>
        /\ sp_response' = None /\ s_smsPDU' = FALSE
        /\ undercut' = undercut \ {c}
    BY <1>7 DEF Complete
  <2>3. AttemptEnds(c, ReturnError(sp_response))
    BY <1>7, Zenon DEF Complete
  <2>4. CommanderOK' /\ mutex' \in {None} \cup Commanders
    BY <2>2, <2>3, AttemptEndsFacts
  <2>5. ShareOK'
    BY <2>2, <2>4 DEF ShareOK
  <2>6. HistoryOK'
    BY <2>2, <2>4 DEF HistoryOK
  <2>7. QED BY <2>1, <2>4, <2>5, <2>6, PartsType
<1>8. ASSUME NEW c \in Commanders, PauseEnds(c)
      PROVE TypeInv'
  <2>1. ReaderOK' /\ MainOK' /\ ModemOK'
    BY <1>8, StayFacts DEF PauseEnds, reader, main, modem
  <2>2. pc' = [pc EXCEPT ![c] = "idle"] /\ UNCHANGED <<op, tries>>
    BY <1>8 DEF PauseEnds
  <2>3. pc' \in [Commanders -> Places] /\ \A d \in Commanders : pc'[d] = IF d = c THEN "idle" ELSE pc[d]
    BY <2>2 DEF CommanderOK, Places
  <2>4. CommanderOK'
    BY <2>2, <2>3 DEF CommanderOK, CallUnderWay
  <2>5. ShareOK'
    BY <1>8 DEF PauseEnds, ShareOK, pending
  <2>6. HistoryOK'
    BY <1>8 DEF PauseEnds, HistoryOK
  <2>7. QED BY <2>1, <2>4, <2>5, <2>6, PartsType
<1>9. CASE ReadLine
  <2>1. ShareOK' /\ CommanderOK' /\ MainOK'
    BY <1>9, StayFacts DEF ReadLine, pending, reader, commander, main, modem, history
  <2>2. ReaderOK'
    <3>1. wire \in Seq(ALine) /\ wire # <<>>
      BY <1>9 DEF ReadLine, ModemOK
    <3>2. Head(wire) \in ALine
      BY <3>1
    <3>3. ASSUME partial # None PROVE Line(partial, 0, 0) \in ALine
      BY <3>3, CommandsNat DEF Line, ALine, Looks, CutLooks, ReaderOK
    <3>4. rline' \in ALine
      BY <1>9, <3>2, <3>3, Zenon DEF ReadLine
    <3>5. rpc' \in {"handler", "sms", "process"} /\ partial' = None
      BY <1>9 DEF ReadLine
    <3>6. QED BY <3>4, <3>5 DEF ReaderOK, LineInHand
  <2>3. ModemOK'
    <3>1. wire \in Seq(ALine) /\ wire # <<>>
      BY <1>9 DEF ReadLine, ModemOK
    <3>2. Tail(wire) \in Seq(ALine)
      BY <3>1
    <3>3. wire' \in Seq(ALine)
      BY <1>9, <3>1, <3>2 DEF ReadLine
    <3>4. QED BY <1>9, <3>3 DEF ReadLine, ModemOK
  <2>4. HistoryOK'
    <3>1. Head(wire) \in ALine /\ eaten \subseteq ALine
      BY <1>9 DEF ReadLine, ModemOK, HistoryOK
    <3>2. eaten' = eaten \/ eaten' = eaten \cup {Head(wire)}
      BY <1>9, Zenon DEF ReadLine, TakesIn
    <3>3. UNCHANGED <<written, late, strays, undercut, greets, calls>>
      BY <1>9 DEF ReadLine
    <3>4. QED BY <3>1, <3>2, <3>3 DEF HistoryOK
  <2>5. QED BY <2>1, <2>2, <2>3, <2>4, PartsType
<1>10. CASE SmsHandler
  <2>1. ShareOK' /\ CommanderOK' /\ MainOK' /\ ModemOK' /\ HistoryOK'
    BY <1>10, StayFacts DEF SmsHandler, pending, reader, commander, main, modem, history
  <2>2. ReaderOK'
    BY <1>10 DEF SmsHandler, ReaderOK, LineInHand
  <2>3. QED BY <2>1, <2>2, PartsType
<1>11. CASE FinalResponse
  <2>1. MainOK' /\ ModemOK' /\ HistoryOK'
    BY <1>11, StayFacts DEF FinalResponse, Processed, pending, reader, commander, main, modem, history
  <2>2. ReaderOK'
    BY <1>11 DEF FinalResponse, Processed, ReaderOK, LineInHand
  <2>3. CommanderOK'
    <3>1. Signal
      BY <1>11, Zenon DEF FinalResponse, Processed
    <3>2. /\ pc' \in [Commanders -> Places]
          /\ \A c \in Commanders : pc'[c] = pc[c] \/ (pc[c] = "wait" /\ pc'[c] = "woken")
      BY <3>1, SignalFacts DEF CommanderOK
    <3>3. UNCHANGED <<op, tries>>
      BY <1>11 DEF FinalResponse, Processed
    <3>4. CallUnderWay'
      BY <3>2, <3>3 DEF CommanderOK, CallUnderWay
    <3>5. QED BY <3>2, <3>3, <3>4 DEF CommanderOK
  <2>4. ShareOK'
    <3>1. sp_response \in Response /\ rline \in {None} \cup ALine
      BY <1>11 DEF FinalResponse, Processed, ShareOK, ReaderOK
    <3>2. sp_response' = [sp_response EXCEPT !.final = rline] /\ UNCHANGED <<mutex, s_smsPDU, s_fd, s_readerClosed>>
      BY <1>11 DEF FinalResponse, Processed
    <3>3. sp_response' \in Response
      BY <3>1, <3>2 DEF Response
    <3>4. QED BY <3>2, <3>3 DEF ShareOK
  <2>5. QED BY <2>1, <2>2, <2>3, <2>4, PartsType
<1>12. CASE Prompt
  <2>1. CommanderOK' /\ MainOK' /\ HistoryOK'
    BY <1>12, StayFacts DEF Prompt, Processed, pending, reader, commander, main, modem, history
  <2>2. ReaderOK'
    BY <1>12 DEF Prompt, Processed, ReaderOK, LineInHand
  <2>3. ShareOK'
    BY <1>12 DEF Prompt, Processed, ShareOK
  <2>4. ModemOK'
    <3>1. UNCHANGED <<wire, todo, hungup, said, unsol>>
      BY <1>12 DEF Prompt
    <3>2. prompted' \in {"no", "asked", "got"}
      BY <1>12 DEF Prompt, ModemOK
    <3>3. QED BY <3>1, <3>2 DEF ModemOK
  <2>5. QED BY <2>1, <2>2, <2>3, <2>4, PartsType
<1>13. CASE Intermediate
  <2>1. CommanderOK' /\ MainOK' /\ ModemOK' /\ HistoryOK'
    BY <1>13, StayFacts DEF Intermediate, Processed, pending, reader, commander, main, modem, history
  <2>2. ReaderOK'
    BY <1>13 DEF Intermediate, Processed, ReaderOK, LineInHand
  <2>3. ShareOK'
    <3>1. sp_response \in Response /\ rline \in ALine
      BY <1>13 DEF Intermediate, Processed, ShareOK, ReaderOK, LineInHand
    <3>2. /\ sp_response' = [sp_response EXCEPT !.lines = <<<<rline.for, rline.i>>>> \o sp_response.lines]
          /\ UNCHANGED <<mutex, s_smsPDU, s_fd, s_readerClosed>>
      BY <1>13 DEF Intermediate, Processed
    <3>3. <<rline.for, rline.i>> \in ({0} \cup Commands) \X Nat
      BY <3>1 DEF ALine
    <3>4. sp_response.lines \in Seq(({0} \cup Commands) \X Nat)
      BY <3>1 DEF Response
    <3>5. <<<<rline.for, rline.i>>>> \o sp_response.lines \in Seq(({0} \cup Commands) \X Nat)
      BY <3>3, <3>4
    <3>6. sp_response' \in Response
      BY <3>1, <3>2, <3>5 DEF Response
    <3>7. QED BY <3>2, <3>6 DEF ShareOK
  <2>4. QED BY <2>1, <2>2, <2>3, PartsType
<1>14. CASE Unsolicited
  <2>1. ShareOK' /\ CommanderOK' /\ MainOK' /\ ModemOK' /\ HistoryOK'
    BY <1>14, StayFacts DEF Unsolicited, Processed, pending, reader, commander, main, modem, history
  <2>2. ReaderOK'
    BY <1>14 DEF Unsolicited, Processed, ReaderOK, LineInHand
  <2>3. QED BY <2>1, <2>2, PartsType
<1>15. CASE EndOfInput
  <2>1. ShareOK' /\ CommanderOK' /\ MainOK' /\ HistoryOK'
    BY <1>15, StayFacts DEF EndOfInput, pending, reader, commander, main, modem, history
  <2>2. ReaderOK'
    BY <1>15 DEF EndOfInput, ReaderOK, LineInHand
  <2>3. ModemOK'
    <3>1. unsol' \in 0..MaxUnsol
      BY <1>15, BoundsFacts DEF EndOfInput, ModemOK
    <3>2. UNCHANGED <<wire, todo, prompted, hungup, said>>
      BY <1>15 DEF EndOfInput
    <3>3. QED BY <3>1, <3>2 DEF ModemOK
  <2>4. QED BY <2>1, <2>2, <2>3, PartsType
<1>16. CASE OnReaderClosed
  <2>1. MainOK' /\ ModemOK' /\ HistoryOK'
    BY <1>16, StayFacts DEF OnReaderClosed, CloseAndSignal, pending, reader, commander, main, modem, history
  <2>2. ReaderOK'
    BY <1>16 DEF OnReaderClosed, ReaderOK, LineInHand
  <2>3. CommanderOK'
    <3>1. Signal
      BY <1>16, Zenon DEF OnReaderClosed, CloseAndSignal
    <3>2. /\ pc' \in [Commanders -> Places]
          /\ \A c \in Commanders : pc'[c] = pc[c] \/ (pc[c] = "wait" /\ pc'[c] = "woken")
      BY <3>1, SignalFacts DEF CommanderOK
    <3>3. UNCHANGED <<op, tries>>
      BY <1>16 DEF OnReaderClosed, CloseAndSignal
    <3>4. CallUnderWay'
      BY <3>2, <3>3 DEF CommanderOK, CallUnderWay
    <3>5. QED BY <3>2, <3>3, <3>4 DEF CommanderOK
  <2>4. ShareOK'
    BY <1>16 DEF OnReaderClosed, CloseAndSignal, ShareOK, pending
  <2>5. QED BY <2>1, <2>2, <2>3, <2>4, PartsType
<1>17. CASE AtClose
  <2>1. MainOK' /\ ModemOK' /\ HistoryOK'
    BY <1>17, StayFacts DEF AtClose, CloseAndSignal, pending, reader, commander, main, modem, history
  <2>2. ReaderOK'
    BY <1>17 DEF AtClose, ReaderOK, LineInHand
  <2>3. CommanderOK'
    <3>1. Signal
      BY <1>17, Zenon DEF AtClose, CloseAndSignal
    <3>2. /\ pc' \in [Commanders -> Places]
          /\ \A c \in Commanders : pc'[c] = pc[c] \/ (pc[c] = "wait" /\ pc'[c] = "woken")
      BY <3>1, SignalFacts DEF CommanderOK
    <3>3. UNCHANGED <<op, tries>>
      BY <1>17 DEF AtClose, CloseAndSignal
    <3>4. CallUnderWay'
      BY <3>2, <3>3 DEF CommanderOK, CallUnderWay
    <3>5. QED BY <3>2, <3>3, <3>4 DEF CommanderOK
  <2>4. ShareOK'
    BY <1>17 DEF AtClose, CloseAndSignal, ShareOK, pending
  <2>5. QED BY <2>1, <2>2, <2>3, <2>4, PartsType
<1>18. CASE AtCloseFd
  <2>1. CommanderOK' /\ MainOK' /\ ModemOK' /\ HistoryOK'
    BY <1>18, StayFacts DEF AtCloseFd, pending, reader, commander, main, modem, history
  <2>2. ReaderOK'
    BY <1>18 DEF AtCloseFd, ReaderOK, LineInHand
  <2>3. ShareOK'
    BY <1>18, Zenon DEF AtCloseFd, ShareOK, pending
  <2>4. QED BY <2>1, <2>2, <2>3, PartsType
<1>19. CASE ReportClosed
  <2>1. ShareOK' /\ CommanderOK' /\ ModemOK' /\ HistoryOK'
    BY <1>19, StayFacts DEF ReportClosed, pending, reader, commander, main, modem, history
  <2>2. ReaderOK'
    BY <1>19 DEF ReportClosed, ReaderOK, LineInHand
  <2>3. MainOK'
    BY <1>19, Zenon DEF ReportClosed, MainOK
  <2>4. QED BY <2>1, <2>2, <2>3, PartsType
<1>20. CASE AtOpenFlags
  <2>1. ReaderOK' /\ CommanderOK'
    BY <1>20, StayFacts DEF AtOpenFlags, pending, reader, commander, main, modem, history
  <2>2. ShareOK'
    BY <1>20, Zenon DEF AtOpenFlags, ShareOK, pending
  <2>3. MainOK'
    <3>1. opens \in 0..MaxOpens /\ opens < MaxOpens /\ opens' = opens + 1
      BY <1>20 DEF AtOpenFlags, MainOK
    <3>2. opens' \in 0..MaxOpens
      BY <3>1, BoundsFacts
    <3>3. mpc' = "opening" /\ s_closed' = FALSE
      BY <1>20 DEF AtOpenFlags
    <3>4. QED BY <3>2, <3>3, Zenon DEF MainOK
  <2>4. ModemOK'
    <3>1. wire' \in Seq(ALine) /\ todo' \in Seq([cmd : Commands, kind : Kinds])
      BY <1>20 DEF AtOpenFlags
    <3>2. prompted' = "no" /\ hungup' = FALSE /\ UNCHANGED <<said, unsol>>
      BY <1>20 DEF AtOpenFlags
    <3>3. QED BY <3>1, <3>2, Zenon DEF ModemOK
  <2>5. HistoryOK'
    <3>1. /\ late' = "none" /\ strays' \subseteq AnswerLooks
          /\ UNCHANGED <<written, eaten, greets, calls>>
      BY <1>20 DEF AtOpenFlags
    <3>2. undercut' \subseteq Commanders
      BY <1>20 DEF AtOpenFlags, Undercut, HistoryOK
    <3>3. QED BY <3>1, <3>2 DEF HistoryOK
  <2>6. QED BY <2>1, <2>2, <2>3, <2>4, <2>5, PartsType
<1>21. CASE AtOpenResponse
  <2>1. CommanderOK' /\ ModemOK'
    BY <1>21, StayFacts DEF AtOpenResponse, pending, reader, commander, main, modem, history
  <2>2. ShareOK'
    BY <1>21, Zenon DEF AtOpenResponse, ShareOK
  <2>3. ReaderOK'
    BY <1>21 DEF AtOpenResponse, ReaderOK, LineInHand
  <2>4. MainOK'
    BY <1>21 DEF AtOpenResponse, MainOK
  <2>5. HistoryOK'
    BY <1>21 DEF AtOpenResponse, Undercut, HistoryOK
  <2>6. QED BY <2>1, <2>2, <2>3, <2>4, <2>5, PartsType
<1>22. CASE MainWakes
  <2>1. ShareOK' /\ ReaderOK' /\ CommanderOK' /\ ModemOK' /\ HistoryOK'
    BY <1>22, StayFacts DEF MainWakes, pending, reader, commander, main, modem, history
  <2>2. MainOK'
    BY <1>22 DEF MainWakes, MainOK
  <2>3. QED BY <2>1, <2>2, PartsType
<1>23. CASE ModemIntermediate
  <2>1. ShareOK' /\ ReaderOK' /\ CommanderOK' /\ MainOK' /\ HistoryOK'
    BY <1>23, StayFacts DEF ModemIntermediate, pending, reader, commander, main, modem, history
  <2>2. ModemOK'
    <3>1. todo \in Seq([cmd : Commands, kind : Kinds]) /\ todo # <<>> /\ wire \in Seq(ALine)
      BY <1>23 DEF ModemIntermediate, MayAnswer, ModemOK
    <3>2. Head(todo) \in [cmd : Commands, kind : Kinds]
      BY <3>1, HeadTailProperties, Zenon
    <3>3. Head(todo).cmd \in Commands
      BY <3>2
    <3> DEFINE m == Head(todo).cmd
    <3>4. /\ said' = [said EXCEPT ![m] = said[m] + 1]
          /\ UNCHANGED <<todo, prompted, hungup, unsol>>
          /\ wire' = Append(wire, Line(IF Head(todo).kind = "CMGR" /\ said[m] = 1 THEN "pdu" ELSE "match", m, said'[m]))
      BY <1>23 DEF ModemIntermediate, ModemSays
    <3>5. said' \in [Commands -> Nat] /\ said'[m] \in Nat
      BY <3>3, <3>4 DEF ModemOK
    <3>6. \A look \in Looks : Line(look, m, said'[m]) \in ALine
      BY <3>3, <3>5 DEF Line, ALine
    <3>7. "pdu" \in Looks /\ "match" \in Looks
      BY DEF Looks
    <3>8. wire' \in Seq(ALine)
      BY <3>1, <3>4, <3>6, <3>7
    <3>9. QED BY <3>4, <3>5, <3>8 DEF ModemOK
  <2>3. QED BY <2>1, <2>2, PartsType
<1>24. CASE ModemPrompt
  <2>1. ShareOK' /\ ReaderOK' /\ CommanderOK' /\ MainOK' /\ HistoryOK'
    BY <1>24, StayFacts DEF ModemPrompt, pending, reader, commander, main, modem, history
  <2>2. ModemOK'
    <3>1. todo \in Seq([cmd : Commands, kind : Kinds]) /\ todo # <<>> /\ wire \in Seq(ALine)
      BY <1>24 DEF ModemPrompt, MayAnswer, ModemOK
    <3>2. Head(todo) \in [cmd : Commands, kind : Kinds]
      BY <3>1, HeadTailProperties, Zenon
    <3>3. Head(todo).cmd \in Commands
      BY <3>2
    <3>4. Line("prompt", Head(todo).cmd, 0) \in ALine
      BY <3>3 DEF Line, ALine, Looks
    <3>5. wire' \in Seq(ALine)
      BY <1>24, <3>1, <3>4 DEF ModemPrompt, ModemSays
    <3>6. prompted' = "asked" /\ UNCHANGED <<todo, hungup, said, unsol>>
      BY <1>24 DEF ModemPrompt
    <3>7. QED BY <3>5, <3>6 DEF ModemOK
  <2>3. QED BY <2>1, <2>2, PartsType
<1>25. CASE ModemFinal
  <2>1. ShareOK' /\ ReaderOK' /\ CommanderOK' /\ MainOK' /\ HistoryOK'
    BY <1>25, StayFacts DEF ModemFinal, pending, reader, commander, main, modem, history
  <2>2. ModemOK'
    <3>1. todo \in Seq([cmd : Commands, kind : Kinds]) /\ todo # <<>> /\ wire \in Seq(ALine)
      BY <1>25 DEF ModemFinal, MayAnswer, ModemOK
    <3>2. Head(todo) \in [cmd : Commands, kind : Kinds]
      BY <3>1, HeadTailProperties, Zenon
    <3>3. Head(todo).cmd \in Commands
      BY <3>2
    <3>4. \A look \in FinalLooks : Line(look, Head(todo).cmd, 0) \in ALine
      BY <3>3 DEF Line, ALine, Looks, FinalLooks
    <3>5. PICK look \in FinalLooks : wire' = Append(wire, Line(look, Head(todo).cmd, 0))
      BY <1>25 DEF ModemFinal, ModemSays
    <3>6. wire' \in Seq(ALine)
      BY <3>1, <3>4, <3>5
    <3>7. todo' = Tail(todo) /\ prompted' = "no" /\ UNCHANGED <<hungup, said, unsol>>
      BY <1>25 DEF ModemFinal
    <3>8. todo' \in Seq([cmd : Commands, kind : Kinds])
      BY <3>1, <3>7
    <3>9. QED BY <3>6, <3>7, <3>8 DEF ModemOK
  <2>3. QED BY <2>1, <2>2, PartsType
<1>26. CASE ModemUnsolicited
  <2>1. ShareOK' /\ ReaderOK' /\ CommanderOK' /\ MainOK'
    BY <1>26, StayFacts DEF ModemUnsolicited, pending, reader, commander, main, modem, history
  <2>2. ModemOK'
    <3>1. /\ \A look \in {"unsol"} \cup AnswerLooks : Line(look, 0, 0) \in ALine
          /\ Line("sms", 0, 0) \in ALine /\ Line("pdu", 0, 0) \in ALine
      BY DEF Line, ALine, Looks, AnswerLooks, FinalLooks
    <3>2. wire \in Seq(ALine) /\ unsol \in 0..MaxUnsol
      BY DEF ModemOK
    <3>3. wire' \in Seq(ALine)
      <4>1. ASSUME NEW look \in {"unsol"} \cup AnswerLooks, wire' = Append(wire, Line(look, 0, 0))
            PROVE wire' \in Seq(ALine)
        BY <3>1, <3>2, <4>1, AppendProperties
      <4>2. CASE wire' = wire \o <<Line("sms", 0, 0), Line("pdu", 0, 0)>>
        <5>1. <<Line("sms", 0, 0), Line("pdu", 0, 0)>> \in Seq(ALine)
          BY <3>1
        <5>2. QED BY <3>2, <4>2, <5>1, ConcatProperties
      <4>3. QED BY <1>26, <4>1, <4>2, Zenon DEF ModemUnsolicited, ModemSays
    <3>4. unsol' \in 0..MaxUnsol
      BY <1>26, <3>2, BoundsFacts DEF ModemUnsolicited
    <3>5. UNCHANGED <<todo, prompted, hungup, said>>
      BY <1>26 DEF ModemUnsolicited
    <3>6. QED BY <3>3, <3>4, <3>5 DEF ModemOK
  <2>3. HistoryOK'
    <3>1. strays' \subseteq AnswerLooks
      BY <1>26 DEF ModemUnsolicited, HistoryOK
    <3>2. QED BY <1>26, <3>1 DEF ModemUnsolicited, HistoryOK
  <2>4. QED BY <2>1, <2>2, <2>3, PartsType
<1>27. CASE HangUp
  <2>1. ShareOK' /\ ReaderOK' /\ CommanderOK' /\ MainOK' /\ HistoryOK'
    BY <1>27, StayFacts DEF HangUp, pending, reader, commander, main, modem, history
  <2>2. ModemOK'
    <3>1. hungup' = TRUE /\ todo' = <<>> /\ prompted' = "no" /\ UNCHANGED <<wire, said, unsol>>
      BY <1>27 DEF HangUp
    <3>2. todo' \in Seq([cmd : Commands, kind : Kinds])
      BY <3>1
    <3>3. QED BY <3>1, <3>2, Zenon DEF ModemOK
  <2>3. QED BY <2>1, <2>2, PartsType
<1>28. ASSUME NEW c \in Commanders, FollowsNull(c)
       PROVE TypeInv'
  <2>1. ShareOK'
    BY <1>28 DEF FollowsNull, ShareOK, pending
  <2>2. HistoryOK'
    BY <1>28, StayFacts DEF FollowsNull, history
  <2>3. ReaderOK'
    BY <1>28 DEF FollowsNull, ReaderOK, LineInHand
  <2>4. MainOK'
    BY <1>28 DEF FollowsNull, MainOK
  <2>5. CommanderOK'
    BY <1>28 DEF FollowsNull, CommanderOK, CallUnderWay, Places
  <2>6. ModemOK'
    <3>1. wire' \in Seq(ALine) /\ todo' \in Seq([cmd : Commands, kind : Kinds])
      BY <1>28 DEF FollowsNull
    <3>2. hungup' = TRUE /\ UNCHANGED <<prompted, said, unsol>>
      BY <1>28 DEF FollowsNull
    <3>3. QED BY <3>1, <3>2, Zenon DEF ModemOK
  <2>7. QED BY <2>1, <2>2, <2>3, <2>4, <2>5, <2>6, PartsType
<1>29. CASE UNCHANGED vars
  BY <1>29, StayFacts, PartsType DEF vars, pending, reader, commander, main, modem, history
<1>30. QED
  BY <1>1, <1>2, <1>3, <1>4, <1>5, <1>6, <1>7, <1>8, <1>9, <1>10, <1>11, <1>12, <1>13, <1>14, <1>15, <1>16, <1>17, <1>18, <1>19, <1>20, <1>21, <1>22, <1>23, <1>24, <1>25, <1>26, <1>27, <1>28, <1>29
  DEF Next, Commander, Reader, ProcessLine, Main, Modem

\* Type correctness of the channel (TypeOK), among others that a handshake makes
\* at most HANDSHAKE_RETRY_COUNT attempts.
THEOREM TypeCorrect == Spec => []TypeOK
<1>1. TypeInv => TypeOK
  BY DEF TypeInv
<1>2. QED BY TypeInit, TypeStep, <1>1, PTL DEF Spec

-----------------------------------------------------------------------------
(* The pending response *)

\* As in the reference RIL: one thread sends every command.
SoleCommander == \A c, d \in Commanders : c = d

\* A thread that at_open caught waiting waits on, and nothing is pending once at_open is over.
CaughtWaiting ==
  undercut # {} => /\ \A c \in Commanders : pc[c] \in Waiting \cup {"crashed"}
                   /\ mpc = "opening" \/ sp_response = None

OwnInv == ResponseOwned /\ CaughtWaiting

LEMMA OwnInit == Init => OwnInv
<1> SUFFICES ASSUME Init PROVE OwnInv
  OBVIOUS
<1>1. /\ sp_response = None /\ s_smsPDU = FALSE /\ undercut = {}
      /\ \A c \in Commanders : pc[c] = "idle"
  BY DEF Init
<1>2. QED BY <1>1 DEF OwnInv, ResponseOwned, CaughtWaiting, Waiting

\* A step that changes neither the pending command, nor who waits, nor the main
\* loop's place keeps the invariant.
LEMMA OwnStays ==
  ASSUME OwnInv, UNCHANGED pending, UNCHANGED <<mpc, undercut>>,
         sp_response \in {None} \cup Response,
         \A c \in Commanders :
           /\ pc'[c] \in Waiting <=> pc[c] \in Waiting
           /\ pc[c] = "crashed" => pc'[c] = "crashed"
  PROVE  OwnInv'
<1>1. sp_response # None => sp_response.owner \in Commanders
  BY DEF Response
<1>2. QED BY <1>1 DEF OwnInv, ResponseOwned, CaughtWaiting, pending

\* Once the command's own thread leaves the wait, nothing is pending.
LEMMA OwnClears ==
  ASSUME SoleCommander, OwnInv, sp_response' = None, s_smsPDU' = FALSE, undercut \subseteq Commanders,
         NEW c \in Commanders, pc'[c] \notin Waiting,
         undercut' = undercut \ {c} \/ (undercut' = undercut /\ pc[c] \notin Waiting \cup {"crashed"})
  PROVE  OwnInv'
<1>1. undercut' = {}
  BY DEF SoleCommander, OwnInv, CaughtWaiting
<1>2. QED BY <1>1 DEF SoleCommander, OwnInv, ResponseOwned, CaughtWaiting

LEMMA OwnStep ==
  ASSUME SoleCommander, TypeInv, OwnInv, [Next]_vars
  PROVE  OwnInv'
<1> USE TypeParts
<1>0. /\ pc \in [Commanders -> Places] /\ sp_response \in {None} \cup Response
      /\ None \notin Response /\ undercut \subseteq Commanders
  BY NoneAssumption DEF CommanderOK, ShareOK, HistoryOK
<1>1. ASSUME NEW c \in Commanders, NEW k \in Kinds, Call(c, k)
      PROVE OwnInv'
  <2>1. pc[c] = "idle" /\ pc' = [pc EXCEPT ![c] = "lock"] /\ UNCHANGED <<pending, mpc, undercut>>
    BY <1>1 DEF Call, main
  <2>2. \A d \in Commanders : pc'[d] = IF d = c THEN "lock" ELSE pc[d]
    BY <1>0, <2>1
  <2>3. QED BY <1>0, <2>1, <2>2, OwnStays DEF Waiting
<1>2. ASSUME NEW c \in Commanders, Send(c)
      PROVE OwnInv'
  <2>1. /\ pc[c] \notin {"idle", "crashed"} /\ pc[c] \notin Waiting \cup {"crashed"}
        /\ UNCHANGED <<op, mpc, undercut>>
    BY <1>2 DEF Send, main, Waiting
  <2>2. PICK e \in SendError :
          IF e = "ok"
          THEN /\ written + 1 \in Commands
               /\ written' = written + 1
               /\ sp_response' = [owner |-> c, cmd |-> written', kind |-> op[c],
                                 final |-> None, lines |-> <<>>]
               /\ s_smsPDU' = (op[c] = "SMS")
               /\ pc' = [pc EXCEPT ![c] = "wait"]
          ELSE /\ sp_response' = None
               /\ s_smsPDU' = FALSE
               /\ AttemptEnds(c, e)
    BY <1>2, Zenon DEF Send
  <2>3. CASE e = "ok"
    <3>1. /\ pc'[c] = "wait" /\ sp_response'.owner = c /\ sp_response'.kind = op[c]
          /\ \A d \in Commanders : d = c
      BY <1>0, <2>2, <2>3 DEF SoleCommander
    <3>2. sp_response' # None
      <4>1. TypeInv'
        BY TypeStep
      <4>2. CASE sp_response' \in Response
        BY <1>0, <4>2
      <4>3. sp_response' \in Response
        <5>1. sp_response' = [owner |-> c, cmd |-> written', kind |-> op[c], final |-> None, lines |-> <<>>]
          BY <2>2, <2>3
        <5>2. written' \in Commands
          BY <2>2, <2>3, Zenon
        <5>3. op[c] \in Kinds
          BY <2>1 DEF CommanderOK, CallUnderWay
        <5>4. QED BY <5>1, <5>2, <5>3 DEF Response
      <4>4. QED BY <4>2, <4>3
    <3>3. s_smsPDU' => op[c] = "SMS"
      BY <2>2, <2>3, Zenon
    <3>4. "wait" \in Waiting
      BY DEF Waiting
    <3>5. ResponseOwned'
      BY <3>1, <3>2, <3>3, <3>4 DEF ResponseOwned
    <3>6. undercut' = {}
      BY <2>1 DEF OwnInv, CaughtWaiting
    <3>7. QED BY <3>5, <3>6 DEF OwnInv, CaughtWaiting
  <2>4. CASE e # "ok"
    <3>1. pc'[c] \in {"idle", "pause", "retry"}
      BY <2>1, <2>2, <2>4, AttemptEndsFacts
    <3>2. pc'[c] \notin Waiting
      BY <3>1 DEF Waiting
    <3>3. sp_response' = None /\ s_smsPDU' = FALSE
      BY <2>2, <2>4
    <3>4. QED BY <1>0, <2>1, <3>2, <3>3, OwnClears
  <2>5. QED BY <2>3, <2>4
<1>3. ASSUME NEW c \in Commanders, TimesOut(c)
      PROVE OwnInv'
  <2>1. pc[c] \in Waiting /\ pc' = [pc EXCEPT ![c] = "timedout"] /\ UNCHANGED <<pending, mpc, undercut>>
    BY <1>3 DEF TimesOut, Waiting, main, history
  <2>2. \A d \in Commanders : pc'[d] = IF d = c THEN "timedout" ELSE pc[d]
    BY <1>0, <2>1
  <2>3. QED BY <1>0, <2>1, <2>2, OwnStays DEF Waiting
<1>4. ASSUME NEW c \in Commanders, SpuriousWake(c)
      PROVE OwnInv'
  <2>1. pc[c] \in Waiting /\ pc' = [pc EXCEPT ![c] = "woken"] /\ UNCHANGED <<pending, mpc, undercut>>
    BY <1>4 DEF SpuriousWake, Waiting, main, history
  <2>2. \A d \in Commanders : pc'[d] = IF d = c THEN "woken" ELSE pc[d]
    BY <1>0, <2>1
  <2>3. QED BY <1>0, <2>1, <2>2, OwnStays DEF Waiting
<1>5. ASSUME NEW c \in Commanders, WaitAgain(c)
      PROVE OwnInv'
  <2>1. pc[c] \in Waiting /\ pc' = [pc EXCEPT ![c] = "wait"] /\ UNCHANGED <<pending, mpc, undercut>>
    BY <1>5 DEF WaitAgain, Waiting, main, history
  <2>2. \A d \in Commanders : pc'[d] = IF d = c THEN "wait" ELSE pc[d]
    BY <1>0, <2>1
  <2>3. QED BY <1>0, <2>1, <2>2, OwnStays DEF Waiting
<1>6. ASSUME NEW c \in Commanders, GiveUp(c)
      PROVE OwnInv'
  <2>1. /\ pc[c] \notin {"idle", "crashed"} /\ op' = op /\ undercut' = undercut \ {c}
        /\ sp_response' = None /\ s_smsPDU' = FALSE
    BY <1>6 DEF GiveUp
  <2>2. AttemptEnds(c, "TIMEOUT")
    BY <1>6, Zenon DEF GiveUp
  <2>3. pc'[c] \notin Waiting
    BY <2>1, <2>2, AttemptEndsFacts DEF Waiting
  <2>4. QED BY <1>0, <2>1, <2>3, OwnClears
<1>7. ASSUME NEW c \in Commanders, Complete(c)
      PROVE OwnInv'
  <2>1. /\ pc[c] \notin {"idle", "crashed"} /\ op' = op /\ undercut' = undercut \ {c}
        /\ sp_response' = None /\ s_smsPDU' = FALSE
    BY <1>7 DEF Complete
  <2>2. AttemptEnds(c, ReturnError(sp_response))
    BY <1>7, Zenon DEF Complete
  <2>3. pc'[c] \notin Waiting
    BY <2>1, <2>2, AttemptEndsFacts DEF Waiting
  <2>4. QED BY <1>0, <2>1, <2>3, OwnClears
<1>8. ASSUME NEW c \in Commanders, PauseEnds(c)
      PROVE OwnInv'
  <2>1. pc[c] = "pause" /\ pc' = [pc EXCEPT ![c] = "idle"] /\ UNCHANGED <<pending, mpc, undercut>>
    BY <1>8 DEF PauseEnds, main
  <2>2. \A d \in Commanders : pc'[d] = IF d = c THEN "idle" ELSE pc[d]
    BY <1>0, <2>1
  <2>3. QED BY <1>0, <2>1, <2>2, OwnStays DEF Waiting
<1>9. CASE FinalResponse
  <2>1. /\ sp_response # None /\ sp_response' = [sp_response EXCEPT !.final = rline]
        /\ UNCHANGED <<s_smsPDU, mpc, undercut>>
    BY <1>9 DEF FinalResponse, Processed, main, history
  <2>2. sp_response' \in Response /\ sp_response'.owner = sp_response.owner
        /\ sp_response'.kind = sp_response.kind /\ sp_response.owner \in Commanders
    <3>1. rline \in {None} \cup ALine
      BY DEF ReaderOK
    <3>2. QED BY <1>0, <2>1, <3>1 DEF Response
  <2>3. \A d \in Commanders : pc'[d] = pc[d] \/ (pc[d] = "wait" /\ pc'[d] = "woken")
    BY <1>9, <1>0, SignalFacts DEF FinalResponse
  <2>4. \A d \in Commanders : /\ pc'[d] \in Waiting <=> pc[d] \in Waiting
                              /\ pc[d] = "crashed" => pc'[d] = "crashed"
    BY <2>3 DEF Waiting
  <2>5. ResponseOwned'
    BY <1>0, <2>1, <2>2, <2>4 DEF OwnInv, ResponseOwned
  <2>6. QED BY <2>1, <2>4, <2>5 DEF OwnInv, CaughtWaiting
<1>10. CASE Prompt
  <2>1. UNCHANGED <<sp_response, pc, mpc, undercut>> /\ s_smsPDU' = FALSE
    BY <1>10 DEF Prompt, Processed, main, history
  <2>2. QED BY <2>1 DEF OwnInv, ResponseOwned, CaughtWaiting
<1>11. CASE Intermediate
  <2>1. /\ sp_response # None /\ UNCHANGED <<s_smsPDU, pc, mpc, undercut>>
        /\ sp_response' = [sp_response EXCEPT !.lines = <<<<rline.for, rline.i>>>> \o sp_response.lines]
    BY <1>11 DEF Intermediate, Processed, main, history
  <2>2. sp_response'.owner = sp_response.owner /\ sp_response'.kind = sp_response.kind
    BY <1>0, <2>1 DEF Response
  <2>3. sp_response' # None
    <3>1. CASE sp_response' \in Response
      BY <1>0, <3>1
    <3>2. sp_response' \in Response
      <4>1. rline \in ALine
        BY <1>11 DEF Intermediate, Processed, ReaderOK, LineInHand
      <4>2. <<rline.for, rline.i>> \in ({0} \cup Commands) \X Nat
        BY <4>1 DEF ALine
      <4>3. <<<<rline.for, rline.i>>>> \o sp_response.lines \in Seq(({0} \cup Commands) \X Nat)
        BY <1>0, <2>1, <4>2 DEF Response
      <4>4. QED BY <1>0, <2>1, <4>3 DEF Response
    <3>3. QED BY <3>1, <3>2
  <2>4. QED BY <2>1, <2>2, <2>3 DEF OwnInv, ResponseOwned, CaughtWaiting
<1>12. CASE OnReaderClosed
  <2>1. UNCHANGED <<pending, mpc, undercut>>
    BY <1>12 DEF OnReaderClosed, CloseAndSignal, main, history
  <2>2. \A d \in Commanders : pc'[d] = pc[d] \/ (pc[d] = "wait" /\ pc'[d] = "woken")
    BY <1>12, <1>0, SignalFacts DEF OnReaderClosed, CloseAndSignal
  <2>3. QED BY <1>0, <2>1, <2>2, OwnStays DEF Waiting
<1>13. CASE AtClose
  <2>1. UNCHANGED <<pending, mpc, undercut>>
    BY <1>13 DEF AtClose, CloseAndSignal, main, history
  <2>2. \A d \in Commanders : pc'[d] = pc[d] \/ (pc[d] = "wait" /\ pc'[d] = "woken")
    BY <1>13, <1>0, SignalFacts DEF AtClose, CloseAndSignal
  <2>3. QED BY <1>0, <2>1, <2>2, OwnStays DEF Waiting
<1>14. CASE AtOpenFlags
  <2>1. UNCHANGED <<pending, pc>> /\ mpc' = "opening"
    BY <1>14 DEF AtOpenFlags, commander
  <2>2. undercut' = undercut \cup {c \in Commanders : pc[c] \in Waiting}
    BY <1>14 DEF AtOpenFlags, Undercut
  <2>3. ResponseOwned'
    BY <2>1, <2>2 DEF OwnInv, ResponseOwned, pending
  <2>4. CaughtWaiting'
    BY <1>0, <2>1, <2>2 DEF SoleCommander, OwnInv, CaughtWaiting
  <2>5. QED BY <2>3, <2>4 DEF OwnInv
<1>15. CASE AtOpenResponse
  <2>1. /\ sp_response' = None /\ s_smsPDU' = FALSE /\ pc' = pc
        /\ undercut' = undercut \cup {c \in Commanders : pc[c] \in Waiting}
    BY <1>15 DEF AtOpenResponse, Undercut, commander
  <2>2. ResponseOwned'
    BY <2>1 DEF ResponseOwned
  <2>3. CaughtWaiting'
    BY <1>0, <2>1 DEF SoleCommander, OwnInv, CaughtWaiting
  <2>4. QED BY <2>2, <2>3 DEF OwnInv
<1>16. CASE MainWakes
  <2>1. UNCHANGED <<pending, pc, undercut>> /\ mpc = "wait"
    BY <1>16 DEF MainWakes, commander, history
  <2>2. QED BY <2>1 DEF OwnInv, ResponseOwned, CaughtWaiting, pending
<1>17. CASE ReadLine \/ SmsHandler \/ Unsolicited \/ EndOfInput \/ AtCloseFd \/ ReportClosed
           \/ Modem \/ UNCHANGED vars
  <2>1. UNCHANGED <<pending, pc, mpc, undercut>>
    BY <1>17 DEF ReadLine, SmsHandler, Unsolicited, Processed, EndOfInput, AtCloseFd, ReportClosed,
      Modem, ModemIntermediate, ModemPrompt, ModemFinal, ModemUnsolicited, HangUp, vars,
      commander, main, history
  <2>2. QED BY <1>0, <2>1, OwnStays
<1>18. ASSUME NEW c \in Commanders, FollowsNull(c)
       PROVE OwnInv'
  <2>1. /\ UNCHANGED pending /\ sp_response = None
        /\ \A d \in Commanders : pc'[d] = "crashed"
    BY <1>18 DEF FollowsNull
  <2>2. QED BY <2>1 DEF OwnInv, ResponseOwned, CaughtWaiting, pending, Waiting
<1>19. QED
  BY <1>1, <1>2, <1>3, <1>4, <1>5, <1>6, <1>7, <1>8, <1>9, <1>10, <1>11, <1>12, <1>13, <1>14, <1>15, <1>16, <1>17, <1>18
  DEF Next, Commander, Reader, ProcessLine, Main

\* The pending response belongs to the thread that waits for it (ResponseOwned),
\* timeouts, closes, reopenings in mid-command and all, under the one condition the code
\* needs for it and does not enforce: one command thread (an error path clears another
\* thread's command).  A thread that at_open catches waiting is without its response.
THEOREM ResponseCorrect ==
  ASSUME SoleCommander
  PROVE  Spec => []ResponseOwned
<1>1. Init => TypeInv /\ OwnInv
  BY TypeInit, OwnInit
<1>2. TypeInv /\ OwnInv /\ [Next]_vars => (TypeInv /\ OwnInv)'
  BY TypeStep, OwnStep
<1>3. OwnInv => ResponseOwned
  BY DEF OwnInv
<1>4. QED BY <1>1, <1>2, <1>3, PTL DEF Spec
-----------------------------------------------------------------------------
(* The right answer                                                        *)

\* No reader thread lives while the main loop opens the channel, and the flags
\* of the close are reset.
ReaderGone ==
  /\ mpc \in {"open", "opening"} => rpc = "none"
  /\ s_closed => rpc \in {"none", "crashed"}
  /\ rpc = "crashed" => mpc = "crashed"
  /\ mpc = "opening" => ~s_closed /\ ~s_readerClosed

\* Once the reader has seen the end of input nothing is left to read or to answer.
AtTheEnd == {"eof", "close", "closed", "report"}
Ended ==
  /\ rpc \in AtTheEnd \/ s_readerClosed => hungup /\ wire = <<>>
  /\ s_readerClosed => rpc \in {"close", "closed", "report", "none", "crashed"}
  /\ hungup => todo = <<>>

\* A line cut short is read first, and counts among the stray lines of the channel
\* if it looks like a part of an answer.
CutShort ==
  /\ rpc \in {"sms", "handler", "process"} => partial = None
  /\ (rpc = "read" \/ mpc = "opening") /\ partial \in AnswerLooks \ {None} => partial \in strays

\* Commands are numbered as they are written.
Issued ==
  /\ sp_response # None => sp_response.cmd <= written /\ sp_response.kind = op[sp_response.owner]
  /\ \A p \in 1..Len(todo) : todo[p].cmd <= written
  /\ \A n \in Commands : n > written => said[n] = 0

\* Something is promised of the channel as long as no answer to a lost attempt may come, no
\* stray line looks like a final response and no thread was caught waiting by at_open.  A
\* channel is clear if no stray line looks like an intermediate line either.
Promised == late = "none" /\ strays \cap FinalLooks = {} /\ undercut = {}
Clear == "match" \notin strays

\* All lines of the pending command are there or will come: none was eaten, and no
\* stray line may be taken for the only one.
Whole == ~Eaten(sp_response.cmd) /\ (Clear \/ sp_response.kind \in {"MULTILINE", "CMGR"})

\* What a sequence s of coming lines is when r is pending and the modem has t to
\* answer: lines of no command do not look like a final response, nor, if the channel is
\* clear, like an intermediate line; the others are the pending command's, up to its final
\* response.
Answers == {"ok", "error", "match", "pdu", "prompt"}
Stray(line, clear) == line.for = 0 /\ line.look \notin FinalLooks /\ (clear => line.look # "match")
AllStray(s, clear) == \A p \in 1..Len(s) : Stray(s[p], clear)
Orderly(s, r, t, clear) ==
  /\ \A p \in 1..Len(s) :
       \/ Stray(s[p], clear)
       \/ /\ s[p].for # 0 /\ r # None /\ r.final = None /\ s[p].for = r.cmd
          /\ s[p].look \in Answers
          /\ s[p].look = "prompt" => r.kind = "SMS"
  /\ \A p \in 1..Len(s) : s[p].look \in FinalLooks =>
       t = <<>> /\ \A q \in 1..Len(s) : p < q => s[q].for = 0

\* The modem has at most the pending command to answer.
OneAsked(r, t) ==
  t # <<>> => /\ r # None /\ r.final = None
              /\ Len(t) = 1 /\ t[1].cmd = r.cmd /\ t[1].kind = r.kind

\* The pending command's intermediate lines, newest first in its response and then in order
\* among the coming ones, are numbered in turn; if it is whole, none is missing.
IsData(line) == line.for # 0 /\ line.look \in {"match", "pdu"}
DataAt(s) == {p \in 1..Len(s) : IsData(s[p])}
Numbered(s, r, total, whole) ==
  /\ \A p \in OwnPlaces(r.lines, r.cmd) : r.lines[p][2] \in 1..total
  /\ \A p, q \in OwnPlaces(r.lines, r.cmd) : p < q => r.lines[q][2] < r.lines[p][2]
  /\ \A p \in DataAt(s) : s[p].i \in 1..total
  /\ \A p, q \in DataAt(s) : p < q => s[p].i < s[q].i
  /\ \A p \in DataAt(s), q \in OwnPlaces(r.lines, r.cmd) : r.lines[q][2] < s[p].i
  /\ whole => \A i \in 1..total :
       \/ \E p \in OwnPlaces(r.lines, r.cmd) : r.lines[p][2] = i
       \/ \E p \in DataAt(s) : s[p].i = i

\* How a line looks, and how many there are, by the kind of command.
Fitting(s, r, total, clear) ==
  /\ r.final # None => r.final.for = r.cmd
  /\ clear /\ r.kind # "CMGR" => OwnPlaces(r.lines, r.cmd) = DOMAIN r.lines
  /\ \A p \in DataAt(s) : s[p].look = IF r.kind = "CMGR" /\ s[p].i # 1 THEN "pdu" ELSE "match"
  /\ r.kind \in {"NUMERIC", "SINGLELINE", "SMS"} => total <= 1
  /\ r.kind \in {"HANDSHAKE", "NO_RESULT"} => total = 0

InTurn ==
  Promised =>
    /\ Orderly(Coming, sp_response, todo, Clear)
    /\ OneAsked(sp_response, todo)
    /\ sp_response # None =>
         /\ Numbered(Coming, sp_response, said[sp_response.cmd], Whole)
         /\ Fitting(Coming, sp_response, said[sp_response.cmd], Clear)

\* While at_open runs under a command nothing is asked of the new channel.
NothingAsked ==
  mpc = "opening" /\ undercut # {} /\ late = "none" /\ strays \cap FinalLooks = {} =>
    todo = <<>> /\ AllStray(Coming, Clear)

\* A command that was answered rightly is not in the modem's hands any more.
Vouched(r) == r.err = "ok" /\ ~r.undercut /\ r.late = "none" /\ r.strays \cap FinalLooks = {}
Settled ==
  /\ DOMAIN result = Commanders
  /\ \A c \in Commanders : Vouched(result[c]) =>
       /\ result[c].cmd \in Commands /\ result[c].cmd <= written
       /\ \A p \in 1..Len(todo) : todo[p].cmd # result[c].cmd

LinesInv == ReaderGone /\ Ended /\ CutShort
AnswerInv == LinesInv /\ Issued /\ InTurn /\ NothingAsked /\ Settled /\ RightAnswer
\* What the steps of the command threads leave of the lines, unless one crashes.
LEMMA CommanderLeaves ==
  ASSUME NEW c \in Commanders, Commander(c), ~FollowsNull(c)
  PROVE  /\ UNCHANGED <<mpc, s_closed, rpc, rline, s_readerClosed, hungup, wire, partial, said,
                        strays, eaten>>
         /\ todo' = todo \/ ~hungup
         /\ late' = late \/ late' # "none"
<1>1. ASSUME NEW k \in Kinds, Call(c, k)
      PROVE  /\ UNCHANGED <<mpc, s_closed, rpc, rline, s_readerClosed, hungup, wire, partial, said,
                            strays, eaten, late>>
             /\ todo' = todo
  BY <1>1 DEF Call, reader, main, modem
<1>2. CASE Send(c)
  <2>1. UNCHANGED <<mpc, s_closed, rpc, rline, s_readerClosed, hungup, wire, partial, said,
                    strays, eaten, late>>
    BY <1>2 DEF Send, reader, main
  <2>2. todo' = todo \/ ~hungup
    BY <1>2, Zenon DEF Send
  <2>3. QED BY <2>1, <2>2
<1>3. CASE TimesOut(c)
  BY <1>3 DEF TimesOut, reader, main, modem, history
<1>4. CASE SpuriousWake(c)
  BY <1>4 DEF SpuriousWake, reader, main, modem, history
<1>5. CASE GiveUp(c)
  BY <1>5 DEF GiveUp, reader, main, modem
<1>6. CASE WaitAgain(c)
  BY <1>6 DEF WaitAgain, reader, main, modem, history
<1>7. CASE Complete(c)
  BY <1>7 DEF Complete, reader, main, modem
<1>8. CASE PauseEnds(c)
  BY <1>8 DEF PauseEnds, reader, main, modem
<1>9. QED BY <1>1, <1>2, <1>3, <1>4, <1>5, <1>6, <1>7, <1>8 DEF Commander

\* What the modem's words leave of the lines: it speaks only while the line is open.
LEMMA ModemLeaves ==
  ASSUME ModemIntermediate \/ ModemPrompt \/ ModemFinal \/ ModemUnsolicited
  PROVE  /\ UNCHANGED <<mpc, s_closed, rpc, rline, s_readerClosed, hungup, partial, late, eaten,
                        undercut>>
         /\ strays \subseteq strays' /\ ~hungup
<1>1. CASE ModemIntermediate
  BY <1>1 DEF ModemIntermediate, MayAnswer, reader, main, history
<1>2. CASE ModemPrompt
  BY <1>2 DEF ModemPrompt, MayAnswer, reader, main, history
<1>3. CASE ModemFinal
  BY <1>3 DEF ModemFinal, MayAnswer, reader, main, history
<1>4. CASE ModemUnsolicited
  BY <1>4 DEF ModemUnsolicited, reader, main
<1>5. QED BY <1>1, <1>2, <1>3, <1>4

\* The line is closed and empty at the start.
LEMMA LinesInit == Init => LinesInv
<1> SUFFICES ASSUME Init PROVE LinesInv
  OBVIOUS
<1>1. /\ rpc = "none" /\ ~s_readerClosed /\ ~s_closed /\ ~hungup /\ wire = <<>> /\ mpc = "open"
  BY DEF Init
<1>2. QED BY <1>1 DEF LinesInv, ReaderGone, Ended, CutShort, AtTheEnd

\* Every step keeps the state of the line in step with the threads.
LEMMA LinesStep ==
  ASSUME TypeInv, LinesInv, [Next]_vars
  PROVE  LinesInv'
<1> USE DEF LinesInv, ReaderGone, Ended, CutShort, AtTheEnd
<1>1. ASSUME NEW c \in Commanders, Commander(c), ~FollowsNull(c)
      PROVE  LinesInv'
  <2>1. /\ UNCHANGED <<mpc, s_closed, rpc, rline, s_readerClosed, hungup, wire, partial, strays>>
        /\ todo' = todo \/ ~hungup
    BY <1>1, CommanderLeaves
  <2>2. QED BY <2>1
<1>2. ASSUME NEW c \in Commanders, FollowsNull(c)
      PROVE  LinesInv'
  <2>1. /\ mpc' = "crashed" /\ rpc' = "crashed" /\ hungup' /\ wire' = <<>> /\ todo' = <<>>
        /\ UNCHANGED <<s_closed, s_readerClosed>>
    BY <1>2 DEF FollowsNull
  <2>2. QED BY <2>1
<1>3. CASE ReadLine
  <2>1. /\ rpc \in {"read", "sms"} /\ wire # <<>> /\ partial' = None
        /\ UNCHANGED <<mpc, s_closed, s_readerClosed, hungup, todo>>
        /\ rpc' \in {"handler", "sms", "process"}
    BY <1>3 DEF ReadLine, main
  <2>2. QED BY <2>1
<1>4. CASE SmsHandler
  <2>1. /\ rpc = "handler" /\ rpc' = "read"
        /\ UNCHANGED <<mpc, s_closed, s_readerClosed, hungup, wire, partial, todo, strays>>
    BY <1>4 DEF SmsHandler, main, modem, history
  <2>2. QED BY <2>1
<1>5. CASE ProcessLine
  <2>1. /\ rpc = "process" /\ rpc' = "read"
        /\ UNCHANGED <<mpc, s_closed, s_readerClosed, partial, strays>>
    BY <1>5 DEF ProcessLine, FinalResponse, Prompt, Intermediate, Unsolicited, Processed, main, history
  <2>2. UNCHANGED <<hungup, wire, todo>>
    BY <1>5 DEF ProcessLine, FinalResponse, Prompt, Intermediate, Unsolicited, modem
  <2>3. QED BY <2>1, <2>2
<1>6. CASE EndOfInput
  <2>1. /\ rpc \in {"read", "sms"} /\ wire = <<>> /\ hungup /\ rpc' = "eof"
        /\ UNCHANGED <<mpc, s_closed, s_readerClosed, hungup, wire, todo>>
    BY <1>6 DEF EndOfInput, main
  <2>2. QED BY <2>1
<1>7. CASE OnReaderClosed
  <2>1. /\ rpc = "eof" /\ rpc' = "close" /\ s_readerClosed' = TRUE
        /\ UNCHANGED <<mpc, s_closed, hungup, wire, partial, todo>>
    BY <1>7 DEF OnReaderClosed, CloseAndSignal, main, modem
  <2>2. QED BY <2>1
<1>8. CASE AtCloseFd
  <2>1. /\ rpc = "close" /\ rpc' = "closed"
        /\ UNCHANGED <<mpc, s_closed, s_readerClosed, hungup, wire, partial, todo>>
    BY <1>8 DEF AtCloseFd, main, modem
  <2>2. QED BY <2>1
<1>9. CASE AtClose
  <2>1. /\ rpc = "closed" /\ rpc' = "report" /\ s_readerClosed' = TRUE
        /\ UNCHANGED <<mpc, s_closed, hungup, wire, partial, todo>>
    BY <1>9 DEF AtClose, CloseAndSignal, main, modem
  <2>2. QED BY <2>1
<1>10. CASE ReportClosed
  <2>1. /\ rpc = "report" /\ rpc' = "none" /\ s_closed' = TRUE
        /\ UNCHANGED <<mpc, s_readerClosed, hungup, wire, partial, todo>>
    BY <1>10 DEF ReportClosed, modem
  <2>2. QED BY <2>1
<1>11. CASE AtOpenFlags
  <2>1. /\ mpc = "open" /\ mpc' = "opening" /\ s_closed' = FALSE /\ s_readerClosed' = FALSE
        /\ wire' = <<>> /\ todo' = <<>> /\ hungup' = FALSE /\ UNCHANGED <<rpc, partial>>
        /\ strays' = {partial} \cap AnswerLooks
    BY <1>11 DEF AtOpenFlags, reader
  <2>2. QED BY <2>1
<1>12. CASE AtOpenResponse
  <2>1. /\ mpc = "opening" /\ mpc' = "wait" /\ rpc' = "read"
        /\ UNCHANGED <<s_closed, s_readerClosed, hungup, wire, partial, todo, strays>>
    BY <1>12 DEF AtOpenResponse, modem
  <2>2. QED BY <2>1
<1>13. CASE MainWakes
  <2>1. /\ mpc = "wait" /\ mpc' = "open" /\ s_closed
        /\ UNCHANGED <<rpc, s_closed, s_readerClosed, hungup, wire, partial, todo, strays>>
    BY <1>13 DEF MainWakes, reader, modem, history
  <2>2. QED BY <2>1
<1>14. CASE ModemIntermediate \/ ModemPrompt \/ ModemFinal \/ ModemUnsolicited
  <2>1. /\ UNCHANGED <<mpc, s_closed, rpc, s_readerClosed, hungup, partial>>
        /\ strays \subseteq strays' /\ ~hungup
    BY <1>14, ModemLeaves
  <2>2. QED BY <2>1
<1>15. CASE HangUp
  <2>1. /\ rpc \in {"read", "sms", "process", "handler"} /\ hungup' = TRUE /\ todo' = <<>>
        /\ UNCHANGED <<mpc, s_closed, rpc, s_readerClosed, wire, partial, strays>>
    BY <1>15 DEF HangUp, reader, main, history
  <2>2. QED BY <2>1
<1>16. CASE UNCHANGED vars
  BY <1>16 DEF vars, reader, main, modem, history
<1>17. QED
  BY <1>1, <1>2, <1>3, <1>4, <1>5, <1>6, <1>7, <1>8, <1>9, <1>10, <1>11, <1>12, <1>13, <1>14, <1>15, <1>16
  DEF Next, Reader, Main, Modem

-----------------------------------------------------------------------------
(* Coming lines: what happens to them when one is taken from their head, put   *)
(* before them, or sent after them                                         *)

LEMMA TailLines ==
  ASSUME NEW s \in Seq(ALine), s # <<>>
  PROVE  /\ Tail(s) \in Seq(ALine) /\ Len(s) \in Nat /\ Len(Tail(s)) = Len(s) - 1 /\ 1 \in 1..Len(s)
         /\ s[1] \in ALine
         /\ \A p \in 1..Len(Tail(s)) : Tail(s)[p] = s[p + 1] /\ p + 1 \in 1..Len(s)
<1>1. Len(s) \in Nat /\ Len(s) > 0 /\ s[1] \in ALine
  OBVIOUS
<1>2. Tail(s) \in Seq(ALine) /\ Len(Tail(s)) = Len(s) - 1 /\ \A p \in 1..Len(Tail(s)) : Tail(s)[p] = s[p + 1]
  OBVIOUS
<1>3. QED BY <1>1, <1>2

LEMMA PutBefore ==
  ASSUME NEW s \in Seq(ALine), NEW x \in ALine
  PROVE  /\ <<x>> \o s \in Seq(ALine) /\ Len(s) \in Nat /\ Len(<<x>> \o s) = Len(s) + 1
         /\ (<<x>> \o s)[1] = x /\ <<x>> \o s # <<>> /\ Tail(<<x>> \o s) = s
         /\ \A p \in 1..Len(s) : (<<x>> \o s)[p + 1] = s[p]
<1>1. <<x>> \in Seq(ALine) /\ Len(<<x>>) = 1
  OBVIOUS
<1>2. /\ <<x>> \o s \in Seq(ALine) /\ Len(s) \in Nat /\ Len(<<x>> \o s) = Len(s) + 1
      /\ (<<x>> \o s)[1] = x /\ \A p \in 1..Len(s) : (<<x>> \o s)[p + 1] = s[p]
  BY <1>1
<1>3. <<x>> \o s # <<>>
  BY <1>2
<1>4. Tail(<<x>> \o s) = s
  <2>1. /\ Tail(<<x>> \o s) \in Seq(ALine) /\ Len(Tail(<<x>> \o s)) = Len(s)
        /\ \A p \in 1..Len(s) : Tail(<<x>> \o s)[p] = s[p]
    BY <1>2, <1>3, TailLines
  <2>2. QED BY <2>1, SeqEqual
<1>5. QED BY <1>2, <1>3, <1>4

LEMMA SentAfter ==
  ASSUME NEW s \in Seq(ALine), NEW x \in ALine
  PROVE  /\ Append(s, x) \in Seq(ALine) /\ Len(s) \in Nat /\ Len(Append(s, x)) = Len(s) + 1
         /\ Append(s, x)[Len(s) + 1] = x
         /\ \A p \in 1..Len(s) : Append(s, x)[p] = s[p]
OBVIOUS

\* Data lines of a tail are data lines of the sequence, one place later.
LEMMA DataOfTail ==
  ASSUME NEW s \in Seq(ALine), s # <<>>
  PROVE  /\ \A p \in DataAt(Tail(s)) : p + 1 \in DataAt(s) /\ s[p + 1] = Tail(s)[p] /\ p + 1 > 1
         /\ \A p \in DataAt(s) \ {1} : p - 1 \in DataAt(Tail(s)) /\ Tail(s)[p - 1] = s[p]
         /\ DataAt(Tail(s)) \subseteq Int /\ DataAt(s) \subseteq Int
<1>1. /\ Len(s) \in Nat /\ Len(Tail(s)) = Len(s) - 1
      /\ \A p \in 1..Len(Tail(s)) : Tail(s)[p] = s[p + 1] /\ p + 1 \in 1..Len(s)
  BY TailLines
<1>2. \A p \in DataAt(Tail(s)) : p + 1 \in DataAt(s) /\ s[p + 1] = Tail(s)[p] /\ p + 1 > 1
  BY <1>1 DEF DataAt
<1>3. ASSUME NEW p \in DataAt(s) \ {1}
      PROVE  p - 1 \in DataAt(Tail(s)) /\ Tail(s)[p - 1] = s[p]
  <2>1. p \in 1..Len(s) /\ p # 1 /\ IsData(s[p])
    BY <1>3 DEF DataAt
  <2>2. p - 1 \in 1..Len(Tail(s)) /\ (p - 1) + 1 = p
    BY <1>1, <2>1
  <2>3. Tail(s)[p - 1] = s[p]
    BY <1>1, <2>2
  <2>4. QED BY <2>1, <2>2, <2>3 DEF DataAt
<1>4. DataAt(Tail(s)) \subseteq Int /\ DataAt(s) \subseteq Int
  BY <1>1 DEF DataAt
<1>5. QED BY <1>2, <1>3, <1>4

\* A line that is put before is a data line at place 1, if it is one at all.
LEMMA DataAfterPut ==
  ASSUME NEW s \in Seq(ALine), NEW x \in ALine
  PROVE  /\ \A p \in DataAt(s) : p + 1 \in DataAt(<<x>> \o s) /\ (<<x>> \o s)[p + 1] = s[p]
         /\ \A p \in DataAt(<<x>> \o s) :
              \/ p = 1 /\ IsData(x)
              \/ p - 1 \in DataAt(s) /\ (<<x>> \o s)[p] = s[p - 1]
         /\ DataAt(<<x>> \o s) \subseteq Int /\ DataAt(s) \subseteq Int
<1> DEFINE u == <<x>> \o s
<1>1. u \in Seq(ALine) /\ u # <<>> /\ Tail(u) = s /\ u[1] = x
  BY PutBefore
<1> HIDE DEF u
<1>2. \A p \in DataAt(s) : p + 1 \in DataAt(u) /\ u[p + 1] = s[p]
  BY <1>1, DataOfTail
<1>3. \A p \in DataAt(u) : p # 1 => p - 1 \in DataAt(s) /\ s[p - 1] = u[p]
  BY <1>1, DataOfTail
<1>4. 1 \in DataAt(u) => IsData(x)
  BY <1>1 DEF DataAt
<1>5. DataAt(u) \subseteq Int /\ DataAt(s) \subseteq Int
  BY <1>1, DataOfTail
<1>6. ASSUME NEW p \in DataAt(u)
      PROVE  \/ p = 1 /\ IsData(x)
             \/ p - 1 \in DataAt(s) /\ u[p] = s[p - 1]
  <2>1. CASE p = 1
    BY <1>4, <2>1, Zenon
  <2>2. CASE p # 1
    BY <1>3, <2>2
  <2>3. QED BY <2>1, <2>2
<1>7. QED BY <1>2, <1>5, <1>6 DEF u

LEMMA DataAfterSent ==
  ASSUME NEW s \in Seq(ALine), NEW x \in ALine
  PROVE  /\ IsData(x) => DataAt(Append(s, x)) = DataAt(s) \cup {Len(s) + 1}
         /\ ~IsData(x) => DataAt(Append(s, x)) = DataAt(s)
         /\ \A p \in DataAt(s) : Append(s, x)[p] = s[p] /\ p < Len(s) + 1
         /\ Append(s, x)[Len(s) + 1] = x
         /\ DataAt(s) \subseteq Int /\ Len(s) + 1 \in Int
<1>1. /\ Len(s) \in Nat /\ Len(Append(s, x)) = Len(s) + 1
      /\ Append(s, x)[Len(s) + 1] = x
      /\ \A p \in 1..Len(s) : Append(s, x)[p] = s[p]
  BY SentAfter
<1>2. \A p : p \in DataAt(Append(s, x)) <=> p \in DataAt(s) \/ (IsData(x) /\ p = Len(s) + 1)
  BY <1>1 DEF DataAt
<1>3. /\ IsData(x) => DataAt(Append(s, x)) = DataAt(s) \cup {Len(s) + 1}
      /\ ~IsData(x) => DataAt(Append(s, x)) = DataAt(s)
  BY <1>2
<1>4. \A p \in DataAt(s) : Append(s, x)[p] = s[p] /\ p < Len(s) + 1
  BY <1>1 DEF DataAt
<1>5. DataAt(s) \subseteq Int /\ Len(s) + 1 \in Int
  BY <1>1 DEF DataAt
<1>6. QED BY <1>1, <1>3, <1>4, <1>5

-----------------------------------------------------------------------------

LEMMA OrderlyTail ==
  ASSUME NEW s \in Seq(ALine), s # <<>>, NEW r, NEW t, NEW clear, Orderly(s, r, t, clear)
  PROVE  Orderly(Tail(s), r, t, clear)
<1>1. /\ Len(s) \in Nat /\ Len(Tail(s)) = Len(s) - 1
      /\ \A p \in 1..Len(Tail(s)) : Tail(s)[p] = s[p + 1] /\ p + 1 \in 1..Len(s)
  BY TailLines
<1>2. ASSUME NEW p \in 1..Len(Tail(s))
      PROVE  \/ Stray(Tail(s)[p], clear)
             \/ /\ Tail(s)[p].for # 0 /\ r # None /\ r.final = None /\ Tail(s)[p].for = r.cmd
                /\ Tail(s)[p].look \in Answers
                /\ Tail(s)[p].look = "prompt" => r.kind = "SMS"
  <2>1. p + 1 \in 1..Len(s) /\ Tail(s)[p] = s[p + 1]
    BY <1>1
  <2>2. QED BY <2>1 DEF Orderly
<1>3. ASSUME NEW p \in 1..Len(Tail(s)), Tail(s)[p].look \in FinalLooks
      PROVE  t = <<>> /\ \A q \in 1..Len(Tail(s)) : p < q => Tail(s)[q].for = 0
  <2>1. p + 1 \in 1..Len(s) /\ s[p + 1].look \in FinalLooks
    BY <1>1, <1>3
  <2>2. t = <<>> /\ \A q \in 1..Len(s) : p + 1 < q => s[q].for = 0
    BY <2>1 DEF Orderly
  <2>3. ASSUME NEW q \in 1..Len(Tail(s)), p < q PROVE Tail(s)[q].for = 0
    <3>1. q + 1 \in 1..Len(s) /\ Tail(s)[q] = s[q + 1] /\ p + 1 < q + 1
      BY <1>1, <2>3
    <3>2. QED BY <2>2, <3>1
  <2>4. QED BY <2>2, <2>3
<1>4. QED BY <1>2, <1>3 DEF Orderly

\* The numbering of the intermediate lines does not depend on their places.
LEMMA NumberedSame ==
  ASSUME NEW s, NEW u, NEW r, NEW total, NEW whole, Numbered(s, r, total, whole),
         whole => \A i \in 1..total :
           (\E p \in DataAt(s) : s[p].i = i) => \E p \in DataAt(u) : u[p].i = i,
         \A p, q \in DataAt(u) : p < q => u[p].i < u[q].i,
         \A p \in DataAt(u) : \E q \in DataAt(s) : u[p] = s[q]
  PROVE  Numbered(u, r, total, whole)
<1> DEFINE own == OwnPlaces(r.lines, r.cmd)
<1>1. /\ \A p \in own : r.lines[p][2] \in 1..total
      /\ \A p, q \in own : p < q => r.lines[q][2] < r.lines[p][2]
      /\ \A p \in DataAt(s) : s[p].i \in 1..total
      /\ \A p \in DataAt(s), q \in own : r.lines[q][2] < s[p].i
      /\ whole => \A i \in 1..total :
           (\E p \in own : r.lines[p][2] = i) \/ (\E p \in DataAt(s) : s[p].i = i)
  BY DEF Numbered
<1> HIDE DEF own
<1>2. \A p \in DataAt(u) : u[p].i \in 1..total
  BY <1>1
<1>3. \A p \in DataAt(u), q \in own : r.lines[q][2] < u[p].i
  BY <1>1
<1>4. whole => \A i \in 1..total :
        (\E p \in own : r.lines[p][2] = i) \/ (\E p \in DataAt(u) : u[p].i = i)
  BY <1>1
<1>5. QED BY <1>1, <1>2, <1>3, <1>4 DEF Numbered, own

\* A line may be taken that is no data, or whatever it is if the response is not whole.
LEMMA NumberedTail ==
  ASSUME NEW s \in Seq(ALine), s # <<>>, NEW r, NEW total, NEW whole,
         Numbered(s, r, total, whole), whole => ~IsData(s[1])
  PROVE  Numbered(Tail(s), r, total, whole)
<1> DEFINE u == Tail(s)
<1>1. /\ \A p \in DataAt(u) : p + 1 \in DataAt(s) /\ s[p + 1] = u[p]
      /\ whole => \A p \in DataAt(s) : p - 1 \in DataAt(u) /\ u[p - 1] = s[p]
      /\ DataAt(u) \subseteq Int
  BY DataOfTail DEF DataAt
<1> HIDE DEF u
<1>2. whole => \A i \in 1..total :
        (\E p \in DataAt(s) : s[p].i = i) => \E p \in DataAt(u) : u[p].i = i
  BY <1>1
<1>3. ASSUME NEW p \in DataAt(u), NEW q \in DataAt(u), p < q PROVE u[p].i < u[q].i
  <2>1. p + 1 < q + 1
    BY <1>1, <1>3
  <2>2. p + 1 \in DataAt(s) /\ q + 1 \in DataAt(s) /\ s[p + 1] = u[p] /\ s[q + 1] = u[q]
    BY <1>1
  <2>3. s[p + 1].i < s[q + 1].i
    BY <2>1, <2>2 DEF Numbered
  <2>4. QED BY <2>2, <2>3
<1>4. \A p \in DataAt(u) : \E q \in DataAt(s) : u[p] = s[q]
  BY <1>1
<1>5. Numbered(u, r, total, whole)
  BY <1>2, <1>3, <1>4, NumberedSame
<1>6. QED BY <1>5 DEF u

LEMMA FittingTail ==
  ASSUME NEW s \in Seq(ALine), s # <<>>, NEW r, NEW total, NEW clear, Fitting(s, r, total, clear)
  PROVE  Fitting(Tail(s), r, total, clear)
<1>1. \A p \in DataAt(Tail(s)) : p + 1 \in DataAt(s) /\ s[p + 1] = Tail(s)[p]
  BY DataOfTail
<1>2. \A p \in DataAt(Tail(s)) :
        Tail(s)[p].look = IF r.kind = "CMGR" /\ Tail(s)[p].i # 1 THEN "pdu" ELSE "match"
  <2>1. \A p \in DataAt(s) : s[p].look = IF r.kind = "CMGR" /\ s[p].i # 1 THEN "pdu" ELSE "match"
    BY DEF Fitting
  <2>2. QED BY <1>1, <2>1
<1>3. QED BY <1>2 DEF Fitting

LEMMA StrayPut ==
  ASSUME NEW s \in Seq(ALine), NEW x \in ALine, NEW r, NEW t, NEW total, NEW clear, NEW whole,
         Stray(x, clear)
  PROVE  /\ Orderly(s, r, t, clear) => Orderly(<<x>> \o s, r, t, clear)
         /\ Numbered(s, r, total, whole) => Numbered(<<x>> \o s, r, total, whole)
         /\ Fitting(s, r, total, clear) => Fitting(<<x>> \o s, r, total, clear)
<1> DEFINE u == <<x>> \o s
<1>1. /\ Len(s) \in Nat /\ Len(u) = Len(s) + 1 /\ u[1] = x
      /\ \A p \in 1..Len(s) : u[p + 1] = s[p]
  BY PutBefore
<1>2. ~IsData(x)
  BY DEF Stray, IsData
<1>3. /\ \A p \in DataAt(s) : p + 1 \in DataAt(u) /\ u[p + 1] = s[p]
      /\ \A p \in DataAt(u) : p - 1 \in DataAt(s) /\ u[p] = s[p - 1]
      /\ DataAt(u) \subseteq Int /\ DataAt(s) \subseteq Int
  BY <1>2, DataAfterPut
<1> HIDE DEF u
<1>4. ASSUME Orderly(s, r, t, clear) PROVE Orderly(u, r, t, clear)
  <2>1. \A p \in 1..Len(u) : p = 1 \/ (p - 1 \in 1..Len(s) /\ u[p] = s[p - 1])
    <3> SUFFICES ASSUME NEW p \in 1..Len(u), p # 1 PROVE p - 1 \in 1..Len(s) /\ u[p] = s[p - 1]
      OBVIOUS
    <3>1. p - 1 \in 1..Len(s) /\ (p - 1) + 1 = p
      BY <1>1
    <3>2. QED BY <1>1, <3>1
  <2>2. u[1].look \notin FinalLooks
    BY <1>1 DEF Stray
  <2>3. ASSUME NEW p \in 1..Len(u), u[p].look \in FinalLooks
        PROVE  t = <<>> /\ \A q \in 1..Len(u) : p < q => u[q].for = 0
    <3>1. p - 1 \in 1..Len(s) /\ s[p - 1].look \in FinalLooks
      BY <2>1, <2>2, <2>3
    <3>2. t = <<>> /\ \A q \in 1..Len(s) : p - 1 < q => s[q].for = 0
      BY <1>4, <3>1 DEF Orderly
    <3>3. ASSUME NEW q \in 1..Len(u), p < q PROVE u[q].for = 0
      <4>1. q - 1 \in 1..Len(s) /\ u[q] = s[q - 1] /\ p - 1 < q - 1
        BY <1>1, <2>1, <3>3
      <4>2. QED BY <3>2, <4>1
    <3>4. QED BY <3>2, <3>3
  <2>4. ASSUME NEW p \in 1..Len(u)
        PROVE  \/ Stray(u[p], clear)
               \/ /\ u[p].for # 0 /\ r # None /\ r.final = None /\ u[p].for = r.cmd
                  /\ u[p].look \in Answers
                  /\ u[p].look = "prompt" => r.kind = "SMS"
    <3>1. CASE p = 1
      BY <1>1, <3>1
    <3>2. CASE p - 1 \in 1..Len(s) /\ u[p] = s[p - 1]
      <4> DEFINE q == p - 1
      <4>1. q \in 1..Len(s) /\ u[p] = s[q]
        BY <3>2
      <4> HIDE DEF q
      <4>2. QED BY <1>4, <4>1 DEF Orderly
    <3>3. QED BY <2>1, <3>1, <3>2
  <2>5. QED BY <2>3, <2>4 DEF Orderly
<1>5. ASSUME Numbered(s, r, total, whole) PROVE Numbered(u, r, total, whole)
  <2>1. \A i \in 1..total : (\E p \in DataAt(s) : s[p].i = i) => \E p \in DataAt(u) : u[p].i = i
    BY <1>3
  <2>2. ASSUME NEW p \in DataAt(u), NEW q \in DataAt(u), p < q PROVE u[p].i < u[q].i
    <3>1. p - 1 < q - 1
      BY <1>3, <2>2
    <3>2. p - 1 \in DataAt(s) /\ q - 1 \in DataAt(s) /\ u[p] = s[p - 1] /\ u[q] = s[q - 1]
      BY <1>3
    <3>3. s[p - 1].i < s[q - 1].i
      BY <1>5, <3>1, <3>2 DEF Numbered
    <3>4. QED BY <3>2, <3>3
  <2>3. \A p \in DataAt(u) : \E q \in DataAt(s) : u[p] = s[q]
    BY <1>3
  <2>4. QED BY <1>5, <2>1, <2>2, <2>3, NumberedSame
<1>6. ASSUME Fitting(s, r, total, clear) PROVE Fitting(u, r, total, clear)
  BY <1>3, <1>6 DEF Fitting
<1>7. QED BY <1>4, <1>5, <1>6 DEF u

\* The order survives a line of no command, and the next answer of the pending one.
LEMMA OrderlySent ==
  ASSUME NEW s \in Seq(ALine), NEW x \in ALine, NEW r, NEW t, NEW t2, NEW clear,
         Orderly(s, r, t, clear),
         t2 = t \/ t2 = <<>>, x.look \in FinalLooks => t2 = <<>>,
         \/ Stray(x, clear)
         \/ /\ t # <<>> /\ x.for # 0 /\ r # None /\ r.final = None /\ x.for = r.cmd
            /\ x.look \in Answers
            /\ x.look = "prompt" => r.kind = "SMS"
  PROVE  Orderly(Append(s, x), r, t2, clear)
<1> DEFINE u == Append(s, x)
<1>1. /\ Len(s) \in Nat /\ Len(u) = Len(s) + 1 /\ u[Len(s) + 1] = x
      /\ \A p \in 1..Len(s) : u[p] = s[p]
  BY SentAfter
<1> HIDE DEF u
<1>2. ASSUME NEW p \in 1..Len(u)
      PROVE  \/ Stray(u[p], clear)
             \/ /\ u[p].for # 0 /\ r # None /\ r.final = None /\ u[p].for = r.cmd
                /\ u[p].look \in Answers
                /\ u[p].look = "prompt" => r.kind = "SMS"
  <2>1. CASE p \in 1..Len(s)
    BY <1>1, <2>1 DEF Orderly
  <2>2. CASE p = Len(s) + 1
    BY <1>1, <2>2
  <2>3. QED BY <1>1, <2>1, <2>2
<1>3. ASSUME NEW p \in 1..Len(u), u[p].look \in FinalLooks
      PROVE  t2 = <<>> /\ \A q \in 1..Len(u) : p < q => u[q].for = 0
  <2>1. CASE p \in 1..Len(s)
    <3>1. t = <<>> /\ \A q \in 1..Len(s) : p < q => s[q].for = 0
      BY <1>1, <1>3, <2>1 DEF Orderly
    <3>2. x.for = 0
      BY <3>1 DEF Stray
    <3>3. ASSUME NEW q \in 1..Len(u), p < q PROVE u[q].for = 0
      <4>1. CASE q \in 1..Len(s)
        BY <1>1, <3>1, <3>3, <4>1
      <4>2. CASE q = Len(s) + 1
        BY <1>1, <3>2, <4>2
      <4>3. QED BY <1>1, <4>1, <4>2
    <3>4. QED BY <3>1, <3>3
  <2>2. CASE p = Len(s) + 1
    <3>1. \A q \in 1..Len(u) : ~(p < q)
      BY <1>1, <2>2
    <3>2. t2 = <<>>
      BY <1>1, <1>3, <2>2
    <3>3. QED BY <3>1, <3>2
  <2>3. QED BY <1>1, <2>1, <2>2
<1>4. Orderly(u, r, t2, clear)
  BY <1>2, <1>3 DEF Orderly
<1>5. QED BY <1>4 DEF u

\* A line that is no intermediate line does not disturb the numbering.
LEMMA OthersSent ==
  ASSUME NEW s \in Seq(ALine), NEW x \in ALine, ~IsData(x), NEW r, NEW total, NEW clear, NEW whole
  PROVE  /\ Numbered(s, r, total, whole) => Numbered(Append(s, x), r, total, whole)
         /\ Fitting(s, r, total, clear) => Fitting(Append(s, x), r, total, clear)
<1> DEFINE u == Append(s, x)
<1>1. DataAt(u) = DataAt(s) /\ \A p \in DataAt(s) : u[p] = s[p]
  BY DataAfterSent
<1> HIDE DEF u
<1>2. Numbered(s, r, total, whole) => Numbered(u, r, total, whole)
  BY <1>1 DEF Numbered
<1>3. Fitting(s, r, total, clear) => Fitting(u, r, total, clear)
  BY <1>1 DEF Fitting
<1>4. QED BY <1>2, <1>3 DEF u

\* The next intermediate line is sent.
LEMMA DataSent ==
  ASSUME NEW s \in Seq(ALine), NEW x \in ALine, NEW r, NEW total \in Nat,
         NEW clear, NEW whole, IsData(x), x.i = total + 1,
         Numbered(s, r, total, whole), Fitting(s, r, total, clear),
         x.look = IF r.kind = "CMGR" /\ x.i # 1 THEN "pdu" ELSE "match",
         r.kind \in {"NUMERIC", "SINGLELINE", "SMS"} => total = 0,
         r.kind \notin {"HANDSHAKE", "NO_RESULT"}
  PROVE  Numbered(Append(s, x), r, total + 1, whole) /\ Fitting(Append(s, x), r, total + 1, clear)
<1> DEFINE u == Append(s, x)
           own == OwnPlaces(r.lines, r.cmd)
           last == Len(s) + 1
<1>1. /\ DataAt(u) = DataAt(s) \cup {last}
      /\ \A p \in DataAt(s) : u[p] = s[p] /\ p < last
      /\ u[last] = x /\ last \in Int /\ DataAt(s) \subseteq Int
  BY DataAfterSent
<1>2. /\ \A p \in own : r.lines[p][2] \in 1..total
      /\ \A p, q \in own : p < q => r.lines[q][2] < r.lines[p][2]
      /\ \A p \in DataAt(s) : s[p].i \in 1..total
      /\ \A p, q \in DataAt(s) : p < q => s[p].i < s[q].i
      /\ \A p \in DataAt(s), q \in own : r.lines[q][2] < s[p].i
      /\ whole => \A i \in 1..total :
           (\E p \in own : r.lines[p][2] = i) \/ (\E p \in DataAt(s) : s[p].i = i)
  BY DEF Numbered
<1> HIDE DEF u, own, last
<1>3. \A p \in own : r.lines[p][2] \in 1..(total + 1)
  BY <1>2
<1>4. \A p \in DataAt(u) : u[p].i \in 1..(total + 1)
  BY <1>1, <1>2
<1>5. \A p, q \in DataAt(u) : p < q => u[p].i < u[q].i
  <2> SUFFICES ASSUME NEW p \in DataAt(u), NEW q \in DataAt(u), p < q PROVE u[p].i < u[q].i
    OBVIOUS
  <2>1. p \in DataAt(s)
    BY <1>1
  <2>2. CASE q \in DataAt(s)
    BY <1>1, <1>2, <2>1, <2>2
  <2>3. CASE q = last
    BY <1>1, <1>2, <2>1, <2>3
  <2>4. QED BY <1>1, <2>2, <2>3
<1>6. \A p \in DataAt(u), q \in own : r.lines[q][2] < u[p].i
  <2> SUFFICES ASSUME NEW p \in DataAt(u), NEW q \in own PROVE r.lines[q][2] < u[p].i
    OBVIOUS
  <2>1. CASE p \in DataAt(s)
    BY <1>1, <1>2, <2>1
  <2>2. CASE p = last
    BY <1>1, <1>2, <2>2
  <2>3. QED BY <1>1, <2>1, <2>2
<1>7. whole => \A i \in 1..(total + 1) :
        (\E p \in own : r.lines[p][2] = i) \/ (\E p \in DataAt(u) : u[p].i = i)
  <2> SUFFICES ASSUME whole, NEW i \in 1..(total + 1)
               PROVE  (\E p \in own : r.lines[p][2] = i) \/ (\E p \in DataAt(u) : u[p].i = i)
    OBVIOUS
  <2>1. CASE i \in 1..total
    BY <1>1, <1>2, <2>1
  <2>2. CASE i = total + 1
    BY <1>1, <2>2
  <2>3. QED BY <2>1, <2>2
<1>8. Numbered(u, r, total + 1, whole)
  BY <1>2, <1>3, <1>4, <1>5, <1>6, <1>7 DEF Numbered, own
<1>9. Fitting(u, r, total + 1, clear)
  <2>1. \A p \in DataAt(u) : u[p].look = IF r.kind = "CMGR" /\ u[p].i # 1 THEN "pdu" ELSE "match"
    BY <1>1 DEF Fitting
  <2>2. r.kind \in {"NUMERIC", "SINGLELINE", "SMS"} => total + 1 <= 1
    OBVIOUS
  <2>3. QED BY <2>1, <2>2 DEF Fitting
<1>10. QED BY <1>8, <1>9 DEF u

\* The line in hand is put at the head of the response's lines: the next one of the
\* command's own, or one that looks like it, or with AT+CMGR any other.
LEMMA LineTaken ==
  ASSUME NEW s \in Seq(ALine), s # <<>>, NEW r \in Response, NEW r2 \in Response, NEW total \in Nat,
         NEW clear, NEW whole, r2.lines = <<<<s[1].for, s[1].i>>>> \o r.lines,
         r2.cmd = r.cmd, r2.kind = r.kind, r2.final = r.final,
         Numbered(s, r, total, whole), Fitting(s, r, total, clear),
         IF IsData(s[1]) THEN s[1].for = r.cmd ELSE s[1].for # r.cmd /\ (clear => r.kind = "CMGR")
  PROVE  Numbered(Tail(s), r2, total, whole) /\ Fitting(Tail(s), r2, total, clear)
<1> DEFINE u == Tail(s)
           x == s[1]
           L == r.lines
           M == r2.lines
           own == OwnPlaces(L, r.cmd)
           own2 == OwnPlaces(M, r.cmd)
<1>1. /\ \A p \in DataAt(u) : p + 1 \in DataAt(s) /\ s[p + 1] = u[p] /\ p + 1 > 1
      /\ \A p \in DataAt(s) \ {1} : p - 1 \in DataAt(u) /\ u[p - 1] = s[p]
      /\ DataAt(u) \subseteq Int /\ DataAt(s) \subseteq Int
  BY DataOfTail
<1>2. IsData(x) <=> 1 \in DataAt(s)
  BY TailLines DEF DataAt
<1>3. x \in ALine
  BY TailLines
<1>4. /\ Len(L) \in Nat /\ DOMAIN L = 1..Len(L) /\ DOMAIN M = 1..(Len(L) + 1)
      /\ M[1] = <<x.for, x.i>>
      /\ \A p \in 1..Len(L) : M[p + 1] = L[p]
  <2>1. L \in Seq(({0} \cup Commands) \X Nat)
    BY DEF Response
  <2>2. <<x.for, x.i>> \in ({0} \cup Commands) \X Nat
    BY <1>3 DEF ALine
  <2>3. <<<<x.for, x.i>>>> \in Seq(({0} \cup Commands) \X Nat) /\ Len(<<<<x.for, x.i>>>>) = 1
    BY <2>2
  <2>4. QED BY <2>1, <2>3
<1>5. /\ \A p \in own : L[p][2] \in 1..total
      /\ \A p, q \in own : p < q => L[q][2] < L[p][2]
      /\ \A p \in DataAt(s) : s[p].i \in 1..total
      /\ \A p, q \in DataAt(s) : p < q => s[p].i < s[q].i
      /\ \A p \in DataAt(s), q \in own : L[q][2] < s[p].i
      /\ whole => \A i \in 1..total :
           (\E p \in own : L[p][2] = i) \/ (\E p \in DataAt(s) : s[p].i = i)
  BY DEF Numbered
<1>6. /\ M[1][1] = x.for /\ M[1][2] = x.i
      /\ \A p \in 1..Len(L) : M[p + 1] = L[p]
  BY <1>4
<1>7. /\ \A p \in own : p + 1 \in own2 /\ M[p + 1] = L[p]
      /\ \A p \in own2 : p # 1 => p - 1 \in own /\ M[p] = L[p - 1]
      /\ own \subseteq Int /\ own2 \subseteq Int /\ \A p \in own2 : p >= 1
      /\ 1 \in own2 <=> IsData(x)
  <2>1. \A p \in own : p + 1 \in own2 /\ M[p + 1] = L[p]
    BY <1>4 DEF OwnPlaces
  <2>2. ASSUME NEW p \in own2, p # 1 PROVE p - 1 \in own /\ M[p] = L[p - 1]
    <3>1. p \in 1..(Len(L) + 1) /\ M[p][1] = r.cmd
      BY <1>4, <2>2 DEF OwnPlaces
    <3>2. p - 1 \in 1..Len(L) /\ (p - 1) + 1 = p
      BY <1>4, <2>2, <3>1
    <3>3. M[p] = L[p - 1]
      BY <1>4, <3>2
    <3>4. QED BY <1>4, <3>1, <3>2, <3>3 DEF OwnPlaces
  <2>3. own \subseteq Int /\ own2 \subseteq Int /\ \A p \in own2 : p >= 1
    BY <1>4 DEF OwnPlaces
  <2>4. 1 \in own2 <=> x.for = r.cmd
    BY <1>4, <1>6 DEF OwnPlaces
  <2>5. QED BY <2>1, <2>2, <2>3, <2>4
<1>8. clear /\ r.kind # "CMGR" => IsData(x) /\ own = DOMAIN L
  BY DEF Fitting
<1>9. \A p \in DataAt(s) : s[p].look = IF r.kind = "CMGR" /\ s[p].i # 1 THEN "pdu" ELSE "match"
  BY DEF Fitting
<1> HIDE DEF u, x, L, M, own, own2
<1>10. \A p \in own2 : M[p][2] \in 1..total
  <2> SUFFICES ASSUME NEW p \in own2 PROVE M[p][2] \in 1..total
    OBVIOUS
  <2>1. CASE p = 1
    BY <1>2, <1>5, <1>6, <1>7, <2>1 DEF x
  <2>2. CASE p # 1
    BY <1>5, <1>7, <2>2
  <2>3. QED BY <2>1, <2>2
<1>11. \A p, q \in own2 : p < q => M[q][2] < M[p][2]
  <2> SUFFICES ASSUME NEW p \in own2, NEW q \in own2, p < q PROVE M[q][2] < M[p][2]
    OBVIOUS
  <2>1. q # 1 /\ q - 1 \in own /\ M[q] = L[q - 1]
    BY <1>7
  <2>2. CASE p = 1
    BY <1>2, <1>5, <1>6, <1>7, <2>1, <2>2 DEF x
  <2>3. CASE p # 1
    <3>1. p - 1 \in own /\ M[p] = L[p - 1] /\ p - 1 < q - 1
      BY <1>7, <2>3
    <3>2. QED BY <1>5, <2>1, <3>1
  <2>4. QED BY <2>2, <2>3
<1>12. \A p \in DataAt(u) : u[p].i \in 1..total
  BY <1>1, <1>5
<1>13. \A p, q \in DataAt(u) : p < q => u[p].i < u[q].i
  <2> SUFFICES ASSUME NEW p \in DataAt(u), NEW q \in DataAt(u), p < q PROVE u[p].i < u[q].i
    OBVIOUS
  <2>1. p + 1 < q + 1
    BY <1>1
  <2>2. p + 1 \in DataAt(s) /\ q + 1 \in DataAt(s) /\ s[p + 1] = u[p] /\ s[q + 1] = u[q]
    BY <1>1
  <2>3. s[p + 1].i < s[q + 1].i
    BY <1>5, <2>1, <2>2
  <2>4. QED BY <2>2, <2>3
<1>14. \A p \in DataAt(u), q \in own2 : M[q][2] < u[p].i
  <2> SUFFICES ASSUME NEW p \in DataAt(u), NEW q \in own2 PROVE M[q][2] < u[p].i
    OBVIOUS
  <2>0. p + 1 \in DataAt(s) /\ s[p + 1] = u[p] /\ 1 < p + 1
    BY <1>1
  <2>1. CASE q = 1
    <3>1. 1 \in DataAt(s) /\ M[q][2] = s[1].i
      BY <1>2, <1>6, <1>7, <2>1 DEF x
    <3>2. QED BY <1>5, <2>0, <3>1
  <2>2. CASE q # 1
    BY <1>5, <1>7, <2>0, <2>2
  <2>3. QED BY <2>1, <2>2
<1>15. whole => \A i \in 1..total :
         (\E p \in own2 : M[p][2] = i) \/ (\E p \in DataAt(u) : u[p].i = i)
  <2> SUFFICES ASSUME whole, NEW i \in 1..total
               PROVE  (\E p \in own2 : M[p][2] = i) \/ (\E p \in DataAt(u) : u[p].i = i)
    OBVIOUS
  <2>1. CASE \E p \in own : L[p][2] = i
    BY <1>7, <2>1
  <2>2. CASE \E p \in DataAt(s) : s[p].i = i
    <3>1. PICK p \in DataAt(s) : s[p].i = i
      BY <2>2
    <3>2. CASE p = 1
      BY <1>2, <1>6, <1>7, <3>1, <3>2 DEF x
    <3>3. CASE p # 1
      BY <1>1, <3>1, <3>3
    <3>4. QED BY <3>2, <3>3
  <2>3. QED BY <1>5, <2>1, <2>2
<1>16. Numbered(u, r2, total, whole)
  BY <1>10, <1>11, <1>12, <1>13, <1>14, <1>15 DEF Numbered, own2, M
<1>17. clear /\ r.kind # "CMGR" => own2 = DOMAIN M
  <2> SUFFICES ASSUME clear, r.kind # "CMGR" PROVE own2 = DOMAIN M
    OBVIOUS
  <2>1. ASSUME NEW p \in DOMAIN M PROVE p \in own2
    <3>1. CASE p = 1
      BY <1>7, <1>8, <3>1
    <3>2. CASE p # 1
      <4>1. p - 1 \in 1..Len(L) /\ (p - 1) + 1 = p
        BY <1>4, <3>2
      <4>2. p - 1 \in own
        BY <1>4, <1>8, <4>1
      <4>3. QED BY <1>7, <4>1, <4>2
    <3>3. QED BY <3>1, <3>2
  <2>2. own2 \subseteq DOMAIN M
    BY DEF own2, OwnPlaces
  <2>3. QED BY <2>1, <2>2
<1>18. \A p \in DataAt(u) : u[p].look = IF r.kind = "CMGR" /\ u[p].i # 1 THEN "pdu" ELSE "match"
  BY <1>1, <1>9
<1>19. Fitting(u, r2, total, clear)
  BY <1>17, <1>18 DEF Fitting, own2, M
<1>20. QED BY <1>16, <1>19 DEF u

\* The final response is recorded.
LEMMA FinalTaken ==
  ASSUME NEW s \in Seq(ALine), s # <<>>, NEW r, NEW r2, NEW total, NEW clear, NEW whole,
         r2.lines = r.lines, r2.cmd = r.cmd, r2.kind = r.kind, r2.final.for = r.cmd, ~IsData(s[1]),
         Numbered(s, r, total, whole), Fitting(s, r, total, clear)
  PROVE  Numbered(Tail(s), r2, total, whole) /\ Fitting(Tail(s), r2, total, clear)
<1>1. Numbered(Tail(s), r, total, whole) /\ Fitting(Tail(s), r, total, clear)
  BY NumberedTail, FittingTail
<1>2. Numbered(Tail(s), r2, total, whole)
  BY <1>1 DEF Numbered
<1>3. Fitting(Tail(s), r2, total, clear)
  BY <1>1 DEF Fitting
<1>4. QED BY <1>2, <1>3

\* Less is said of lines of which less is known.
LEMMA Weaker ==
  ASSUME NEW s, NEW r, NEW t, NEW total, NEW clear, NEW clear2, NEW whole, NEW whole2,
         clear2 => clear, whole2 => whole
  PROVE  /\ Orderly(s, r, t, clear) => Orderly(s, r, t, clear2)
         /\ Numbered(s, r, total, whole) => Numbered(s, r, total, whole2)
         /\ Fitting(s, r, total, clear) => Fitting(s, r, total, clear2)
         /\ AllStray(s, clear) => AllStray(s, clear2)
BY DEF Orderly, Numbered, Fitting, AllStray, Stray

-----------------------------------------------------------------------------
(* Commands, as they are written and settled                               *)

\* No command has been numbered at the start.
LEMMA IssuedInit == Init => Issued
<1> SUFFICES ASSUME Init PROVE Issued
  OBVIOUS
<1>1. sp_response = None /\ todo = <<>> /\ said = [n \in Commands |-> 0]
  BY DEF Init
<1>2. Len(todo) = 0
  BY <1>1
<1>3. QED BY <1>1, <1>2 DEF Issued

\* A step that writes no command keeps the numbers.
LEMMA IssuedStays ==
  ASSUME Issued, UNCHANGED <<written, said, op>>, todo' = todo \/ todo' = <<>>,
         \/ sp_response' = None
         \/ /\ sp_response # None /\ sp_response'.owner = sp_response.owner
            /\ sp_response'.cmd = sp_response.cmd /\ sp_response'.kind = sp_response.kind
  PROVE  Issued'
<1>1. \A p \in 1..Len(todo') : todo'[p].cmd <= written'
  <2>1. CASE todo' = todo
    BY <2>1 DEF Issued
  <2>2. CASE todo' = <<>>
    <3>1. Len(todo') = 0
      BY <2>2
    <3>2. QED BY <3>1
  <2>3. QED BY <2>1, <2>2
<1>2. QED BY <1>1 DEF Issued

\* What the steps of the reader make of the pending command.
LEMMA ReaderLeaves ==
  ASSUME TypeInv, Reader
  PROVE  /\ UNCHANGED <<written, said, op, todo, result, late, strays, undercut, mpc, opens>>
         /\ eaten \subseteq eaten'
         /\ \/ sp_response' = sp_response
            \/ /\ sp_response # None /\ sp_response'.owner = sp_response.owner
               /\ sp_response'.cmd = sp_response.cmd /\ sp_response'.kind = sp_response.kind
<1> USE TypeParts
<1>0. sp_response # None => sp_response \in Response
  BY DEF ShareOK
<1>1. CASE ReadLine
  <2>1. UNCHANGED <<sp_response, written, said, op, todo, result, late, strays, undercut, mpc, opens>>
    BY <1>1 DEF ReadLine, pending, commander, main
  <2>2. eaten' = eaten \/ eaten' = eaten \cup {Head(wire)}
    BY <1>1, Zenon DEF ReadLine, TakesIn
  <2>3. QED BY <2>1, <2>2
<1>2. CASE SmsHandler
  BY <1>2 DEF SmsHandler, pending, commander, main, modem, history
<1>3. CASE FinalResponse
  <2>1. UNCHANGED <<written, said, op, todo, result, late, strays, eaten, undercut, mpc, opens>>
    BY <1>3 DEF FinalResponse, Processed, main, modem, history
  <2>2. sp_response # None /\ sp_response' = [sp_response EXCEPT !.final = rline]
    BY <1>3 DEF FinalResponse, Processed
  <2>3. QED BY <1>0, <2>1, <2>2 DEF Response
<1>4. CASE Prompt
  BY <1>4 DEF Prompt, Processed, main, history
<1>5. CASE Intermediate
  <2>1. UNCHANGED <<written, said, op, todo, result, late, strays, eaten, undercut, mpc, opens>>
    BY <1>5 DEF Intermediate, Processed, main, modem, history
  <2>2. /\ sp_response # None
        /\ sp_response' = [sp_response EXCEPT !.lines = <<<<rline.for, rline.i>>>> \o sp_response.lines]
    BY <1>5 DEF Intermediate, Processed
  <2>3. QED BY <1>0, <2>1, <2>2 DEF Response
<1>6. CASE Unsolicited
  BY <1>6 DEF Unsolicited, Processed, pending, main, modem, history
<1>7. CASE EndOfInput
  BY <1>7 DEF EndOfInput, pending, commander, main, modem, history
<1>8. CASE OnReaderClosed
  BY <1>8 DEF OnReaderClosed, CloseAndSignal, pending, main, modem, history
<1>9. CASE AtCloseFd
  BY <1>9 DEF AtCloseFd, pending, commander, main, modem, history
<1>10. CASE AtClose
  BY <1>10 DEF AtClose, CloseAndSignal, pending, main, modem, history
<1>11. CASE ReportClosed
  BY <1>11 DEF ReportClosed, pending, commander, modem, history
<1>12. QED
  BY <1>1, <1>2, <1>3, <1>4, <1>5, <1>6, <1>7, <1>8, <1>9, <1>10, <1>11 DEF Reader, ProcessLine

\* The command at the head of todo.
LEMMA HeadOfTodo ==
  ASSUME TypeInv, todo # <<>>
  PROVE  /\ Len(todo) \in Nat /\ 1 \in 1..Len(todo) /\ Head(todo) = todo[1]
         /\ todo[1] \in [cmd : Commands, kind : Kinds]
         /\ Len(Tail(todo)) = Len(todo) - 1
         /\ \A p \in 1..Len(Tail(todo)) : Tail(todo)[p] = todo[p + 1] /\ p + 1 \in 1..Len(todo)
<1> DEFINE R == [cmd : Commands, kind : Kinds]
<1>1. todo \in Seq(R)
  BY TypeParts DEF ModemOK
<1> HIDE DEF R
<1>2. /\ Len(todo) \in Nat /\ Len(todo) > 0 /\ Head(todo) = todo[1] /\ todo[1] \in R
  BY <1>1
<1>3. Len(Tail(todo)) = Len(todo) - 1 /\ \A p \in 1..Len(Tail(todo)) : Tail(todo)[p] = todo[p + 1]
  BY <1>1
<1>4. QED BY <1>2, <1>3 DEF R

\* A command is written: its number is new, and it is added to todo unless the
\* modem has hung up.
LEMMA SendFacts ==
  ASSUME TypeInv, NEW c \in Commanders, Send(c)
  PROVE  \/ /\ written + 1 \in Commands /\ written' = written + 1 /\ written \in Nat
            /\ sp_response' = [owner |-> c, cmd |-> written + 1, kind |-> op[c],
                               final |-> None, lines |-> <<>>]
            /\ result' = result /\ UNCHANGED <<op, late, undercut>>
            /\ \/ hungup /\ todo' = todo
               \/ todo' = Append(todo, [cmd |-> written + 1, kind |-> op[c]])
         \/ /\ UNCHANGED <<written, todo, op, late, undercut>> /\ sp_response' = None
            /\ \E e \in {"COMMAND_PENDING", "CHANNEL_CLOSED", "GENERIC"} : Returns(c, e)
<1>1. written \in Nat
  BY TypeParts DEF HistoryOK
<1>2. SendError \subseteq {"COMMAND_PENDING", "CHANNEL_CLOSED", "GENERIC", "ok"}
  BY DEF SendError
<1>3. PICK e \in SendError :
        IF e = "ok"
        THEN /\ written + 1 \in Commands /\ written' = written + 1
             /\ todo' = IF hungup THEN todo ELSE Append(todo, [cmd |-> written', kind |-> op[c]])
             /\ sp_response' = [owner |-> c, cmd |-> written', kind |-> op[c],
                                final |-> None, lines |-> <<>>]
             /\ result' = result
        ELSE /\ sp_response' = None
             /\ Returns(c, e)
             /\ UNCHANGED <<written, todo>>
  BY Zenon DEF Send
<1>4. UNCHANGED <<op, late, undercut>>
  BY DEF Send
<1>5. CASE e = "ok"
  BY <1>1, <1>3, <1>4, <1>5
<1>6. CASE e # "ok"
  <2>1. e \in {"COMMAND_PENDING", "CHANNEL_CLOSED", "GENERIC"}
    BY <1>2, <1>6
  <2>2. sp_response' = None /\ Returns(c, e) /\ UNCHANGED <<written, todo>>
    BY <1>3, <1>6
  <2>3. QED BY <1>4, <2>1, <2>2
<1>7. QED BY <1>5, <1>6

\* Every step keeps the numbers of the commands in order.
LEMMA IssuedStep ==
  ASSUME TypeInv, OwnInv, Issued, [Next]_vars
  PROVE  Issued'
<1> USE TypeParts
<1>0. /\ sp_response # None => sp_response.owner \in Commanders /\ pc[sp_response.owner] \in Waiting
      /\ written \in Nat /\ Commands \subseteq Nat /\ said \in [Commands -> Nat]
  BY CommandsNat DEF OwnInv, ResponseOwned, ShareOK, Response, HistoryOK, ModemOK
<1>1. ASSUME NEW c \in Commanders, NEW k \in Kinds, Call(c, k)
      PROVE  Issued'
  <2>1. pc[c] = "idle" /\ op' = [op EXCEPT ![c] = k] /\ UNCHANGED <<sp_response, written, todo, said>>
    BY <1>1 DEF Call, pending, modem
  <2>2. sp_response # None => op'[sp_response.owner] = op[sp_response.owner]
    BY <1>0, <2>1 DEF Waiting, CommanderOK
  <2>3. QED BY <2>1, <2>2 DEF Issued
<1>2. ASSUME NEW c \in Commanders, Send(c)
      PROVE  Issued'
  <2>0. said' = said
    BY <1>2 DEF Send
  <2>1. CASE /\ written + 1 \in Commands /\ written' = written + 1
             /\ sp_response' = [owner |-> c, cmd |-> written + 1, kind |-> op[c],
                                final |-> None, lines |-> <<>>]
             /\ op' = op
             /\ \/ todo' = todo
                \/ todo' = Append(todo, [cmd |-> written + 1, kind |-> op[c]])
    <3>1. sp_response'.cmd <= written' /\ sp_response'.kind = op'[sp_response'.owner]
      BY <1>0, <2>1
    <3>2. \A n \in Commands : n > written' => said'[n] = 0
      BY <1>0, <2>0, <2>1 DEF Issued
    <3>3. ASSUME NEW p \in 1..Len(todo') PROVE todo'[p].cmd <= written'
      <4>1. todo \in Seq([cmd : Commands, kind : Kinds])
        BY DEF ModemOK
      <4>2. CASE p \in 1..Len(todo) /\ todo'[p] = todo[p]
        <5>1. todo[p] \in [cmd : Commands, kind : Kinds]
          BY <4>1, <4>2, ElementOfSeq, Zenon
        <5>2. todo[p].cmd \in Nat /\ todo[p].cmd <= written
          BY <1>0, <4>2, <5>1 DEF Issued
        <5>3. QED BY <1>0, <2>1, <4>2, <5>2
      <4>3. CASE todo'[p] = [cmd |-> written + 1, kind |-> op[c]]
        BY <1>0, <2>1, <4>3
      <4>4. CASE todo' = todo
        BY <4>2, <4>4
      <4>5. CASE todo' = Append(todo, [cmd |-> written + 1, kind |-> op[c]])
        <5>1. /\ Len(todo) \in Nat /\ Len(todo') = Len(todo) + 1
              /\ todo'[Len(todo) + 1] = [cmd |-> written + 1, kind |-> op[c]]
              /\ \A q \in 1..Len(todo) : todo'[q] = todo[q]
          BY <4>1, <4>5
        <5>2. p \in 1..Len(todo) \/ p = Len(todo) + 1
          BY <5>1
        <5>3. QED BY <4>2, <4>3, <5>1, <5>2
      <4>6. QED BY <2>1, <4>4, <4>5
    <3>4. QED BY <3>1, <3>2, <3>3 DEF Issued
  <2>2. CASE UNCHANGED <<written, todo, op>> /\ sp_response' = None
    BY <2>0, <2>2, IssuedStays
  <2>3. QED BY <1>2, <2>1, <2>2, SendFacts
<1>3. ASSUME NEW c \in Commanders,
             TimesOut(c) \/ SpuriousWake(c) \/ WaitAgain(c) \/ GiveUp(c) \/ Complete(c) \/ PauseEnds(c)
      PROVE  Issued'
  <2>1. UNCHANGED <<written, said, op, todo>>
    BY <1>3 DEF TimesOut, SpuriousWake, WaitAgain, GiveUp, Complete, PauseEnds, modem, history
  <2>2. sp_response' = sp_response \/ sp_response' = None
    BY <1>3 DEF TimesOut, SpuriousWake, WaitAgain, GiveUp, Complete, PauseEnds, pending
  <2>3. QED BY <2>1, <2>2, IssuedStays
<1>4. CASE Reader
  <2>1. /\ UNCHANGED <<written, said, op, todo>>
        /\ \/ sp_response' = sp_response
           \/ /\ sp_response # None /\ sp_response'.owner = sp_response.owner
              /\ sp_response'.cmd = sp_response.cmd /\ sp_response'.kind = sp_response.kind
    BY <1>4, ReaderLeaves
  <2>2. QED BY <2>1, IssuedStays
<1>5. CASE AtOpenFlags
  <2>1. todo' = <<>> /\ UNCHANGED <<written, said, op, sp_response>>
    BY <1>5 DEF AtOpenFlags, commander, pending
  <2>2. QED BY <2>1, IssuedStays
<1>6. CASE AtOpenResponse
  <2>1. sp_response' = None /\ UNCHANGED <<written, said, op, todo>>
    BY <1>6 DEF AtOpenResponse, commander, modem, history
  <2>2. QED BY <2>1, IssuedStays
<1>7. CASE MainWakes \/ ModemPrompt \/ ModemUnsolicited \/ HangUp
  <2>1. UNCHANGED <<written, said, op, sp_response>> /\ (todo' = todo \/ todo' = <<>>)
    BY <1>7 DEF MainWakes, ModemPrompt, ModemUnsolicited, HangUp, commander, modem, pending, history
  <2>2. QED BY <2>1, IssuedStays
<1>8. CASE ModemIntermediate
  <2>1. todo # <<>> /\ UNCHANGED <<written, op, sp_response, todo>>
    BY <1>8 DEF ModemIntermediate, MayAnswer, commander, pending, history
  <2>2. said' = [said EXCEPT ![Head(todo).cmd] = said[Head(todo).cmd] + 1]
    BY <1>8 DEF ModemIntermediate
  <2>3. Head(todo).cmd \in Commands /\ Head(todo).cmd <= written
    BY <2>1, HeadOfTodo DEF Issued
  <2>4. ASSUME NEW n \in Commands, n > written PROVE said'[n] = 0
    <3>1. n # Head(todo).cmd
      BY <1>0, <2>3, <2>4
    <3>2. said'[n] = said[n]
      BY <1>0, <2>2, <3>1
    <3>3. QED BY <2>4, <3>2 DEF Issued
  <2>5. QED BY <2>1, <2>4 DEF Issued
<1>9. CASE ModemFinal
  <2>1. todo # <<>> /\ todo' = Tail(todo) /\ UNCHANGED <<written, op, sp_response, said>>
    BY <1>9 DEF ModemFinal, MayAnswer, commander, pending, history
  <2>2. \A p \in 1..Len(todo') : todo'[p].cmd <= written'
    BY <2>1, HeadOfTodo DEF Issued
  <2>3. QED BY <2>1, <2>2 DEF Issued
<1>10. CASE UNCHANGED vars
  BY <1>10 DEF vars, pending, commander, modem, history, Issued
<1>11. ASSUME NEW c \in Commanders, FollowsNull(c)
       PROVE  Issued'
  <2>1. todo' = <<>> /\ sp_response' = None /\ UNCHANGED <<written, said, op>>
    BY <1>11 DEF FollowsNull, pending, history
  <2>2. QED BY <2>1, IssuedStays
<1>12. QED
  BY <1>1, <1>2, <1>3, <1>4, <1>5, <1>6, <1>7, <1>8, <1>9, <1>10, <1>11 DEF Next, Commander, Main, Modem

-----------------------------------------------------------------------------
(* The order of the lines                                                  *)

\* The coming lines are lines, and the one in hand is the first of them.
LEMMA ComingFacts ==
  ASSUME TypeInv
  PROVE  /\ Coming \in Seq(ALine) /\ wire \in Seq(ALine)
         /\ rpc = "process" => /\ rline \in ALine /\ Coming # <<>>
                               /\ Coming[1] = rline /\ Tail(Coming) = wire
         /\ rpc # "process" => Coming = wire
<1>1. wire \in Seq(ALine) /\ (rpc = "process" => rline \in ALine)
  BY TypeParts DEF ModemOK, ReaderOK, LineInHand
<1>2. CASE rpc = "process"
  <2>1. Coming = <<rline>> \o wire
    BY <1>2 DEF Coming
  <2>2. QED BY <1>1, <1>2, <2>1, PutBefore
<1>3. CASE rpc # "process"
  BY <1>1, <1>3 DEF Coming
<1>4. QED BY <1>2, <1>3

\* A line put before and a line sent after.
LEMMA AppendLater ==
  ASSUME NEW s \in Seq(ALine), NEW x \in ALine, NEW y \in ALine
  PROVE  <<x>> \o Append(s, y) = Append(<<x>> \o s, y)
<1> DEFINE t == Append(s, y)
           u == <<x>> \o s
           a == <<x>> \o t
           b == Append(u, y)
<1>1. /\ t \in Seq(ALine) /\ Len(s) \in Nat /\ Len(t) = Len(s) + 1 /\ t[Len(s) + 1] = y
      /\ \A p \in 1..Len(s) : t[p] = s[p]
  BY SentAfter
<1>2. /\ u \in Seq(ALine) /\ Len(u) = Len(s) + 1 /\ u[1] = x
      /\ \A p \in 1..Len(s) : u[p + 1] = s[p]
  BY PutBefore
<1> HIDE DEF t, u
<1>3. /\ a \in Seq(ALine) /\ Len(a) = Len(t) + 1 /\ a[1] = x
      /\ \A p \in 1..Len(t) : a[p + 1] = t[p]
  BY <1>1, PutBefore
<1>4. /\ b \in Seq(ALine) /\ Len(b) = Len(u) + 1 /\ b[Len(u) + 1] = y
      /\ \A p \in 1..Len(u) : b[p] = u[p]
  BY <1>2, SentAfter
<1> HIDE DEF a, b
<1>5. ASSUME NEW p \in 1..Len(a) PROVE a[p] = b[p]
  <2>1. CASE p = 1
    BY <1>1, <1>2, <1>3, <1>4, <2>1
  <2>2. CASE p \in 2..(Len(s) + 1)
    <3>1. p - 1 \in 1..Len(s) /\ (p - 1) + 1 = p /\ p \in 1..Len(u) /\ p - 1 \in 1..Len(t)
      BY <1>1, <1>2, <2>2
    <3>2. b[p] = s[p - 1]
      BY <1>2, <1>4, <3>1
    <3>3. a[p] = s[p - 1]
      BY <1>1, <1>3, <3>1
    <3>4. QED BY <3>2, <3>3
  <2>3. CASE p = Len(s) + 2
    <3>1. p - 1 \in 1..Len(t) /\ (p - 1) + 1 = p /\ p - 1 = Len(s) + 1 /\ p = Len(u) + 1
      BY <1>1, <1>2, <2>3
    <3>2. a[p] = y
      BY <1>1, <1>3, <3>1
    <3>3. QED BY <1>4, <3>1, <3>2
  <2>4. QED BY <1>1, <1>3, <2>1, <2>2, <2>3
<1>6. Len(a) = Len(b)
  BY <1>1, <1>2, <1>3, <1>4
<1>7. a = b
  BY <1>3, <1>4, <1>5, <1>6, SeqEqual
<1>8. QED BY <1>7 DEF a, b, t, u

\* What the modem sends comes last.
LEMMA ComingSent ==
  ASSUME TypeInv, NEW x \in ALine, wire' = Append(wire, x), UNCHANGED <<rpc, rline>>
  PROVE  Coming' = Append(Coming, x)
<1>1. wire \in Seq(ALine) /\ (rpc = "process" => rline \in ALine)
  BY TypeParts DEF ModemOK, ReaderOK, LineInHand
<1>2. CASE rpc # "process"
  BY <1>2 DEF Coming
<1>3. CASE rpc = "process"
  BY <1>1, <1>3, AppendLater DEF Coming
<1>4. QED BY <1>2, <1>3

\* A line read is in the hand instead of on the wire.
LEMMA HeadAndTail ==
  ASSUME NEW s \in Seq(ALine), s # <<>>
  PROVE  <<s[1]>> \o Tail(s) = s
<1>1. /\ Tail(s) \in Seq(ALine) /\ Len(s) \in Nat /\ Len(Tail(s)) = Len(s) - 1
      /\ s[1] \in ALine
      /\ \A p \in 1..Len(Tail(s)) : Tail(s)[p] = s[p + 1]
  BY TailLines
<1> DEFINE u == <<s[1]>> \o Tail(s)
<1>2. /\ u \in Seq(ALine) /\ Len(u) = Len(Tail(s)) + 1 /\ u[1] = s[1]
      /\ \A p \in 1..Len(Tail(s)) : u[p + 1] = Tail(s)[p]
  BY <1>1, PutBefore
<1> HIDE DEF u
<1>3. ASSUME NEW p \in 1..Len(u) PROVE u[p] = s[p]
  <2>1. CASE p = 1
    BY <1>2, <2>1
  <2>2. CASE p # 1
    <3>1. p - 1 \in 1..Len(Tail(s)) /\ (p - 1) + 1 = p
      BY <1>1, <1>2, <2>2
    <3>2. QED BY <1>1, <1>2, <3>1
  <2>3. QED BY <2>1, <2>2
<1>4. u = s
  BY <1>1, <1>2, <1>3, SeqEqual
<1>5. QED BY <1>4 DEF u

\* As more stray lines come and more lines are eaten, less is promised of the lines.
LEMMA Monotone ==
  ASSUME strays \subseteq strays', eaten \subseteq eaten',
         sp_response'.cmd = sp_response.cmd, sp_response'.kind = sp_response.kind
  PROVE  (Clear' => Clear) /\ (Whole' => Whole)
BY DEF Clear, Whole, Eaten

\* A step that leaves the coming lines and the pending command alone.
LEMMA InTurnStays ==
  ASSUME InTurn, Coming' = Coming, UNCHANGED <<sp_response, said>>,
         todo' = todo \/ todo' = <<>>,
         Promised' => Promised, strays \subseteq strays', eaten \subseteq eaten'
  PROVE  InTurn'
<1>1. todo' = <<>> => \A r : OneAsked(r, todo')
  BY DEF OneAsked
<1>2. todo' = <<>> => \A s, r, clear : Orderly(s, r, todo, clear) => Orderly(s, r, todo', clear)
  BY DEF Orderly
<1>3. (Clear' => Clear) /\ (Whole' => Whole)
  BY Monotone
<1> SUFFICES ASSUME Promised, Promised' PROVE InTurn'
  BY DEF InTurn
<1>4. Orderly(Coming', sp_response', todo', Clear')
  BY <1>2, <1>3, Weaker DEF InTurn
<1>5. OneAsked(sp_response', todo')
  BY <1>1 DEF InTurn
<1>6. ASSUME sp_response # None
      PROVE  /\ Numbered(Coming', sp_response', said'[sp_response'.cmd], Whole')
             /\ Fitting(Coming', sp_response', said'[sp_response'.cmd], Clear')
  BY <1>3, <1>6, Weaker DEF InTurn
<1>7. QED BY <1>4, <1>5, <1>6 DEF InTurn

\* After the command is dropped nothing that comes may look like an answer.
LEMMA InTurnCleared ==
  ASSUME sp_response' = None, todo' = <<>>, AllStray(Coming', Clear')
  PROVE  InTurn'
<1>1. Orderly(Coming', sp_response', todo', Clear')
  BY DEF AllStray, Stray, Orderly
<1>2. OneAsked(sp_response', todo')
  BY DEF OneAsked
<1>3. QED BY <1>1, <1>2 DEF InTurn

\* When no final response is awaited, nothing that comes is anybody's answer.
LEMMA NothingAwaited ==
  ASSUME InTurn, Promised, sp_response = None \/ sp_response.final # None
  PROVE  todo = <<>> /\ AllStray(Coming, Clear)
BY DEF InTurn, Orderly, OneAsked, AllStray

\* There is nothing among no lines.
LEMMA NoLines == \A clear : AllStray(<<>>, clear)
<1>1. Len(<<>>) = 0
  OBVIOUS
<1>2. QED BY <1>1 DEF AllStray

\* Nothing is asked or on its way at the start.
LEMMA InTurnInit == Init => InTurn /\ NothingAsked
<1> SUFFICES ASSUME Init PROVE InTurn /\ NothingAsked
  OBVIOUS
<1>1. sp_response = None /\ todo = <<>> /\ Coming = <<>> /\ mpc = "open"
  BY DEF Init, Coming
<1>2. Len(Coming) = 0
  BY <1>1
<1>3. QED BY <1>1, <1>2 DEF InTurn, Orderly, OneAsked, NothingAsked

\* The pending response, when the thread c is about to send, and when it wakes.
LEMMA OwnerFacts ==
  ASSUME SoleCommander, TypeInv, OwnInv, NEW c \in Commanders
  PROVE  /\ pc[c] \notin Waiting => sp_response = None
         /\ sp_response # None => sp_response \in Response /\ sp_response.owner = c
<1>1. sp_response # None => sp_response \in Response /\ sp_response.owner \in Commanders
  BY TypeParts DEF ShareOK, Response
<1>2. sp_response # None => sp_response.owner = c
  BY <1>1 DEF SoleCommander
<1>3. QED BY <1>1, <1>2 DEF OwnInv, ResponseOwned

\* A command is written when nothing else is pending or on its way.
LEMMA InTurnSend ==
  ASSUME SoleCommander, TypeInv, OwnInv, Issued, InTurn, NEW c \in Commanders, Send(c)
  PROVE  InTurn'
<1>1. sp_response = None
  BY OwnerFacts DEF Send, Waiting
<1>2. Coming' = Coming /\ UNCHANGED <<said, strays, eaten>>
  <2>1. Commander(c) /\ ~FollowsNull(c)
    BY DEF Commander, Send, FollowsNull
  <2>2. QED BY <2>1, CommanderLeaves DEF Coming
<1>3. CASE /\ written + 1 \in Commands /\ written \in Nat
           /\ sp_response' = [owner |-> c, cmd |-> written + 1, kind |-> op[c],
                              final |-> None, lines |-> <<>>]
           /\ UNCHANGED <<late, undercut>>
           /\ \/ todo' = todo
              \/ todo' = Append(todo, [cmd |-> written + 1, kind |-> op[c]])
  <2>0. (Promised' <=> Promised) /\ (Clear' <=> Clear)
    BY <1>2, <1>3 DEF Promised, Clear
  <2> SUFFICES ASSUME Promised
               PROVE  /\ Orderly(Coming', sp_response', todo', Clear')
                      /\ OneAsked(sp_response', todo')
                      /\ sp_response' # None =>
                           /\ Numbered(Coming', sp_response', said'[sp_response'.cmd], Whole')
                           /\ Fitting(Coming', sp_response', said'[sp_response'.cmd], Clear')
    BY <2>0 DEF InTurn
  <2>1. todo = <<>> /\ AllStray(Coming, Clear)
    BY <1>1, NothingAwaited
  <2>2. Orderly(Coming', sp_response', todo', Clear')
    BY <1>2, <2>0, <2>1 DEF AllStray, Orderly, Stray
  <2>3. /\ sp_response'.cmd = written + 1 /\ sp_response'.kind = op[c]
        /\ sp_response'.final = None /\ sp_response'.lines = <<>>
    BY <1>3
  <2>4. TypeInv'
    BY TypeStep DEF Next, Commander
  <2>5. OneAsked(sp_response', todo')
    <3>1. CASE todo' = todo
      BY <2>1, <3>1 DEF OneAsked
    <3>2. CASE todo' = Append(todo, [cmd |-> written + 1, kind |-> op[c]])
      <4>1. todo' = <<[cmd |-> written + 1, kind |-> op[c]]>>
        BY <2>1, <3>2
      <4>2. Len(todo') = 1 /\ todo'[1].cmd = written + 1 /\ todo'[1].kind = op[c]
        BY <4>1
      <4>3. sp_response' # None
        <5>1. sp_response' \in Response
          <6>1. op[c] \in Kinds
            BY TypeParts DEF Send, CommanderOK, CallUnderWay
          <6>2. QED BY <1>3, <6>1 DEF Response
        <5>2. QED BY <5>1, NoneAssumption
      <4>4. QED BY <2>3, <4>2, <4>3 DEF OneAsked
    <3>3. QED BY <1>3, <3>1, <3>2
  <2>6. said'[written + 1] = 0
    BY <1>2, <1>3, CommandsNat DEF Issued
  <2>7. DataAt(Coming') = {} /\ OwnPlaces(sp_response'.lines, sp_response'.cmd) = {} /\ DOMAIN sp_response'.lines = {}
    BY <1>2, <2>1, <2>3 DEF AllStray, Stray, DataAt, IsData, OwnPlaces
  <2>8. Numbered(Coming', sp_response', said'[sp_response'.cmd], Whole')
    BY <2>3, <2>6, <2>7 DEF Numbered
  <2>9. Fitting(Coming', sp_response', said'[sp_response'.cmd], Clear')
    BY <2>3, <2>6, <2>7 DEF Fitting
  <2>10. QED BY <2>2, <2>5, <2>8, <2>9
<1>4. CASE UNCHANGED <<todo, late, undercut>> /\ sp_response' = None
  BY <1>1, <1>2, <1>4, InTurnStays DEF Promised
<1>5. QED BY <1>3, <1>4, SendFacts

\* A command completes when nothing of it is left on its way; the modem has been asked
\* nothing if at_open has caught it.
LEMMA InTurnComplete ==
  ASSUME SoleCommander, TypeInv, OwnInv, Ended, InTurn, NothingAsked,
         NEW c \in Commanders, Complete(c)
  PROVE  InTurn'
<1>1. /\ sp_response' = None /\ UNCHANGED <<todo, late, strays>> /\ sp_response # None
      /\ sp_response.final # None \/ s_readerClosed
  BY DEF Complete, modem
<1>2. Coming' = Coming /\ Clear' = Clear
  BY DEF Complete, Coming, Clear, reader, modem
<1>3. CASE ~Promised'
  BY <1>3 DEF InTurn
<1>4. CASE Promised /\ sp_response.final # None
  BY <1>1, <1>2, <1>4, NothingAwaited, InTurnCleared
<1>5. CASE s_readerClosed
  <2>1. todo = <<>> /\ Coming = <<>>
    BY <1>5, ComingFacts DEF Ended
  <2>2. QED BY <1>1, <1>2, <2>1, NoLines, InTurnCleared
<1>6. CASE Promised' /\ ~Promised
  <2>1. undercut # {} /\ late = "none" /\ strays \cap FinalLooks = {}
    BY <1>1, <1>6 DEF Promised
  <2>2. mpc = "opening"
    BY <1>1, <2>1 DEF OwnInv, CaughtWaiting
  <2>3. todo = <<>> /\ AllStray(Coming, Clear)
    BY <2>1, <2>2 DEF NothingAsked
  <2>4. QED BY <1>1, <1>2, <2>3, InTurnCleared
<1>7. QED BY <1>1, <1>3, <1>4, <1>5, <1>6

\* The head of the coming lines is taken, and nothing else changes; if it is data, the
\* response is not whole.
LEMMA InTurnSkips ==
  ASSUME TypeInv, InTurn, UNCHANGED <<sp_response, todo, said>>,
         Promised' => Promised, strays \subseteq strays', eaten \subseteq eaten',
         Coming # <<>>, Coming' = Tail(Coming), Promised /\ Whole' => ~IsData(Coming[1])
  PROVE  InTurn'
<1> SUFFICES ASSUME Promised, Promised' PROVE InTurn'
  BY DEF InTurn
<1>1. Coming \in Seq(ALine)
  BY ComingFacts
<1>2. (Clear' => Clear) /\ (Whole' => Whole)
  BY Monotone
<1>3. Orderly(Coming, sp_response, todo, Clear')
  BY <1>2, Weaker DEF InTurn
<1>4. Orderly(Coming', sp_response', todo', Clear')
  BY <1>1, <1>3, OrderlyTail
<1>5. OneAsked(sp_response', todo')
  BY DEF InTurn
<1>6. ASSUME sp_response # None
      PROVE  /\ Numbered(Coming', sp_response', said'[sp_response'.cmd], Whole')
             /\ Fitting(Coming', sp_response', said'[sp_response'.cmd], Clear')
  <2>1. /\ Numbered(Coming, sp_response, said[sp_response.cmd], Whole')
        /\ Fitting(Coming, sp_response, said[sp_response.cmd], Clear')
    BY <1>2, <1>6, Weaker DEF InTurn
  <2>2. Whole' => ~IsData(Coming[1])
    OBVIOUS
  <2>3. QED BY <1>1, <2>1, <2>2, NumberedTail, FittingTail
<1>7. QED BY <1>4, <1>5, <1>6 DEF InTurn

\* A data line among the coming ones is the pending command's.
LEMMA DataIsPendings ==
  ASSUME TypeInv, InTurn, Promised, Coming # <<>>, IsData(Coming[1])
  PROVE  sp_response # None /\ Coming[1].for = sp_response.cmd
<1>1. 1 \in 1..Len(Coming)
  BY ComingFacts, TailLines
<1>2. QED BY <1>1 DEF InTurn, Orderly, Stray, IsData

\* What a leftover of the old channel takes in, or an SMS, is eaten.
LEMMA EatenHead ==
  ASSUME TypeInv, InTurn, wire # <<>>, Coming = wire, TakesIn(Head(wire)), UNCHANGED sp_response
  PROVE  Promised /\ Whole' => ~IsData(Coming[1])
<1> SUFFICES ASSUME Promised, IsData(Coming[1]) PROVE ~Whole'
  OBVIOUS
<1>1. sp_response # None /\ Coming[1].for = sp_response.cmd
  BY DataIsPendings
<1>2. Head(wire) = Coming[1] /\ Coming[1].for # 0
  BY DEF IsData
<1>3. Coming[1] \in eaten'
  BY <1>2 DEF TakesIn
<1>4. QED BY <1>1, <1>3 DEF Whole, Eaten

\* Reading a line keeps the order, also when it begins with a part of an old one.
LEMMA InTurnRead ==
  ASSUME TypeInv, LinesInv, InTurn, ReadLine
  PROVE  InTurn'
<1> USE TypeParts
<1>1. /\ rpc \in {"read", "sms"} /\ wire # <<>>
      /\ UNCHANGED <<sp_response, todo, said, late, strays, undercut>>
      /\ rpc' = CASE rpc = "sms" -> "handler"
                  [] rpc = "read" -> IF rline'.look = "sms" THEN "sms" ELSE "process"
      /\ \/ partial = None /\ rline' = Head(wire) /\ wire' = Tail(wire)
         \/ partial # None /\ rline' = Line(partial, 0, 0) /\ wire' \in {wire, Tail(wire)}
  BY DEF ReadLine, pending
<1>2. /\ wire' = Tail(wire) /\ (rpc = "sms" \/ partial # None) => TakesIn(Head(wire))
      /\ eaten \subseteq eaten'
  <2>1. IF wire' = Tail(wire) /\ (rpc = "sms" \/ partial # None)
        THEN TakesIn(Head(wire)) ELSE UNCHANGED eaten
    BY Zenon DEF ReadLine
  <2>2. TakesIn(Head(wire)) => eaten \subseteq eaten'
    BY DEF TakesIn
  <2>3. QED BY <2>1, <2>2
<1>3. Coming = wire /\ wire \in Seq(ALine) /\ wire[1] = Head(wire)
  BY <1>1, ComingFacts
<1>4. Promised' => Promised
  BY <1>1 DEF Promised
<1>5. wire' = Tail(wire) /\ (rpc = "sms" \/ partial # None) => (Promised /\ Whole' => ~IsData(Coming[1]))
  BY <1>1, <1>2, <1>3, EatenHead
<1>6. CASE partial = None /\ rpc = "read" /\ Head(wire).look # "sms"
  <2>1. rpc' = "process" /\ rline' = wire[1] /\ wire' = Tail(wire)
    BY <1>1, <1>3, <1>6
  <2>2. Coming' = wire
    BY <1>1, <1>3, <2>1, HeadAndTail DEF Coming
  <2>3. QED BY <1>1, <1>2, <1>3, <1>4, <2>2, InTurnStays
<1>7. CASE partial = None /\ ~(rpc = "read" /\ Head(wire).look # "sms")
  <2>1. rpc' # "process" /\ wire' = Tail(wire)
    BY <1>1, <1>7
  <2>2. Coming' = Tail(Coming)
    BY <1>3, <2>1 DEF Coming
  <2>3. Head(wire).look = "sms" => ~IsData(Coming[1])
    BY <1>3 DEF IsData
  <2>4. Promised /\ Whole' => ~IsData(Coming[1])
    BY <1>1, <1>5, <1>7, <2>1, <2>3
  <2>5. QED BY <1>1, <1>2, <1>3, <1>4, <2>2, <2>4, InTurnSkips
<1>8. CASE partial # None
  <2>1. rpc = "read" /\ rline' = Line(partial, 0, 0) /\ wire' \in {wire, Tail(wire)}
    BY <1>1, <1>8 DEF LinesInv, CutShort
  <2>2. rline'.look = partial /\ rline'.for = 0
    BY <2>1 DEF Line
  <2>3. CASE partial = "sms"
    <3>1. Coming' = wire'
      BY <1>1, <2>1, <2>2, <2>3 DEF Coming
    <3>2. CASE wire' = wire
      BY <1>1, <1>2, <1>3, <1>4, <3>1, <3>2, InTurnStays
    <3>3. CASE wire' = Tail(wire)
      BY <1>1, <1>2, <1>3, <1>4, <1>5, <1>8, <3>1, <3>3, InTurnSkips
    <3>4. QED BY <2>1, <3>2, <3>3
  <2>4. CASE partial # "sms"
    <3> SUFFICES ASSUME Promised, Promised' PROVE InTurn'
      BY <1>4 DEF InTurn
    <3> DEFINE x == Line(partial, 0, 0)
    <3>1. x \in ALine /\ Stray(x, Clear')
      <4>1. x \in ALine
        BY <1>8, CommandsNat DEF Line, ALine, Looks, CutLooks, ReaderOK
      <4>2. partial \in AnswerLooks => partial \in strays
        BY <1>8, <2>1 DEF LinesInv, CutShort
      <4>3. partial \notin FinalLooks /\ (Clear' => partial # "match")
        BY <1>1, <4>2 DEF Promised, Clear, AnswerLooks
      <4>4. QED BY <4>1, <4>3 DEF Stray, Line
    <3>2. Coming' = <<x>> \o wire'
      BY <1>1, <2>1, <2>2, <2>4 DEF Coming
    <3>3. (Clear' => Clear) /\ (Whole' => Whole)
      BY <1>1, <1>2, Monotone
    <3> HIDE DEF x
    <3>4. /\ Orderly(wire, sp_response, todo, Clear') /\ OneAsked(sp_response, todo)
          /\ sp_response # None =>
               /\ Numbered(wire, sp_response, said[sp_response.cmd], Whole')
               /\ Fitting(wire, sp_response, said[sp_response.cmd], Clear')
      BY <1>3, <3>3, Weaker DEF InTurn
    <3>5. wire' \in Seq(ALine)
      BY <1>1, <1>3, <2>1, TailLines
    <3>6. /\ Orderly(wire', sp_response, todo, Clear')
          /\ sp_response # None =>
               /\ Numbered(wire', sp_response, said[sp_response.cmd], Whole')
               /\ Fitting(wire', sp_response, said[sp_response.cmd], Clear')
      <4>1. CASE wire' = wire
        BY <3>4, <4>1
      <4>2. CASE wire' = Tail(wire)
        <5>1. Whole' => ~IsData(wire[1])
          BY <1>3, <1>5, <1>8, <4>2
        <5>2. QED BY <1>1, <1>3, <3>4, <4>2, <5>1, OrderlyTail, NumberedTail, FittingTail
      <4>3. QED BY <2>1, <4>1, <4>2
    <3>7. /\ Orderly(Coming', sp_response, todo, Clear')
          /\ sp_response # None =>
               /\ Numbered(Coming', sp_response, said[sp_response.cmd], Whole')
               /\ Fitting(Coming', sp_response, said[sp_response.cmd], Clear')
      BY <3>1, <3>2, <3>5, <3>6, StrayPut
    <3>8. QED BY <1>1, <3>4, <3>7 DEF InTurn
  <2>5. QED BY <2>3, <2>4
<1>9. QED BY <1>6, <1>7, <1>8

\* The next data line of the pending command is wanted, if the response is whole.
LEMMA DataWanted ==
  ASSUME TypeInv, InTurn, Promised, Whole, Coming # <<>>, IsData(Coming[1]), rline = Coming[1]
  PROVE  sp_response # None /\ Coming[1].for = sp_response.cmd /\ Wanted
<1> DEFINE x == Coming[1]
           r == sp_response
           L == r.lines
           n == r.cmd
           total == said[r.cmd]
<1>1. Coming \in Seq(ALine) /\ x \in ALine /\ 1 \in 1..Len(Coming) /\ Len(Coming) \in Nat
  BY ComingFacts, TailLines
<1>2. r # None /\ x.for = n
  BY DataIsPendings
<1>3. r \in Response
  BY <1>2, TypeParts DEF ShareOK
<1>4. Numbered(Coming, r, total, TRUE) /\ Fitting(Coming, r, total, Clear)
  BY <1>2, Weaker DEF InTurn
<1>5. 1 \in DataAt(Coming)
  BY <1>1 DEF DataAt
<1>6. L \in Seq(({0} \cup Commands) \X Nat) /\ r.kind \in AllKinds /\ total \in Nat
  BY <1>3, TypeParts, KindsAssumption DEF Response, ModemOK
<1>7. x.i \in 1..total /\ x.look = IF r.kind = "CMGR" /\ x.i # 1 THEN "pdu" ELSE "match"
  BY <1>4, <1>5 DEF Numbered, Fitting
<1>8. r.kind \notin {"HANDSHAKE", "NO_RESULT"}
  BY <1>4, <1>6, <1>7 DEF Fitting
<1>9. CASE r.kind \in {"NUMERIC", "SINGLELINE", "SMS"}
  <2>1. x.i = 1 /\ x.look = "match"
    BY <1>4, <1>6, <1>7, <1>9 DEF Fitting
  <2>2. \A q \in OwnPlaces(L, n) : L[q][2] \in 1..total /\ L[q][2] < x.i
    BY <1>4, <1>5 DEF Numbered
  <2>3. OwnPlaces(L, n) = {}
    BY <1>6, <2>1, <2>2
  <2>4. DOMAIN L = {}
    BY <1>4, <1>9, <2>3 DEF Fitting, Whole
  <2>5. L = <<>>
    <3>1. Len(L) \in Nat /\ DOMAIN L = 1..Len(L)
      BY <1>6
    <3>2. 1 \notin 1..Len(L)
      BY <2>4, <3>1
    <3>3. Len(L) = 0
      BY <3>1, <3>2
    <3>4. QED BY <1>6, <3>3, EmptySeq
  <2>6. QED BY <1>2, <1>9, <2>1, <2>5 DEF Wanted
<1>10. CASE r.kind = "MULTILINE"
  BY <1>2, <1>7, <1>10 DEF Wanted
<1>11. CASE r.kind = "CMGR"
  <2>1. CASE x.i = 1
    BY <1>2, <1>7, <1>11, <2>1 DEF Wanted
  <2>2. CASE x.i # 1
    <3>1. 1 \in 1..total /\ 1 < x.i
      BY <1>6, <1>7, <2>2
    <3>2. \A p \in DataAt(Coming) : Coming[p].i # 1
      <4> SUFFICES ASSUME NEW p \in DataAt(Coming) PROVE Coming[p].i # 1
        OBVIOUS
      <4>1. p \in 1..Len(Coming)
        BY DEF DataAt
      <4>2. CASE p = 1
        BY <2>2, <4>2
      <4>3. CASE p # 1
        <5>1. 1 < p
          BY <1>1, <4>1, <4>3
        <5>2. x.i < Coming[p].i /\ Coming[p].i \in 1..total /\ x.i \in 1..total
          BY <1>4, <1>5, <5>1 DEF Numbered
        <5> HIDE DEF total
        <5>3. x.i \in Int /\ Coming[p].i \in Int
          BY <1>6, <5>2
        <5>4. QED BY <3>1, <5>2, <5>3
      <4>4. QED BY <4>2, <4>3
    <3>3. PICK p \in OwnPlaces(L, n) : L[p][2] = 1
      BY <1>4, <3>1, <3>2 DEF Numbered
    <3>4. p \in DOMAIN L
      BY DEF OwnPlaces
    <3>5. L # <<>>
      BY <3>4
    <3>6. QED BY <1>2, <1>11, <3>5 DEF Wanted
  <2>3. QED BY <2>1, <2>2
<1>12. QED BY <1>2, <1>6, <1>8, <1>9, <1>10, <1>11 DEF AllKinds

\* Whatever processLine decides, the line it takes is the next in turn.
LEMMA InTurnProcess ==
  ASSUME TypeInv, InTurn, ProcessLine
  PROVE  InTurn'
<1> USE TypeParts
<1>1. /\ rpc = "process" /\ rpc' = "read" /\ UNCHANGED <<late, strays, eaten, undercut, wire, todo, said>>
  BY DEF ProcessLine, FinalResponse, Prompt, Intermediate, Unsolicited, Processed, modem, history
<1>0. (Promised' <=> Promised) /\ (Clear' <=> Clear)
  BY <1>1 DEF Promised, Clear
<1> SUFFICES ASSUME Promised PROVE InTurn'
  BY <1>0 DEF InTurn
<1>2. /\ Coming \in Seq(ALine) /\ Coming # <<>> /\ Coming[1] = rline /\ rline \in ALine
      /\ Coming' = Tail(Coming)
  BY <1>1, ComingFacts DEF Coming
<1>3. 1 \in 1..Len(Coming)
  BY <1>2, TailLines
<1> DEFINE r == sp_response
<1>4. r # None => r \in Response
  BY DEF ShareOK
<1>5. IsData(rline) => r # None /\ rline.for = r.cmd /\ (Whole => Wanted)
  BY <1>2, DataIsPendings, DataWanted
<1>6. /\ Orderly(Coming, r, todo, Clear) /\ OneAsked(r, todo)
      /\ r # None => Numbered(Coming, r, said[r.cmd], Whole) /\ Fitting(Coming, r, said[r.cmd], Clear)
  BY DEF InTurn
<1>7. Orderly(Tail(Coming), r, todo, Clear)
  BY <1>2, <1>6, OrderlyTail
<1>8. CASE FinalResponse
  <2>1. r # None /\ rline.look \in FinalLooks /\ r' = [r EXCEPT !.final = rline]
    BY <1>8 DEF FinalResponse, Processed, IsFinal
  <2>2. todo = <<>> /\ \A q \in 1..Len(Coming) : 1 < q => Coming[q].for = 0
    BY <1>2, <1>3, <1>6, <2>1 DEF Orderly
  <2>3. rline.for = r.cmd
    BY <1>2, <1>3, <1>6, <2>1 DEF Orderly, Stray
  <2>4. /\ r'.lines = r.lines /\ r'.cmd = r.cmd /\ r'.kind = r.kind /\ r'.final = rline
    BY <1>4, <2>1 DEF Response
  <2>5. AllStray(Tail(Coming), Clear)
    <3> SUFFICES ASSUME NEW p \in 1..Len(Tail(Coming)) PROVE Stray(Tail(Coming)[p], Clear)
      BY DEF AllStray
    <3>1. p + 1 \in 1..Len(Coming) /\ Tail(Coming)[p] = Coming[p + 1] /\ 1 < p + 1
      BY <1>2, TailLines
    <3>2. Coming[p + 1].for = 0
      BY <2>2, <3>1
    <3>3. QED BY <1>6, <3>1, <3>2 DEF Orderly
  <2>6. Orderly(Coming', r', todo', Clear') /\ OneAsked(r', todo')
    BY <1>0, <1>1, <1>2, <2>2, <2>5 DEF AllStray, Stray, Orderly, OneAsked
  <2>7. ~IsData(rline)
    BY <2>1 DEF IsData, FinalLooks
  <2>8. Numbered(Coming', r', said'[r'.cmd], Whole) /\ Fitting(Coming', r', said'[r'.cmd], Clear)
    BY <1>1, <1>2, <1>6, <2>1, <2>3, <2>4, <2>7, FinalTaken
  <2>10. Whole' => Whole
    BY <1>1, <2>4, Monotone
  <2>11. Numbered(Coming', r', said'[r'.cmd], Whole') /\ Fitting(Coming', r', said'[r'.cmd], Clear')
    BY <1>0, <2>8, <2>10, Weaker
  <2>12. QED BY <2>6, <2>11 DEF InTurn
<1>9. CASE Prompt
  <2>1. rline.look = "prompt" /\ UNCHANGED <<sp_response, todo, said>>
    BY <1>9 DEF Prompt, Processed
  <2>2. ~IsData(rline)
    BY <2>1 DEF IsData
  <2>3. QED BY <1>0, <1>1, <1>2, <2>1, <2>2, InTurnSkips
<1>10. CASE Intermediate
  <2>1. /\ r # None /\ rline.look \notin FinalLooks /\ ~(s_smsPDU /\ rline.look = "prompt") /\ Wanted
        /\ r' = [r EXCEPT !.lines = <<<<rline.for, rline.i>>>> \o r.lines]
    BY <1>10 DEF Intermediate, Processed, IsFinal
  <2>2. /\ r'.lines = <<<<rline.for, rline.i>>>> \o r.lines
        /\ r'.cmd = r.cmd /\ r'.kind = r.kind /\ r'.final = r.final
    BY <1>4, <2>1 DEF Response
  <2>3. r' \in Response
    <3>1. <<rline.for, rline.i>> \in ({0} \cup Commands) \X Nat
      BY <1>2 DEF ALine
    <3>2. <<<<rline.for, rline.i>>>> \o r.lines \in Seq(({0} \cup Commands) \X Nat)
      BY <1>4, <2>1, <3>1 DEF Response
    <3>3. QED BY <1>4, <2>1, <3>2 DEF Response
  <2>4. IF IsData(rline) THEN rline.for = r.cmd ELSE rline.for # r.cmd /\ (Clear => r.kind = "CMGR")
    <3>1. CASE Stray(rline, Clear)
      <4>1. rline.for = 0 /\ (Clear => rline.look # "match")
        BY <3>1 DEF Stray
      <4>2. r.cmd # 0
        <5>1. r.cmd \in Commands
          BY <1>4, <2>1 DEF Response
        <5>2. MaxCalls * HANDSHAKE_RETRY_COUNT \in Int
          BY BoundsFacts
        <5>3. QED BY <5>1, <5>2 DEF Commands
      <4>3. Clear => r.kind = "CMGR"
        BY <1>4, <2>1, <4>1, KindsAssumption DEF Wanted, Response, AllKinds
      <4>4. QED BY <1>5, <4>1, <4>2, <4>3
    <3>2. CASE /\ rline.for # 0 /\ rline.look \in Answers
               /\ rline.look = "prompt" => r.kind = "SMS"
      <4>1. CASE rline.look = "prompt"
        <5>1. r.kind = "SMS"
          BY <3>2, <4>1
        <5>2. QED BY <2>1, <4>1, <5>1 DEF Wanted
      <4>2. CASE rline.look # "prompt"
        BY <1>5, <2>1, <3>2, <4>2 DEF Answers, FinalLooks, IsData
      <4>3. QED BY <4>1, <4>2
    <3>3. QED BY <1>2, <1>3, <1>6, <3>1, <3>2 DEF Orderly
  <2>5. said[r.cmd] \in Nat
    BY <1>4, <2>1 DEF Response, ModemOK
  <2>6. Numbered(Coming', r', said[r.cmd], Whole) /\ Fitting(Coming', r', said[r.cmd], Clear)
    BY <1>2, <1>4, <1>6, <2>1, <2>2, <2>3, <2>4, <2>5, LineTaken
  <2>10. Whole' => Whole
    BY <1>1, <2>2, Monotone
  <2>11. Numbered(Coming', r', said[r.cmd], Whole') /\ Fitting(Coming', r', said[r.cmd], Clear')
    BY <1>0, <2>6, <2>10, Weaker
  <2>7. r' # None
    BY <2>3, NoneAssumption
  <2>8. Orderly(Coming', r', todo', Clear')
    <3>1. Orderly(Tail(Coming), r', todo, Clear)
      BY <1>7, <2>1, <2>2, <2>7 DEF Orderly
    <3>2. QED BY <1>0, <1>1, <1>2, <3>1, Weaker
  <2>9. OneAsked(r', todo')
    BY <1>1, <1>6, <2>1, <2>2, <2>7 DEF OneAsked
  <2>12. QED BY <1>1, <2>2, <2>8, <2>9, <2>11 DEF InTurn
<1>11. CASE Unsolicited
  <2>1. /\ UNCHANGED <<sp_response, todo, said>>
        /\ r # None => rline.look \notin FinalLooks /\ ~(s_smsPDU /\ rline.look = "prompt") /\ ~Wanted
    BY <1>11 DEF Unsolicited, Processed, IsFinal, pending, modem
  <2>2. Whole' => Whole
    BY <1>1, <2>1, Monotone
  <2>3. Whole => ~IsData(rline)
    BY <1>5, <2>1
  <2>4. QED BY <1>0, <1>1, <1>2, <2>1, <2>2, <2>3, InTurnSkips
<1>12. QED BY <1>8, <1>9, <1>10, <1>11 DEF ProcessLine

\* The modem says one more line.
LEMMA InTurnSays ==
  ASSUME TypeInv, InTurn, NEW x \in ALine, wire' = Append(wire, x),
         UNCHANGED <<rpc, rline, sp_response, eaten>>,
         Promised' => Promised, strays \subseteq strays',
         todo' = todo \/ todo' = <<>>, x.look \in FinalLooks => todo' = <<>>,
         Stray(x, Clear') \/ (todo # <<>> /\ x.for = todo[1].cmd /\ x.for # 0 /\ x.look \in Answers
                              /\ (x.look = "prompt" => todo[1].kind = "SMS")),
         IF ~IsData(x) THEN said' = said
         ELSE LET n == todo[1].cmd
                  k == todo[1].kind
              IN /\ said' = [said EXCEPT ![n] = said[n] + 1]
                 /\ x.i = said[n] + 1
                 /\ x.look = IF k = "CMGR" /\ x.i # 1 THEN "pdu" ELSE "match"
                 /\ k \in {"NUMERIC", "SINGLELINE", "SMS"} => said[n] = 0
                 /\ k \notin {"HANDSHAKE", "NO_RESULT"}
  PROVE  InTurn'
<1> SUFFICES ASSUME Promised, Promised' PROVE InTurn'
  BY DEF InTurn
<1> DEFINE r == sp_response
<1>0. (Clear' => Clear) /\ (Whole' => Whole)
  BY Monotone
<1>1. Coming \in Seq(ALine) /\ Coming' = Append(Coming, x)
  BY ComingFacts, ComingSent
<1>2. /\ Orderly(Coming, r, todo, Clear') /\ OneAsked(r, todo)
      /\ r # None => /\ Numbered(Coming, r, said[r.cmd], Whole')
                     /\ Fitting(Coming, r, said[r.cmd], Clear')
  BY <1>0, Weaker DEF InTurn
<1>3. todo # <<>> => r # None /\ r.final = None /\ todo[1].cmd = r.cmd /\ todo[1].kind = r.kind
  BY <1>2 DEF OneAsked
<1> HIDE DEF r
<1>4. Orderly(Coming', r, todo', Clear')
  BY <1>1, <1>2, <1>3, OrderlySent
<1>5. OneAsked(r, todo')
  BY <1>2 DEF OneAsked
<1>6. ASSUME r # None
      PROVE  Numbered(Coming', r, said'[r.cmd], Whole') /\ Fitting(Coming', r, said'[r.cmd], Clear')
  <2>1. CASE ~IsData(x)
    BY <1>1, <1>2, <1>6, <2>1, OthersSent
  <2>2. CASE IsData(x)
    <3>1. todo # <<>>
      BY <2>2 DEF IsData, Stray
    <3>2. r.cmd = todo[1].cmd /\ r.kind = todo[1].kind
      BY <1>3, <3>1
    <3>3. r.cmd \in Commands /\ said \in [Commands -> Nat]
      BY <1>6, TypeParts DEF r, ShareOK, Response, ModemOK
    <3>4. said[r.cmd] \in Nat /\ said'[r.cmd] = said[r.cmd] + 1
      BY <2>2, <3>2, <3>3
    <3>5. QED BY <1>1, <1>2, <1>6, <2>2, <3>2, <3>4, DataSent
  <2>3. QED BY <2>1, <2>2
<1>7. QED BY <1>4, <1>5, <1>6 DEF InTurn, r

\* The modem's answers come in turn.
LEMMA InTurnModem ==
  ASSUME TypeInv, InTurn, ModemIntermediate \/ ModemPrompt \/ ModemFinal
  PROVE  InTurn'
<1> USE TypeParts
<1>1. /\ todo # <<>> /\ UNCHANGED <<rpc, rline, sp_response, late, strays, eaten, undercut>>
      /\ Promised' <=> Promised
  BY DEF ModemIntermediate, ModemPrompt, ModemFinal, MayAnswer, reader, pending, history, Promised
<1> DEFINE n == todo[1].cmd
           k == todo[1].kind
<1>2. Head(todo) = todo[1] /\ n \in Commands /\ k \in Kinds
  BY <1>1, HeadOfTodo
<1>3. said \in [Commands -> Nat] /\ n \in Nat /\ n # 0
  <2>1. MaxCalls * HANDSHAKE_RETRY_COUNT \in Int
    BY BoundsFacts
  <2>2. QED BY <1>2, <2>1 DEF ModemOK, Commands
<1>4. CASE ModemIntermediate
  <2> DEFINE x == Line(IF k = "CMGR" /\ said[n] = 1 THEN "pdu" ELSE "match", n, said'[n])
  <2>1. /\ k \in {"NUMERIC", "SINGLELINE", "MULTILINE", "CMGR", "SMS"} /\ todo' = todo
        /\ said[n] < CASE k = "MULTILINE" -> MaxLines
                       [] k = "CMGR" -> 2
                       [] k \in {"NUMERIC", "SINGLELINE", "SMS"} -> 1
        /\ said' = [said EXCEPT ![n] = said[n] + 1]
        /\ wire' = Append(wire, x)
    BY <1>2, <1>4 DEF ModemIntermediate, MayAnswer, ModemSays
  <2>2. said[n] \in Nat /\ said'[n] = said[n] + 1
    BY <1>2, <1>3, <2>1
  <2>3. /\ x.for = n /\ x.i = said[n] + 1
        /\ x.look = IF k = "CMGR" /\ said[n] = 1 THEN "pdu" ELSE "match"
    BY <2>2 DEF Line
  <2>4. x \in ALine
    BY <1>2, <2>2 DEF Line, ALine, Looks
  <2>5. k = "CMGR" => (said[n] = 1 <=> said[n] + 1 # 1)
    <3>1. k = "CMGR" => said[n] < 2
      BY <2>1
    <3>2. QED BY <2>2, <3>1
  <2>6. k \in {"NUMERIC", "SINGLELINE", "SMS"} => said[n] = 0
    <3>1. k \in {"NUMERIC", "SINGLELINE", "SMS"} => said[n] < 1
      BY <2>1
    <3>2. QED BY <2>2, <3>1
  <2>7. IsData(x) /\ x.look \notin FinalLooks /\ x.look \in Answers /\ x.look # "prompt"
    BY <1>3, <2>3 DEF IsData, FinalLooks, Answers
  <2> HIDE DEF x
  <2>8. x.look = IF k = "CMGR" /\ x.i # 1 THEN "pdu" ELSE "match"
    BY <2>3, <2>5
  <2>9. QED BY <1>1, <1>3, <2>1, <2>3, <2>4, <2>6, <2>7, <2>8, InTurnSays
<1>5. CASE ModemPrompt
  <2> DEFINE x == Line("prompt", n, 0)
  <2>1. k = "SMS" /\ todo' = todo /\ said' = said /\ wire' = Append(wire, x)
    BY <1>2, <1>5 DEF ModemPrompt, MayAnswer, ModemSays
  <2>2. x \in ALine /\ x.for = n /\ x.look = "prompt"
    BY <1>2 DEF Line, ALine, Looks
  <2>3. ~IsData(x) /\ x.look \notin FinalLooks /\ x.look \in Answers
    BY <2>2 DEF IsData, FinalLooks, Answers
  <2> HIDE DEF x
  <2>4. QED BY <1>1, <1>3, <2>1, <2>2, <2>3, InTurnSays
<1>6. CASE ModemFinal
  <2>1. PICK look \in FinalLooks : wire' = Append(wire, Line(look, n, 0))
    BY <1>2, <1>6 DEF ModemFinal, ModemSays
  <2> DEFINE x == Line(look, n, 0)
  <2>2. todo' = Tail(todo) /\ said' = said
    BY <1>6 DEF ModemFinal
  <2>3. x \in ALine /\ x.for = n /\ x.look = look
    BY <1>2 DEF Line, ALine, Looks, FinalLooks
  <2>4. ~IsData(x) /\ x.look \in Answers /\ x.look # "prompt"
    BY <2>3 DEF IsData, FinalLooks, Answers
  <2>5. CASE Promised
    <3>1. Len(todo) = 1
      BY <1>1, <2>5 DEF InTurn, OneAsked
    <3>2. todo' = <<>>
      <4>1. Tail(todo) \in Seq([cmd : Commands, kind : Kinds]) /\ Len(Tail(todo)) = 0
        BY <1>1, <3>1, HeadOfTodo DEF ModemOK
      <4>2. QED BY <2>2, <4>1, EmptySeq
    <3> HIDE DEF x
    <3>3. wire' = Append(wire, x)
      BY <2>1 DEF x
    <3>4. QED BY <1>1, <1>3, <2>2, <2>3, <2>4, <3>2, <3>3, InTurnSays
  <2>6. CASE ~Promised
    BY <1>1, <2>6 DEF InTurn
  <2>7. QED BY <2>5, <2>6
<1>7. QED BY <1>4, <1>5, <1>6

\* An SMS comes after what was coming, as two lines.
LEMMA TwoSent ==
  ASSUME TypeInv, UNCHANGED <<rpc, rline>>, NEW x \in ALine, NEW y \in ALine, wire' = wire \o <<x, y>>
  PROVE  Coming' = Append(Append(Coming, x), y)
<1>1. wire \in Seq(ALine) /\ (rpc = "process" => rline \in ALine) /\ Coming \in Seq(ALine)
  BY ComingFacts
<1>2. wire' = Append(Append(wire, x), y)
  BY <1>1
<1>3. CASE rpc # "process"
  BY <1>1, <1>2, <1>3 DEF Coming
<1>4. CASE rpc = "process"
  <2>1. \A s \in Seq(ALine), z \in ALine : <<rline>> \o Append(s, z) = Append(<<rline>> \o s, z)
    BY <1>1, <1>4, AppendLater
  <2>2. Append(wire, x) \in Seq(ALine)
    BY <1>1, SentAfter
  <2>3. QED BY <1>1, <1>2, <1>4, <2>1, <2>2 DEF Coming
<1>5. QED BY <1>3, <1>4

\* An unsolicited line, or two; one that looks like a final response ends all promises.
LEMMA StraysSent ==
  ASSUME TypeInv, InTurn, ModemUnsolicited
  PROVE  InTurn'
<1>1. UNCHANGED <<rpc, rline, sp_response, late, eaten, undercut, todo, said>> /\ strays \subseteq strays'
  BY DEF ModemUnsolicited, reader, pending
<1>2. Promised' => Promised
  BY <1>1 DEF Promised
<1>3. \A look \in {"unsol", "ok", "error", "match", "sms", "pdu"} : Line(look, 0, 0) \in ALine
  BY DEF Line, ALine, Looks
<1>4. ASSUME NEW look \in {"unsol"} \cup AnswerLooks, wire' = Append(wire, Line(look, 0, 0)),
             strays' = strays \cup ({look} \cap AnswerLooks)
      PROVE  InTurn'
  <2>1. CASE look \in FinalLooks
    <3>1. ~Promised'
      BY <1>4, <2>1 DEF Promised, AnswerLooks
    <3>2. QED BY <3>1 DEF InTurn
  <2>2. CASE look \notin FinalLooks
    <3> DEFINE x == Line(look, 0, 0)
    <3>1. look \in {"unsol", "match"} /\ (Clear' => look # "match")
      BY <1>4, <2>2 DEF Clear, AnswerLooks
    <3>2. x \in ALine /\ x.look = look /\ x.for = 0
      BY <1>3, <3>1 DEF Line
    <3> HIDE DEF x
    <3>3. Stray(x, Clear') /\ ~IsData(x) /\ x.look \notin FinalLooks
      BY <2>2, <3>1, <3>2 DEF Stray, IsData
    <3>4. wire' = Append(wire, x)
      BY <1>4 DEF x
    <3>5. QED BY <1>1, <1>2, <3>2, <3>3, <3>4, InTurnSays
  <2>3. QED BY <2>1, <2>2
<1>5. CASE wire' = wire \o <<Line("sms", 0, 0), Line("pdu", 0, 0)>> /\ strays' = strays
  <2> DEFINE x == Line("sms", 0, 0)
             y == Line("pdu", 0, 0)
  <2>1. /\ x \in ALine /\ Stray(x, Clear) /\ ~IsData(x) /\ x.look \notin FinalLooks
        /\ y \in ALine /\ Stray(y, Clear) /\ ~IsData(y) /\ y.look \notin FinalLooks
    BY <1>3 DEF Line, Stray, IsData, FinalLooks
  <2> HIDE DEF x, y
  <2>2. Coming \in Seq(ALine) /\ Coming' = Append(Append(Coming, x), y)
    <3>1. wire' = wire \o <<x, y>>
      BY <1>5 DEF x, y
    <3>2. QED BY <1>1, <2>1, <3>1, ComingFacts, TwoSent
  <2>3. Append(Coming, x) \in Seq(ALine)
    BY <2>1, <2>2
  <2>4. (Clear' <=> Clear) /\ (Whole' => Whole)
    BY <1>1, <1>5, Monotone DEF Clear
  <2>5. ASSUME Promised PROVE InTurn'
    <3>1. Orderly(Append(Coming, x), sp_response, todo, Clear)
      BY <2>1, <2>2, <2>5, OrderlySent DEF InTurn
    <3>2. Orderly(Append(Append(Coming, x), y), sp_response, todo, Clear)
      BY <2>1, <2>3, <3>1, OrderlySent
    <3>3. ASSUME sp_response # None
          PROVE  /\ Numbered(Append(Append(Coming, x), y), sp_response, said[sp_response.cmd], Whole')
                 /\ Fitting(Append(Append(Coming, x), y), sp_response, said[sp_response.cmd], Clear)
      <4>1. /\ Numbered(Coming, sp_response, said[sp_response.cmd], Whole')
            /\ Fitting(Coming, sp_response, said[sp_response.cmd], Clear)
        BY <2>4, <2>5, <3>3, Weaker DEF InTurn
      <4>2. /\ Numbered(Append(Coming, x), sp_response, said[sp_response.cmd], Whole')
            /\ Fitting(Append(Coming, x), sp_response, said[sp_response.cmd], Clear)
        BY <2>1, <2>2, <4>1, OthersSent
      <4>3. QED BY <2>1, <2>3, <4>2, OthersSent
    <3>4. OneAsked(sp_response, todo)
      BY <2>5 DEF InTurn
    <3>5. QED BY <1>1, <2>2, <2>4, <3>2, <3>3, <3>4, Weaker DEF InTurn
  <2>6. QED BY <1>2, <2>5 DEF InTurn
<1>6. QED BY <1>4, <1>5, Zenon DEF ModemUnsolicited, ModemSays


\* A step that leaves the coming lines alone and does not begin an at_open.
LEMMA NothingAskedStays ==
  ASSUME NothingAsked, Coming' = Coming, todo' = todo \/ todo' = <<>>,
         mpc' = "opening" => mpc = "opening", undercut' # {} => undercut # {},
         late' = "none" => late = "none", strays \subseteq strays'
  PROVE  NothingAsked'
<1> SUFFICES ASSUME mpc' = "opening", undercut' # {}, late' = "none", strays' \cap FinalLooks = {}
             PROVE todo' = <<>> /\ AllStray(Coming', Clear')
  BY DEF NothingAsked
<1>1. todo = <<>> /\ AllStray(Coming, Clear)
  BY DEF NothingAsked
<1>2. Clear' => Clear
  BY DEF Clear
<1>3. QED BY <1>1, <1>2, Weaker

\* One more line that answers nothing.
LEMMA AllStraySent ==
  ASSUME NEW s \in Seq(ALine), NEW x \in ALine, NEW clear, AllStray(s, clear), Stray(x, clear)
  PROVE  AllStray(Append(s, x), clear)
BY SentAfter DEF AllStray

\* What is said on a channel that at_open has not finished opening answers nothing.
LEMMA NothingAskedSays ==
  ASSUME TypeInv, NothingAsked, ModemUnsolicited
  PROVE  NothingAsked'
<1>1. /\ UNCHANGED <<rpc, rline, mpc, late, undercut, todo>> /\ strays \subseteq strays'
  BY DEF ModemUnsolicited, reader, main
<1> SUFFICES ASSUME mpc' = "opening", undercut' # {}, late' = "none", strays' \cap FinalLooks = {}
             PROVE AllStray(Coming', Clear') /\ todo' = <<>>
  BY DEF NothingAsked
<1>2. todo = <<>> /\ AllStray(Coming, Clear) /\ Coming \in Seq(ALine)
  BY <1>1, ComingFacts DEF NothingAsked
<1>3. AllStray(Coming, Clear')
  BY <1>1, <1>2, Weaker DEF Clear
<1>4. \A look \in {"unsol", "match", "sms", "pdu"} :
        Line(look, 0, 0) \in ALine /\ (look # "match" => Stray(Line(look, 0, 0), Clear'))
  BY DEF Line, ALine, Looks, Stray, FinalLooks
<1>5. ASSUME NEW look \in {"unsol"} \cup AnswerLooks, wire' = Append(wire, Line(look, 0, 0)),
             strays' = strays \cup ({look} \cap AnswerLooks)
      PROVE  AllStray(Coming', Clear')
  <2> DEFINE x == Line(look, 0, 0)
  <2>1. look \in {"unsol", "match"} /\ (Clear' => look # "match")
    BY <1>5 DEF AnswerLooks, FinalLooks, Clear
  <2>2. x \in ALine /\ Stray(x, Clear')
    BY <1>4, <2>1 DEF Line, Stray, FinalLooks
  <2>3. wire' = Append(wire, x)
    BY <1>5
  <2> HIDE DEF x
  <2>4. Coming' = Append(Coming, x)
    BY <1>1, <2>2, <2>3, ComingSent
  <2>5. QED BY <1>2, <1>3, <2>2, <2>4, AllStraySent
<1>6. ASSUME wire' = wire \o <<Line("sms", 0, 0), Line("pdu", 0, 0)>>
      PROVE  AllStray(Coming', Clear')
  <2> DEFINE x == Line("sms", 0, 0)
             y == Line("pdu", 0, 0)
  <2>1. x \in ALine /\ Stray(x, Clear') /\ y \in ALine /\ Stray(y, Clear')
    BY <1>4
  <2>2. wire' = wire \o <<x, y>>
    BY <1>6
  <2> HIDE DEF x, y
  <2>3. Coming' = Append(Append(Coming, x), y)
    BY <1>1, <2>1, <2>2, TwoSent
  <2>4. Append(Coming, x) \in Seq(ALine)
    BY <1>2, <2>1
  <2>5. AllStray(Append(Coming, x), Clear')
    BY <1>2, <1>3, <2>1, AllStraySent
  <2>6. AllStray(Append(Append(Coming, x), y), Clear')
    <3> DEFINE u == Append(Coming, x)
    <3>1. u \in Seq(ALine) /\ AllStray(u, Clear')
      BY <2>4, <2>5
    <3> HIDE DEF u
    <3>2. AllStray(Append(u, y), Clear')
      BY <2>1, <3>1, AllStraySent
    <3>3. QED BY <3>2 DEF u
  <2>7. QED BY <2>3, <2>6
<1>7. AllStray(Coming', Clear')
  BY <1>5, <1>6, Zenon DEF ModemUnsolicited, ModemSays
<1>8. QED BY <1>1, <1>2, <1>7

\* Nothing is asked of a new channel as long as at_open runs under a command.
LEMMA NothingAskedStep ==
  ASSUME SoleCommander, TypeInv, OwnInv, LinesInv, NothingAsked, [Next]_vars
  PROVE  NothingAsked'
<1>0. mpc \in {"open", "opening"} => rpc = "none"
  BY DEF LinesInv, ReaderGone
<1>1. ASSUME NEW c \in Commanders, NEW k \in Kinds, Call(c, k)
      PROVE  NothingAsked'
  BY <1>1, NothingAskedStays DEF Call, reader, main, modem, Coming
<1>2. ASSUME NEW c \in Commanders, Send(c)
      PROVE  NothingAsked'
  <2>1. undercut' = {}
    BY <1>2 DEF Send, OwnInv, CaughtWaiting, Waiting
  <2>2. QED BY <2>1 DEF NothingAsked
<1>3. ASSUME NEW c \in Commanders, TimesOut(c) \/ SpuriousWake(c) \/ WaitAgain(c)
      PROVE  NothingAsked'
  BY <1>3, NothingAskedStays
  DEF TimesOut, SpuriousWake, WaitAgain, reader, main, modem, history, Coming
<1>4. ASSUME NEW c \in Commanders, GiveUp(c)
      PROVE  NothingAsked'
  BY <1>4 DEF GiveUp, NothingAsked
<1>5. ASSUME NEW c \in Commanders, Complete(c)
      PROVE  NothingAsked'
  <2>1. UNCHANGED <<todo, late, strays, mpc>> /\ Coming' = Coming /\ undercut' \subseteq undercut
    BY <1>5 DEF Complete, reader, main, modem, Coming
  <2>2. QED BY <2>1, NothingAskedStays
<1>6. ASSUME NEW c \in Commanders, PauseEnds(c)
      PROVE  NothingAsked'
  BY <1>6, NothingAskedStays DEF PauseEnds, reader, main, modem, Coming
<1>7. ASSUME NEW c \in Commanders, FollowsNull(c)
      PROVE  NothingAsked'
  BY <1>7 DEF FollowsNull, NothingAsked
<1>8. CASE Reader \/ HangUp
  <2>1. rpc # "none"
    BY <1>8 DEF Reader, ReadLine, SmsHandler, ProcessLine, FinalResponse, Prompt, Intermediate,
      Unsolicited, Processed, EndOfInput, OnReaderClosed, AtCloseFd, AtClose, ReportClosed, HangUp
  <2>2. mpc' = mpc
    BY <1>8, ReaderLeaves DEF HangUp, main
  <2>3. QED BY <1>0, <2>1, <2>2 DEF NothingAsked
<1>9. CASE AtOpenFlags
  <2>1. mpc = "open" /\ wire' = <<>> /\ todo' = <<>> /\ rpc' = rpc
    BY <1>9 DEF AtOpenFlags, reader
  <2>2. Coming' = <<>>
    BY <1>0, <2>1 DEF Coming
  <2>3. QED BY <2>1, <2>2, NoLines DEF NothingAsked
<1>10. CASE AtOpenResponse \/ MainWakes
  BY <1>10 DEF AtOpenResponse, MainWakes, NothingAsked
<1>11. CASE ModemIntermediate \/ ModemPrompt \/ ModemFinal
  <2>1. todo # <<>> /\ UNCHANGED <<mpc, late, strays, undercut>>
    BY <1>11 DEF ModemIntermediate, ModemPrompt, ModemFinal, MayAnswer, main, history
  <2>2. QED BY <2>1 DEF NothingAsked
<1>12. CASE ModemUnsolicited
  BY <1>12, NothingAskedSays
<1>13. CASE UNCHANGED vars
  BY <1>13, NothingAskedStays DEF vars, reader, main, modem, history, Coming
<1>14. QED
  BY <1>1, <1>2, <1>3, <1>4, <1>5, <1>6, <1>7, <1>8, <1>9, <1>10, <1>11, <1>12, <1>13
  DEF Next, Commander, Main, Modem

\* Every step keeps the coming lines in turn.
LEMMA InTurnStep ==
  ASSUME SoleCommander, TypeInv, OwnInv, LinesInv, Issued, InTurn, NothingAsked, [Next]_vars
  PROVE  InTurn'
<1> USE TypeParts
<1>0. /\ mpc \in {"open", "opening"} => rpc = "none"
      /\ sp_response # None => sp_response.owner \in Commanders /\ pc[sp_response.owner] \in Waiting
  BY DEF LinesInv, ReaderGone, OwnInv, ResponseOwned, ShareOK, Response
<1>1. ASSUME NEW c \in Commanders, NEW k \in Kinds, Call(c, k)
      PROVE  InTurn'
  BY <1>1, InTurnStays DEF Call, pending, reader, modem, Coming, Promised
<1>2. ASSUME NEW c \in Commanders, Send(c)
      PROVE  InTurn'
  BY <1>2, InTurnSend
<1>3. ASSUME NEW c \in Commanders, TimesOut(c) \/ SpuriousWake(c) \/ WaitAgain(c)
      PROVE  InTurn'
  BY <1>3, InTurnStays
  DEF TimesOut, SpuriousWake, WaitAgain, pending, reader, modem, history, Coming, Promised
<1>4. ASSUME NEW c \in Commanders, GiveUp(c)
      PROVE  InTurn'
  BY <1>4 DEF GiveUp, InTurn, Promised
<1>5. ASSUME NEW c \in Commanders, Complete(c)
      PROVE  InTurn'
  BY <1>5, InTurnComplete DEF LinesInv
<1>6. ASSUME NEW c \in Commanders, PauseEnds(c)
      PROVE  InTurn'
  BY <1>6, InTurnStays DEF PauseEnds, pending, reader, modem, Coming, Promised
<1>7. ASSUME NEW c \in Commanders, FollowsNull(c)
       PROVE  InTurn'
  <2>1. sp_response' = None /\ todo' = <<>> /\ Coming' = <<>>
    BY <1>7 DEF FollowsNull, pending, Coming
  <2>2. QED BY <2>1, NoLines, InTurnCleared
<1>8. CASE ReadLine
  BY <1>8, InTurnRead
<1>9. CASE ProcessLine
  BY <1>9, InTurnProcess
<1>10. CASE SmsHandler \/ EndOfInput \/ OnReaderClosed \/ AtCloseFd \/ AtClose \/ ReportClosed
  <2>1. /\ rpc # "process" /\ rpc' # "process" /\ wire' = wire
        /\ UNCHANGED <<sp_response, said, todo, late, strays, eaten, undercut>>
    BY <1>10 DEF SmsHandler, EndOfInput, OnReaderClosed, AtCloseFd, AtClose, ReportClosed,
      CloseAndSignal, pending, modem, history
  <2>2. QED BY <2>1, InTurnStays DEF Coming, Promised
<1>11. CASE AtOpenFlags
  <2>1. /\ mpc = "open" /\ wire' = <<>> /\ todo' = <<>> /\ UNCHANGED <<rpc, sp_response>>
        /\ undercut' = undercut \cup {c \in Commanders : pc[c] \in Waiting}
    BY <1>11 DEF AtOpenFlags, Undercut, reader, pending
  <2>2. Coming' = <<>>
    BY <1>0, <2>1 DEF Coming
  <2>3. Promised' => sp_response = None
    BY <1>0, <2>1 DEF Promised
  <2>4. CASE Promised'
    BY <2>1, <2>2, <2>3, <2>4, NoLines, InTurnCleared
  <2>5. QED BY <2>4 DEF InTurn
<1>12. CASE AtOpenResponse
  <2>1. /\ mpc = "opening" /\ sp_response' = None /\ rpc' = "read"
        /\ UNCHANGED <<wire, todo, said, late, strays, eaten>>
        /\ undercut' = undercut \cup {c \in Commanders : pc[c] \in Waiting}
    BY <1>12 DEF AtOpenResponse, Undercut, modem
  <2>2. Promised' => sp_response = None /\ Promised
    BY <1>0, <2>1 DEF Promised
  <2>3. Coming' = Coming
    BY <1>0, <2>1 DEF Coming
  <2>4. CASE Promised'
    BY <2>1, <2>2, <2>3, <2>4, InTurnStays
  <2>5. QED BY <2>4 DEF InTurn
<1>13. CASE ModemIntermediate \/ ModemPrompt \/ ModemFinal
  BY <1>13, InTurnModem
<1>14. CASE ModemUnsolicited
  BY <1>14, StraysSent
<1>15. CASE HangUp
  BY <1>15, InTurnStays DEF HangUp, pending, reader, history, Coming, Promised
<1>16. CASE MainWakes \/ UNCHANGED vars
  BY <1>16, InTurnStays DEF MainWakes, vars, pending, reader, modem, history, Coming, Promised
<1>17. QED
  BY <1>1, <1>2, <1>3, <1>4, <1>5, <1>6, <1>8, <1>9, <1>10, <1>11, <1>12, <1>13, <1>14, <1>15, <1>16, <1>7
  DEF Next, Commander, Reader, Main, Modem

-----------------------------------------------------------------------------
(* The results                                                             *)

\* What is to be shown of a result.
Answered(r) ==
  LET clear == "match" \notin r.strays
  IN /\ r.from = r.cmd
     /\ ~Eaten(r.cmd) /\ (clear \/ r.kind \in {"MULTILINE", "CMGR"}) => AllOwnLines(r.lines, r.cmd)
     /\ clear /\ r.kind # "CMGR" => OwnPlaces(r.lines, r.cmd) = DOMAIN r.lines

LEMMA RightAnswers ==
  /\ RightAnswer <=> \A c \in Commanders : Vouched(result[c]) => Answered(result[c])
  /\ RightAnswer' <=> \A c \in Commanders : Vouched(result'[c]) => Answered(result[c])'
BY DEF RightAnswer, Vouched, Answered

\* What a step may do to the results, and to what they rest on.
LEMMA SettledStays ==
  ASSUME TypeInv, Settled, RightAnswer, DOMAIN result' = Commanders,
         written' \in Nat, written' >= written, eaten \subseteq eaten',
         \A d \in Commanders : result'[d] = result[d] \/ result'[d].err # "ok",
         \A n \in Commands : n <= written =>
           said'[n] = said[n] \/ \E p \in 1..Len(todo) : todo[p].cmd = n,
         \A p \in 1..Len(todo') :
           todo'[p].cmd > written \/ \E q \in 1..Len(todo) : todo'[p].cmd = todo[q].cmd
  PROVE  Settled' /\ RightAnswer'
<1>1. written \in Nat /\ Commands \subseteq Nat
  BY TypeParts, CommandsNat DEF HistoryOK
<1>2. ASSUME NEW d \in Commanders, Vouched(result'[d])
      PROVE  /\ result'[d] = result[d] /\ Vouched(result[d])
             /\ result[d].cmd \in Commands /\ result[d].cmd <= written
             /\ \A p \in 1..Len(todo) : todo[p].cmd # result[d].cmd
  <2>1. result'[d] = result[d]
    BY <1>2 DEF Vouched
  <2>2. QED BY <1>2, <2>1 DEF Settled
<1>3. Settled'
  <2> SUFFICES ASSUME NEW d \in Commanders, Vouched(result'[d])
               PROVE  /\ result'[d].cmd \in Commands /\ result'[d].cmd <= written'
                      /\ \A p \in 1..Len(todo') : todo'[p].cmd # result'[d].cmd
    BY DEF Settled
  <2> DEFINE n == result[d].cmd
  <2>1. result'[d].cmd = n /\ n \in Commands /\ n <= written /\ n \in Nat
    BY <1>1, <1>2
  <2>2. \A p \in 1..Len(todo) : todo[p].cmd # n
    BY <1>2
  <2> HIDE DEF n
  <2>3. n <= written'
    BY <1>1, <2>1
  <2>4. ASSUME NEW p \in 1..Len(todo') PROVE todo'[p].cmd # n
    <3>1. CASE todo'[p].cmd > written
      BY <1>1, <2>1, <3>1
    <3>2. CASE \E q \in 1..Len(todo) : todo'[p].cmd = todo[q].cmd
      BY <2>2, <3>2
    <3>3. QED BY <3>1, <3>2
  <2>5. QED BY <2>1, <2>3, <2>4
<1>4. RightAnswer'
  <2> SUFFICES ASSUME NEW d \in Commanders, Vouched(result'[d])
               PROVE  Answered(result[d])'
    BY RightAnswers
  <2>1. Answered(result[d])
    BY <1>2, RightAnswers
  <2>2. said'[result[d].cmd] = said[result[d].cmd] /\ result'[d] = result[d]
    BY <1>2
  <2>3. Eaten(result[d].cmd) => Eaten(result[d].cmd)'
    BY <2>2 DEF Eaten
  <2>4. Answered(result[d])'
    BY <2>1, <2>2, <2>3 DEF Answered, AllOwnLines
  <2>5. QED BY <2>4
<1>5. QED BY <1>3, <1>4

\* reverseIntermediates: what was put newest first is returned in order.
LEMMA Reversed ==
  ASSUME NEW r \in Response, NEW s, NEW total \in Nat, NEW whole, Numbered(s, r, total, whole),
         DataAt(s) = {}, NEW R, R = InOrder(r.lines)
  PROVE  /\ whole => {R[p][2] : p \in OwnPlaces(R, r.cmd)} = 1..total
         /\ \A p, q \in OwnPlaces(R, r.cmd) : p < q => R[p][2] < R[q][2]
         /\ OwnPlaces(r.lines, r.cmd) = DOMAIN r.lines => OwnPlaces(R, r.cmd) = DOMAIN R
<1> DEFINE L == r.lines
           n == r.cmd
           own == OwnPlaces(L, n)
           own2 == OwnPlaces(R, n)
<1>1. /\ L \in Seq(({0} \cup Commands) \X Nat) /\ Len(L) \in Nat /\ DOMAIN L = 1..Len(L)
      /\ R = [i \in 1..Len(L) |-> L[(Len(L) - i) + 1]]
  BY DEF Response, InOrder, Reverse
<1>2. /\ \A p \in own : L[p][2] \in 1..total
      /\ \A p, q \in own : p < q => L[q][2] < L[p][2]
      /\ whole => \A i \in 1..total : \E p \in own : L[p][2] = i
  BY DEF Numbered
<1> HIDE DEF L, n
<1>3. \A p \in 1..Len(L) : (Len(L) - p) + 1 \in 1..Len(L) /\ (Len(L) - ((Len(L) - p) + 1)) + 1 = p
  BY <1>1
<1>4. DOMAIN R = 1..Len(L) /\ \A p \in 1..Len(L) : R[p] = L[(Len(L) - p) + 1]
  BY <1>1
<1>5. /\ \A p \in own2 : (Len(L) - p) + 1 \in own /\ R[p] = L[(Len(L) - p) + 1]
      /\ \A p \in own : (Len(L) - p) + 1 \in own2 /\ R[(Len(L) - p) + 1] = L[p]
      /\ own \subseteq Int /\ own2 \subseteq Int
  <2>1. own \subseteq 1..Len(L) /\ \A p \in 1..Len(L) : p \in own <=> L[p][1] = n
    BY <1>1 DEF OwnPlaces
  <2>2. own2 \subseteq 1..Len(L) /\ \A p \in 1..Len(L) : p \in own2 <=> R[p][1] = n
    BY <1>4 DEF OwnPlaces
  <2> HIDE DEF own, own2
  <2>3. ASSUME NEW p \in own2 PROVE (Len(L) - p) + 1 \in own /\ R[p] = L[(Len(L) - p) + 1]
    <3>1. p \in 1..Len(L) /\ R[p][1] = n
      BY <2>2
    <3>2. R[p] = L[(Len(L) - p) + 1] /\ (Len(L) - p) + 1 \in 1..Len(L)
      BY <1>3, <1>4, <3>1
    <3>3. QED BY <2>1, <3>1, <3>2
  <2>4. ASSUME NEW p \in own PROVE (Len(L) - p) + 1 \in own2 /\ R[(Len(L) - p) + 1] = L[p]
    <3>1. p \in 1..Len(L) /\ L[p][1] = n
      BY <2>1
    <3> DEFINE q == (Len(L) - p) + 1
    <3>2. q \in 1..Len(L) /\ (Len(L) - q) + 1 = p
      BY <1>3, <3>1
    <3> HIDE DEF q
    <3>3. R[q] = L[p]
      BY <1>4, <3>2
    <3>4. q \in own2
      BY <2>2, <3>1, <3>2, <3>3
    <3>5. QED BY <3>3, <3>4 DEF q
  <2>5. own \subseteq Int /\ own2 \subseteq Int
    BY <1>1, <2>1, <2>2
  <2>6. QED BY <2>3, <2>4, <2>5
<1> HIDE DEF own, own2
<1>6. ASSUME whole PROVE {R[p][2] : p \in own2} = 1..total
  <2>1. ASSUME NEW p \in own2 PROVE R[p][2] \in 1..total
    BY <1>2, <1>5
  <2>2. ASSUME NEW i \in 1..total PROVE \E p \in own2 : R[p][2] = i
    <3>1. PICK p \in own : L[p][2] = i
      BY <1>2, <1>6
    <3>2. (Len(L) - p) + 1 \in own2 /\ R[(Len(L) - p) + 1] = L[p]
      BY <1>5
    <3>3. QED BY <3>1, <3>2
  <2>3. QED BY <2>1, <2>2
<1>7. ASSUME NEW p \in own2, NEW q \in own2, p < q PROVE R[p][2] < R[q][2]
  <2> DEFINE a == (Len(L) - p) + 1
             b == (Len(L) - q) + 1
  <2>1. b < a
    <3>1. p \in Int /\ q \in Int
      BY <1>5
    <3>2. QED BY <1>1, <1>7, <3>1
  <2>2. a \in own /\ R[p] = L[a] /\ b \in own /\ R[q] = L[b]
    BY <1>5
  <2> HIDE DEF a, b
  <2>3. L[a][2] < L[b][2]
    BY <1>2, <2>1, <2>2
  <2>4. QED BY <2>2, <2>3
<1>8. ASSUME own = DOMAIN L PROVE own2 = DOMAIN R
  <2>1. \A p \in 1..Len(L) : p \in own2
    <3> SUFFICES ASSUME NEW p \in 1..Len(L) PROVE p \in own2
      OBVIOUS
    <3>1. (Len(L) - p) + 1 \in own /\ (Len(L) - ((Len(L) - p) + 1)) + 1 = p
      BY <1>1, <1>3, <1>8
    <3>2. QED BY <1>5, <3>1
  <2>2. own2 \subseteq DOMAIN R
    BY DEF own2, OwnPlaces
  <2>3. QED BY <1>4, <2>1, <2>2
<1>9. QED BY <1>6, <1>7, <1>8 DEF own, own2, L, n

\* The response that is returned is complete, in order, and the command's own.
LEMMA SettledComplete ==
  ASSUME SoleCommander, TypeInv, OwnInv, Issued, InTurn, NothingAsked, Settled, RightAnswer,
         NEW c \in Commanders, Complete(c)
  PROVE  Settled' /\ RightAnswer'
<1> DEFINE r == sp_response
           e == ReturnError(r)
           rec == [Outcome(c, e) EXCEPT !.cmd = r.cmd,
                                        !.from = IF r.final = None THEN 0 ELSE r.final.for,
                                        !.lines = InOrder(r.lines)]
<1>1. /\ r # None /\ (r.final # None \/ s_readerClosed)
      /\ result' = [result EXCEPT ![c] = rec]
      /\ UNCHANGED <<todo, said, written, eaten>>
  BY DEF Complete, modem
<1>2. r \in Response /\ r.owner = c
  BY <1>1, OwnerFacts
<1>3. /\ DOMAIN result = Commanders
      /\ \A d \in Commanders : result'[d] = IF d = c THEN rec ELSE result[d]
      /\ DOMAIN result' = Commanders
  BY <1>1 DEF Settled
<1>4. /\ rec.err = e /\ rec.kind = op[c] /\ rec.cmd = r.cmd /\ rec.late = late
      /\ rec.strays = strays /\ rec.undercut = (c \in undercut)
      /\ rec.lines = InOrder(r.lines) /\ (r.final # None => rec.from = r.final.for)
  BY DEF Outcome, NoResult
<1> HIDE DEF rec
<1>5. ASSUME Vouched(rec)
      PROVE  /\ rec.cmd \in Commands /\ rec.cmd <= written
             /\ todo = <<>>
             /\ Answered(rec)
  <2>1. ~s_readerClosed
    BY <1>4, <1>5 DEF ReturnError, Vouched
  <2>2. r.final # None
    BY <1>1, <2>1
  <2>3. Promised
    <3>1. undercut = {}
      BY <1>4, <1>5, TypeParts DEF Vouched, SoleCommander, HistoryOK
    <3>2. QED BY <1>4, <1>5, <3>1 DEF Vouched, Promised
  <2>4. todo = <<>> /\ AllStray(Coming, Clear)
    BY <2>2, <2>3, NothingAwaited
  <2>5. DataAt(Coming) = {}
    BY <2>4 DEF AllStray, Stray, DataAt, IsData
  <2>6. Numbered(Coming, r, said[r.cmd], Whole) /\ Fitting(Coming, r, said[r.cmd], Clear)
    BY <1>1, <2>3 DEF InTurn
  <2>7. r.final.for = r.cmd
    BY <2>2, <2>6 DEF Fitting
  <2>8. r.cmd \in Commands /\ r.cmd <= written /\ r.kind = op[c]
    BY <1>1, <1>2 DEF Response, Issued
  <2>9. said[r.cmd] \in Nat
    BY <2>8, TypeParts DEF ModemOK
  <2> DEFINE R == InOrder(r.lines)
  <2>10. /\ Whole => {R[p][2] : p \in OwnPlaces(R, r.cmd)} = 1..said[r.cmd]
         /\ \A p, q \in OwnPlaces(R, r.cmd) : p < q => R[p][2] < R[q][2]
         /\ OwnPlaces(r.lines, r.cmd) = DOMAIN r.lines => OwnPlaces(R, r.cmd) = DOMAIN R
    BY <1>2, <2>5, <2>6, <2>9, Reversed
  <2>11. Clear /\ op[c] # "CMGR" => OwnPlaces(R, r.cmd) = DOMAIN R
    BY <2>6, <2>8, <2>10 DEF Fitting
  <2>12. Whole => AllOwnLines(R, r.cmd)
    BY <2>10 DEF AllOwnLines
  <2> HIDE DEF R
  <2>13. ~Eaten(r.cmd) /\ (Clear \/ op[c] \in {"MULTILINE", "CMGR"}) => Whole
    BY <2>8 DEF Whole
  <2>14. Clear <=> "match" \notin rec.strays
    BY <1>4 DEF Clear
  <2>15. rec.lines = R /\ rec.from = rec.cmd
    BY <1>4, <2>2, <2>7 DEF R
  <2> HIDE DEF r
  <2>16. Answered(rec)
    BY <1>4, <2>11, <2>12, <2>13, <2>14, <2>15 DEF Answered
  <2>17. QED BY <1>4, <2>4, <2>8, <2>16
<1>6. ASSUME NEW d \in Commanders, Vouched(result'[d])
      PROVE  /\ result'[d].cmd \in Commands /\ result'[d].cmd <= written
             /\ \A p \in 1..Len(todo) : todo[p].cmd # result'[d].cmd
             /\ Answered(result'[d])
  <2>1. d = c /\ result'[d] = rec
    BY <1>3 DEF SoleCommander
  <2>2. todo = <<>> => Len(todo) = 0
    OBVIOUS
  <2>3. QED BY <1>5, <1>6, <2>1, <2>2
<1>7. Settled'
  BY <1>1, <1>3, <1>6 DEF Settled
<1>8. RightAnswer'
  <2>1. \A d \in Commanders : Answered(result'[d]) => Answered(result[d])'
    BY <1>1 DEF Answered, AllOwnLines, Eaten
  <2>2. QED BY <1>6, <2>1, RightAnswers
<1>9. QED BY <1>7, <1>8

\* No call has returned at the start.
LEMMA SettledInit == Init => Settled /\ RightAnswer
<1> SUFFICES ASSUME Init PROVE Settled /\ RightAnswer
  OBVIOUS
<1>1. DOMAIN result = Commanders /\ \A c \in Commanders : result[c].err = "none"
  BY DEF Init, NoResult
<1>2. QED BY <1>1 DEF Settled, RightAnswer, Vouched

\* A step that leaves the results and the numbers of the commands alone.
LEMMA SettledSame ==
  ASSUME TypeInv, Settled, RightAnswer, UNCHANGED <<result, written, said>>,
         eaten \subseteq eaten', todo' = todo \/ todo' = <<>>
  PROVE  Settled' /\ RightAnswer'
<1>1. written \in Nat
  BY TypeParts DEF HistoryOK
<1>2. ASSUME NEW p \in 1..Len(todo') PROVE \E q \in 1..Len(todo) : todo'[p].cmd = todo[q].cmd
  BY <1>2
<1>3. DOMAIN result' = Commanders
  BY DEF Settled
<1>4. QED BY <1>1, <1>2, <1>3, SettledStays

\* Every step keeps the returned answers right.
LEMMA SettledStep ==
  ASSUME SoleCommander, TypeInv, OwnInv, Issued, InTurn, NothingAsked, Settled, RightAnswer,
         [Next]_vars
  PROVE  Settled' /\ RightAnswer'
<1> USE TypeParts
<1>0. written \in Nat /\ DOMAIN result = Commanders /\ said \in [Commands -> Nat]
  BY DEF HistoryOK, Settled, ModemOK
<1>1. ASSUME NEW c \in Commanders, NEW k \in Kinds, Call(c, k)
      PROVE  Settled' /\ RightAnswer'
  <2>1. result' = [result EXCEPT ![c] = NoResult] /\ UNCHANGED <<written, said, todo, eaten>>
    BY <1>1 DEF Call, modem
  <2>2. DOMAIN result' = Commanders /\ \A d \in Commanders : result'[d] = result[d] \/ result'[d].err # "ok"
    BY <1>0, <2>1 DEF NoResult
  <2>3. QED BY <1>0, <2>1, <2>2, SettledStays
<1>2. ASSUME NEW c \in Commanders, Send(c)
      PROVE  Settled' /\ RightAnswer'
  <2>1. UNCHANGED <<said, eaten>>
    BY <1>2 DEF Send
  <2>2. CASE /\ written' = written + 1 /\ result' = result
             /\ \/ todo' = todo
                \/ todo' = Append(todo, [cmd |-> written + 1, kind |-> op[c]])
    <3>1. ASSUME NEW p \in 1..Len(todo')
          PROVE  todo'[p].cmd > written \/ \E q \in 1..Len(todo) : todo'[p].cmd = todo[q].cmd
      <4>1. CASE todo' = todo
        BY <4>1
      <4>2. CASE todo' = Append(todo, [cmd |-> written + 1, kind |-> op[c]])
        <5>1. todo \in Seq([cmd : Commands, kind : Kinds])
          BY DEF ModemOK
        <5>2. /\ Len(todo) \in Nat /\ Len(todo') = Len(todo) + 1
              /\ todo'[Len(todo) + 1] = [cmd |-> written + 1, kind |-> op[c]]
              /\ \A q \in 1..Len(todo) : todo'[q] = todo[q]
          BY <4>2, <5>1
        <5>3. todo'[Len(todo) + 1].cmd = written + 1 /\ written + 1 > written
          BY <1>0, <5>2
        <5>4. CASE p \in 1..Len(todo)
          BY <5>2, <5>4
        <5>5. CASE p = Len(todo) + 1
          BY <5>3, <5>5
        <5>6. QED BY <5>2, <5>4, <5>5
      <4>3. QED BY <2>2, <4>1, <4>2
    <3>2. written' \in Nat /\ written' >= written
      BY <1>0, <2>2
    <3>3. DOMAIN result' = Commanders
      BY <1>0, <2>2
    <3>4. QED BY <2>1, <2>2, <3>1, <3>2, <3>3, SettledStays
  <2>3. CASE /\ UNCHANGED <<written, todo>>
             /\ \E e \in {"COMMAND_PENDING", "CHANNEL_CLOSED", "GENERIC"} : Returns(c, e)
    <3>1. PICK e \in {"COMMAND_PENDING", "CHANNEL_CLOSED", "GENERIC"} : Returns(c, e)
      BY <2>3
    <3>2. DOMAIN result' = Commanders /\ \A d \in Commanders : result'[d] = result[d] \/ result'[d].err # "ok"
      BY <1>0, <3>1 DEF Returns, Outcome, NoResult
    <3>3. QED BY <1>0, <2>1, <2>3, <3>2, SettledStays
  <2>4. QED BY <1>2, <2>2, <2>3, SendFacts
<1>3. ASSUME NEW c \in Commanders, TimesOut(c) \/ SpuriousWake(c) \/ WaitAgain(c)
      PROVE  Settled' /\ RightAnswer'
  BY <1>3, SettledSame DEF TimesOut, SpuriousWake, WaitAgain, modem, history
<1>4. ASSUME NEW c \in Commanders, GiveUp(c)
      PROVE  Settled' /\ RightAnswer'
  <2>1. Returns(c, "TIMEOUT") /\ UNCHANGED <<todo, said, written, eaten>>
    BY <1>4 DEF GiveUp, modem
  <2>2. DOMAIN result' = Commanders /\ \A d \in Commanders : result'[d] = result[d] \/ result'[d].err # "ok"
    BY <1>0, <2>1 DEF Returns, Outcome, NoResult
  <2>3. QED BY <1>0, <2>1, <2>2, SettledStays
<1>5. ASSUME NEW c \in Commanders, Complete(c)
      PROVE  Settled' /\ RightAnswer'
  BY <1>5, SettledComplete
<1>6. ASSUME NEW c \in Commanders, PauseEnds(c)
      PROVE  Settled' /\ RightAnswer'
  BY <1>6, SettledSame DEF PauseEnds, modem
<1>7. ASSUME NEW c \in Commanders, FollowsNull(c)
       PROVE  Settled' /\ RightAnswer'
  BY <1>7, SettledSame DEF FollowsNull, history
<1>8. CASE Reader
  BY <1>8, ReaderLeaves, SettledSame
<1>9. CASE AtOpenFlags \/ AtOpenResponse \/ MainWakes
  BY <1>9, SettledSame DEF AtOpenFlags, AtOpenResponse, MainWakes, commander, modem, history
<1>10. CASE ModemIntermediate
  <2> DEFINE n == Head(todo).cmd
  <2>1. /\ todo # <<>> /\ UNCHANGED <<result, written, todo, eaten>>
        /\ said' = [said EXCEPT ![n] = said[n] + 1]
    BY <1>10 DEF ModemIntermediate, MayAnswer, commander, history
  <2>2. n = todo[1].cmd /\ 1 \in 1..Len(todo)
    BY <2>1, HeadOfTodo
  <2> HIDE DEF n
  <2>3. \A m \in Commands : said'[m] = said[m] \/ \E p \in 1..Len(todo) : todo[p].cmd = m
    BY <1>0, <2>1, <2>2
  <2>4. QED BY <1>0, <2>1, <2>3, SettledStays
<1>11. CASE ModemFinal
  <2>1. /\ todo # <<>> /\ UNCHANGED <<result, written, said, eaten>> /\ todo' = Tail(todo)
    BY <1>11 DEF ModemFinal, MayAnswer, commander, history
  <2>2. ASSUME NEW p \in 1..Len(todo') PROVE \E q \in 1..Len(todo) : todo'[p].cmd = todo[q].cmd
    BY <2>1, <2>2, HeadOfTodo
  <2>3. QED BY <1>0, <2>1, <2>2, SettledStays
<1>12. CASE ModemPrompt \/ ModemUnsolicited \/ HangUp
  BY <1>12, SettledSame DEF ModemPrompt, ModemUnsolicited, HangUp, commander, history
<1>13. CASE UNCHANGED vars
  BY <1>13, SettledSame DEF vars, commander, modem, history
<1>14. QED
  BY <1>1, <1>2, <1>3, <1>4, <1>5, <1>6, <1>8, <1>9, <1>10, <1>11, <1>12, <1>13, <1>7
  DEF Next, Commander, Main, Modem

\* A command that succeeds returns its own final response and all its own lines
\* in order (RightAnswer), for any kinds of command and any number of lines, stray
\* lines, lines cut short, calls and reopenings, when one thread sends the commands.
THEOREM CommandsAnswered ==
  ASSUME SoleCommander
  PROVE  Spec => []RightAnswer
<1>1. Init => TypeInv /\ OwnInv /\ AnswerInv
  BY TypeInit, OwnInit, LinesInit, IssuedInit, InTurnInit, SettledInit DEF AnswerInv
<1>2. TypeInv /\ OwnInv /\ AnswerInv /\ [Next]_vars => (TypeInv /\ OwnInv /\ AnswerInv)'
  <2> SUFFICES ASSUME TypeInv, OwnInv, AnswerInv, [Next]_vars
               PROVE  TypeInv' /\ OwnInv' /\ AnswerInv'
    OBVIOUS
  <2>1. TypeInv' /\ OwnInv'
    BY TypeStep, OwnStep
  <2>2. LinesInv' /\ Issued' /\ InTurn' /\ NothingAsked' /\ Settled' /\ RightAnswer'
    BY LinesStep, IssuedStep, InTurnStep, NothingAskedStep, SettledStep DEF AnswerInv
  <2>3. QED BY <2>1, <2>2 DEF AnswerInv
<1>3. AnswerInv => RightAnswer
  BY DEF AnswerInv
<1>4. QED BY <1>1, <1>2, <1>3, PTL DEF Spec

-----------------------------------------------------------------------------
(* No lost wake-up                                                         *)

\* The descriptor is open only while the channel is, and then a reader is at work
\* unless it has told of the close; a pending command has such a reader, or at_open is
\* about to start one.
ReaderThere ==
  /\ mpc \in {"open", "crashed"} \/ rpc \in {"closed", "report"} \/ s_closed => ~s_fd
  /\ mpc = "wait" /\ s_fd /\ ~s_readerClosed => rpc \in Reading
  /\ sp_response # None /\ ~s_readerClosed => rpc \in Reading \/ mpc = "opening"

\* A thread that sleeps would not leave its loop if it woke, unless at_open caught it.
Asleep ==
  \A c \in Commanders \ undercut : pc[c] = "wait" =>
    sp_response # None /\ sp_response.final = None /\ ~s_readerClosed

\* Whoever the response is pending for, asleep or not, its end is to come, or was eaten.
Awaited ==
  undercut = {} /\ sp_response # None /\ sp_response.final = None =>
    AnswerComes \/ AnswerEaten(sp_response.cmd)

WakeupInv == ReaderThere /\ Asleep /\ Awaited

\* A final response is still among the lines when one that is not it has been taken, or
\* others have been put before or sent after.
LEMMA FinalStays ==
  ASSUME NEW s \in Seq(ALine), NEW n, FinalIn(s, n)
  PROVE  /\ s # <<>> /\ ~(s[1].look \in FinalLooks /\ s[1].for = n) => FinalIn(Tail(s), n)
         /\ \A x \in ALine : FinalIn(<<x>> \o s, n) /\ FinalIn(Append(s, x), n)
<1>1. PICK p \in 1..Len(s) : s[p].look \in FinalLooks /\ s[p].for = n
  BY DEF FinalIn
<1>2. ASSUME s # <<>>, ~(s[1].look \in FinalLooks /\ s[1].for = n)
      PROVE  FinalIn(Tail(s), n)
  <2>1. p # 1 /\ Len(s) \in Nat
    BY <1>1, <1>2
  <2>2. p - 1 \in 1..Len(Tail(s)) /\ Tail(s)[p - 1] = s[p]
    BY <1>2, <2>1, TailLines
  <2>3. QED BY <1>1, <2>2 DEF FinalIn
<1>3. ASSUME NEW x \in ALine PROVE FinalIn(<<x>> \o s, n)
  <2>1. /\ p + 1 \in 1..Len(<<x>> \o s) /\ (<<x>> \o s)[p + 1] = s[p]
    BY PutBefore
  <2>2. QED BY <1>1, <2>1 DEF FinalIn
<1>4. ASSUME NEW x \in ALine PROVE FinalIn(Append(s, x), n)
  <2>1. p \in 1..Len(Append(s, x)) /\ Append(s, x)[p] = s[p]
    BY SentAfter
  <2>2. QED BY <1>1, <2>1 DEF FinalIn
<1>5. QED BY <1>2, <1>3, <1>4

\* A final response that is sent comes.
LEMMA FinalSent ==
  ASSUME NEW s \in Seq(ALine), NEW x \in ALine, x.look \in FinalLooks
  PROVE  FinalIn(Append(s, x), x.for)
<1>1. Len(s) + 1 \in 1..Len(Append(s, x)) /\ Append(s, x)[Len(s) + 1] = x
  BY SentAfter
<1>2. QED BY <1>1 DEF FinalIn

\* A command thread writes only on an open channel, and leaves its descriptor alone.
LEMMA WritesWhenOpen ==
  ASSUME NEW c \in Commanders, Send(c)
  PROVE  /\ UNCHANGED <<s_fd, s_readerClosed>>
         /\ sp_response' = None \/ (s_fd /\ ~s_readerClosed)
<1>1. PICK e \in SendError : e # "ok" => sp_response' = None
  BY Zenon DEF Send
<1>2. e = "ok" => s_fd /\ ~s_readerClosed
  BY <1>1 DEF SendError
<1>3. UNCHANGED <<s_fd, s_readerClosed>>
  BY DEF Send
<1>4. QED BY <1>1, <1>2, <1>3

\* Every step keeps a reader where one is needed.
LEMMA ReaderThereStep ==
  ASSUME TypeInv, LinesInv, ReaderThere, [Next]_vars
  PROVE  ReaderThere'
<1>1. ASSUME NEW c \in Commanders, Commander(c), ~FollowsNull(c)
      PROVE  ReaderThere'
  <2>1. UNCHANGED <<mpc, s_closed, rpc, s_readerClosed>>
    BY <1>1, CommanderLeaves
  <2>2. s_fd' = s_fd
    BY <1>1 DEF Commander, Call, Send, TimesOut, SpuriousWake, GiveUp, WaitAgain, Complete, PauseEnds
  <2>3. \/ sp_response' = sp_response \/ sp_response' = None
        \/ s_fd /\ ~s_readerClosed /\ mpc \in {"opening", "wait"}
    <3>1. CASE Send(c)
      <4>1. mpc \in {"open", "opening", "wait", "crashed"}
        BY TypeParts DEF MainOK
      <4>2. s_fd => mpc \notin {"open", "crashed"}
        BY DEF ReaderThere
      <4>3. QED BY <3>1, <4>1, <4>2, WritesWhenOpen
    <3>2. CASE ~Send(c)
      BY <1>1, <3>2 DEF Commander, Call, TimesOut, SpuriousWake, GiveUp, WaitAgain, Complete, PauseEnds, pending
    <3>3. QED BY <3>1, <3>2
  <2>4. QED BY <2>1, <2>2, <2>3 DEF ReaderThere
<1>2. CASE ReadLine \/ SmsHandler \/ EndOfInput
  <2>1. /\ rpc \in Reading /\ rpc' \in Reading
        /\ UNCHANGED <<mpc, s_closed, s_fd, s_readerClosed, sp_response>>
    BY <1>2 DEF ReadLine, SmsHandler, EndOfInput, Reading, main, pending
  <2>2. QED BY <2>1 DEF ReaderThere, Reading
<1>3. CASE ProcessLine
  <2>1. /\ rpc \in Reading /\ rpc' \in Reading
        /\ UNCHANGED <<mpc, s_closed, s_fd, s_readerClosed>>
    BY <1>3 DEF ProcessLine, FinalResponse, Prompt, Intermediate, Unsolicited, Processed, Reading, main
  <2>2. QED BY <2>1 DEF ReaderThere, Reading
<1>4. CASE OnReaderClosed
  BY <1>4 DEF OnReaderClosed, CloseAndSignal, ReaderThere, Reading, main, pending
<1>5. CASE AtCloseFd
  BY <1>5 DEF AtCloseFd, ReaderThere, Reading, main, pending
<1>6. CASE AtClose
  BY <1>6 DEF AtClose, CloseAndSignal, ReaderThere, Reading, main, pending
<1>7. CASE ReportClosed
  BY <1>7 DEF ReportClosed, ReaderThere, Reading, pending
<1>8. CASE AtOpenFlags
  <2>1. /\ mpc = "open" /\ mpc' = "opening" /\ s_closed' = FALSE /\ rpc' = rpc
    BY <1>8 DEF AtOpenFlags, reader
  <2>2. rpc = "none"
    BY <2>1 DEF LinesInv, ReaderGone
  <2>3. QED BY <2>1, <2>2 DEF ReaderThere
<1>9. CASE AtOpenResponse
  <2>1. /\ mpc = "opening" /\ mpc' = "wait" /\ rpc' = "read" /\ UNCHANGED <<s_closed, s_fd>>
    BY <1>9 DEF AtOpenResponse
  <2>2. ~s_closed
    BY <2>1 DEF LinesInv, ReaderGone
  <2>3. QED BY <2>1, <2>2 DEF ReaderThere, Reading
<1>10. CASE MainWakes
  BY <1>10 DEF MainWakes, ReaderThere, reader, pending
<1>11. CASE Modem \/ UNCHANGED vars
  <2>1. UNCHANGED <<mpc, s_closed, s_fd, s_readerClosed, rpc, sp_response>>
    BY <1>11 DEF Modem, ModemIntermediate, ModemPrompt, ModemFinal, ModemUnsolicited, HangUp,
      vars, reader, main, pending
  <2>2. QED BY <2>1 DEF ReaderThere
<1>12. ASSUME NEW c \in Commanders, FollowsNull(c)
       PROVE  ReaderThere'
  BY <1>12 DEF FollowsNull, ReaderThere, pending
<1>13. QED
  BY <1>1, <1>2, <1>3, <1>4, <1>5, <1>6, <1>7, <1>8, <1>9, <1>10, <1>11, <1>12 DEF Next, Reader, Main

\* With one command thread, a signal leaves nobody asleep.
LEMMA SignalWakes ==
  ASSUME SoleCommander, pc \in [Commanders -> Places], Signal
  PROVE  \A c \in Commanders : pc'[c] # "wait"
<1>1. CASE {c \in Commanders : pc[c] = "wait"} = {}
  BY <1>1 DEF Signal
<1>2. CASE \E c \in {d \in Commanders : pc[d] = "wait"} : pc' = [pc EXCEPT ![c] = "woken"]
  <2>1. PICK c \in Commanders : pc' = [pc EXCEPT ![c] = "woken"]
    BY <1>2
  <2>2. \A d \in Commanders : d = c
    BY DEF SoleCommander
  <2>3. QED BY <2>1, <2>2
<1>3. QED BY <1>1, <1>2 DEF Signal

\* A step that wakes everybody, or puts nobody to sleep and changes neither the final
\* response nor the flag of the close.
LEMMA AsleepStays ==
  ASSUME Asleep,
         \A c \in Commanders \ undercut' : pc'[c] = "wait" =>
           /\ pc[c] = "wait" /\ c \notin undercut
           /\ sp_response # None => sp_response' # None /\ sp_response'.final = sp_response.final
           /\ s_readerClosed' = s_readerClosed
  PROVE  Asleep'
BY DEF Asleep

\* A thread goes to sleep only on what is not there yet, and is woken when it comes.
LEMMA AsleepStep ==
  ASSUME SoleCommander, TypeInv, OwnInv, Asleep, [Next]_vars
  PROVE  Asleep'
<1> USE TypeParts
<1>0. /\ pc \in [Commanders -> Places] /\ (sp_response # None => sp_response \in Response)
      /\ TypeInv'
  BY TypeStep DEF CommanderOK, ShareOK
<1>1. ASSUME NEW c \in Commanders,
             (\E k \in Kinds : Call(c, k)) \/ TimesOut(c) \/ SpuriousWake(c) \/ PauseEnds(c)
      PROVE  Asleep'
  <2>1. /\ UNCHANGED <<sp_response, s_readerClosed, undercut>>
        /\ \E p \in {"lock", "timedout", "woken", "idle"} : pc' = [pc EXCEPT ![c] = p]
    BY <1>1 DEF Call, TimesOut, SpuriousWake, PauseEnds, pending, history
  <2>2. \A d \in Commanders : pc'[d] = "wait" => pc[d] = "wait"
    BY <1>0, <2>1
  <2>3. QED BY <2>1, <2>2, AsleepStays
<1>2. ASSUME NEW c \in Commanders, Send(c)
      PROVE  Asleep'
  <2>1. \A d \in Commanders : d = c
    BY DEF SoleCommander
  <2>2. pc[c] \notin {"idle", "crashed"} /\ op' = op
    BY <1>2 DEF Send
  <2>3. PICK e \in SendError :
          IF e = "ok"
          THEN /\ sp_response' = [owner |-> c, cmd |-> written', kind |-> op[c],
                                  final |-> None, lines |-> <<>>]
               /\ pc' = [pc EXCEPT ![c] = "wait"]
          ELSE sp_response' = None /\ AttemptEnds(c, e)
    BY <1>2, Zenon DEF Send
  <2>4. CASE e = "ok"
    <3>1. ~s_readerClosed /\ s_readerClosed' = s_readerClosed
      BY <1>2, <2>4, <2>3 DEF SendError, Send
    <3>2. sp_response'.final = None /\ pc'[c] = "wait"
      BY <1>0, <2>3, <2>4
    <3>3. OwnInv' /\ c \notin undercut'
      <4>1. undercut' = undercut /\ pc[c] \notin Waiting \cup {"crashed"}
        BY <1>2 DEF Send, Waiting
      <4>2. QED BY <4>1, OwnStep DEF OwnInv, CaughtWaiting
    <3>4. sp_response' # None
      BY <3>2, <3>3 DEF OwnInv, ResponseOwned, Waiting
    <3>5. QED BY <3>1, <3>2, <3>4 DEF Asleep
  <2>5. CASE e # "ok"
    <3>1. pc'[c] \in {"idle", "pause", "retry"}
      BY <2>2, <2>3, <2>5, AttemptEndsFacts
    <3>2. QED BY <2>1, <3>1 DEF Asleep
  <2>6. QED BY <2>4, <2>5
<1>3. ASSUME NEW c \in Commanders, WaitAgain(c)
      PROVE  Asleep'
  <2>1. /\ sp_response # None /\ sp_response.final = None /\ ~s_readerClosed
        /\ UNCHANGED <<sp_response, s_readerClosed>>
    BY <1>3 DEF WaitAgain, pending
  <2>2. QED BY <2>1 DEF Asleep
<1>4. ASSUME NEW c \in Commanders, GiveUp(c) \/ Complete(c)
      PROVE  Asleep'
  <2>1. \A d \in Commanders : d = c
    BY DEF SoleCommander
  <2>2. pc[c] \notin {"idle", "crashed"} /\ op' = op
    BY <1>4 DEF GiveUp, Complete
  <2>3. \E e : AttemptEnds(c, e)
    <3>1. CASE GiveUp(c)
      <4>1. AttemptEnds(c, "TIMEOUT")
        BY <3>1, Zenon DEF GiveUp
      <4>2. QED BY <4>1
    <3>2. CASE Complete(c)
      <4>1. AttemptEnds(c, ReturnError(sp_response))
        BY <3>2, Zenon DEF Complete
      <4>2. QED BY <4>1
    <3>3. QED BY <1>4, <3>1, <3>2
  <2>4. pc'[c] \in {"idle", "pause", "retry"}
    BY <2>2, <2>3, AttemptEndsFacts
  <2>5. QED BY <2>1, <2>4 DEF Asleep
<1>5. CASE FinalResponse \/ OnReaderClosed \/ AtClose
  <2>1. Signal
    BY <1>5 DEF FinalResponse, OnReaderClosed, AtClose, CloseAndSignal
  <2>2. QED BY <1>0, <2>1, SignalWakes DEF Asleep
<1>6. CASE Intermediate
  <2>1. /\ UNCHANGED <<pc, s_readerClosed, undercut>> /\ sp_response # None
        /\ sp_response' = [sp_response EXCEPT !.lines = <<<<rline.for, rline.i>>>> \o sp_response.lines]
    BY <1>6 DEF Intermediate, Processed, history
  <2>2. sp_response'.final = sp_response.final
    BY <1>0, <2>1 DEF Response
  <2>3. \A c \in Commanders \ undercut' : pc'[c] = "wait" => sp_response' # None
    <3>1. OwnInv'
      BY OwnStep
    <3>2. QED BY <3>1 DEF OwnInv, ResponseOwned, Waiting
  <2>4. QED BY <2>1, <2>2, <2>3, AsleepStays
<1>7. CASE AtOpenFlags \/ AtOpenResponse
  <2>1. pc' = pc /\ undercut' = undercut \cup {c \in Commanders : pc[c] \in Waiting}
    BY <1>7 DEF AtOpenFlags, AtOpenResponse, Undercut, commander
  <2>2. QED BY <2>1 DEF Asleep, Waiting
<1>8. CASE ReadLine \/ SmsHandler \/ Prompt \/ Unsolicited \/ EndOfInput \/ AtCloseFd \/ ReportClosed
           \/ MainWakes \/ Modem \/ UNCHANGED vars
  <2>1. UNCHANGED <<pc, sp_response, s_readerClosed, undercut>>
    BY <1>8 DEF ReadLine, SmsHandler, Prompt, Unsolicited, Processed, EndOfInput, AtCloseFd, ReportClosed,
      MainWakes, Modem, ModemIntermediate, ModemPrompt, ModemFinal, ModemUnsolicited, HangUp, vars,
      pending, commander, history
  <2>2. QED BY <2>1, AsleepStays
<1>9. ASSUME NEW c \in Commanders, FollowsNull(c)
      PROVE  Asleep'
  BY <1>9 DEF FollowsNull, Asleep
<1>10. QED
  BY <1>1, <1>2, <1>3, <1>4, <1>5, <1>6, <1>7, <1>8, <1>9 DEF Next, Commander, Reader, ProcessLine, Main

\* A step that changes neither the lines, nor the pending command, nor what is asked
\* unless the modem hangs up.
LEMMA AwaitedStays ==
  ASSUME Awaited, Coming' = Coming, hungup' \/ (todo' = todo /\ hungup' = hungup),
         eaten \subseteq eaten',
         \/ sp_response' = None
         \/ sp_response' = sp_response /\ (undercut' = {} => undercut = {})
  PROVE  Awaited'
BY DEF Awaited, AnswerComes, AnswerEaten

\* A step of the reader, or a word of the modem, that loses no final response unless it is
\* eaten.
LEMMA AwaitedLines ==
  ASSUME Awaited, UNCHANGED <<todo, hungup, undercut>>, eaten \subseteq eaten',
         sp_response' # None /\ sp_response'.final = None =>
           /\ sp_response # None /\ sp_response.final = None /\ sp_response'.cmd = sp_response.cmd
           /\ FinalIn(Coming, sp_response.cmd) =>
                FinalIn(Coming', sp_response.cmd) \/ AnswerEaten(sp_response.cmd)'
  PROVE  Awaited'
<1> SUFFICES ASSUME undercut' = {}, sp_response' # None, sp_response'.final = None
             PROVE  AnswerComes' \/ AnswerEaten(sp_response.cmd)'
  BY DEF Awaited
<1>1. AnswerComes \/ AnswerEaten(sp_response.cmd)
  BY DEF Awaited
<1>2. AnswerEaten(sp_response.cmd) => AnswerEaten(sp_response.cmd)'
  BY DEF AnswerEaten
<1>3. QED BY <1>1, <1>2 DEF AnswerComes

\* The command that is pending has a number, which is not 0.
LEMMA PendingNumber ==
  ASSUME TypeInv, sp_response # None
  PROVE  sp_response \in Response /\ sp_response.cmd \in Commands /\ sp_response.cmd # 0
<1>1. sp_response \in Response /\ sp_response.cmd \in Commands
  BY TypeParts DEF ShareOK, Response
<1>2. MaxCalls * HANDSHAKE_RETRY_COUNT \in Int
  BY BoundsFacts
<1>3. QED BY <1>1, <1>2 DEF Commands

\* A command is written: the modem has it to answer, or has hung up.
LEMMA AwaitedSend ==
  ASSUME TypeInv, Awaited, NEW c \in Commanders, Send(c)
  PROVE  Awaited'
<1>1. Coming' = Coming /\ hungup' = hungup
  BY DEF Send, Coming, reader
<1>2. CASE sp_response' = None
  BY <1>2 DEF Awaited
<1>3. CASE hungup
  BY <1>1, <1>3 DEF Awaited, AnswerComes
<1>4. CASE /\ sp_response' = [owner |-> c, cmd |-> written + 1, kind |-> op[c],
                              final |-> None, lines |-> <<>>]
           /\ todo' = Append(todo, [cmd |-> written + 1, kind |-> op[c]])
  <2>1. Len(todo) + 1 \in 1..Len(todo') /\ todo'[Len(todo) + 1].cmd = written + 1
    BY <1>4, TypeParts DEF ModemOK
  <2>2. sp_response'.cmd = written + 1
    BY <1>4
  <2>3. QED BY <2>1, <2>2 DEF Awaited, AnswerComes
<1>5. QED BY <1>2, <1>3, <1>4, SendFacts

\* A line that is read is lost to the pending command only if it is eaten.
LEMMA AwaitedRead ==
  ASSUME TypeInv, LinesInv, Awaited, ReadLine
  PROVE  Awaited'
<1>1. /\ rpc \in {"read", "sms"} /\ wire # <<>>
      /\ UNCHANGED <<sp_response, todo, hungup, undercut>>
      /\ rpc' = CASE rpc = "sms" -> "handler"
                  [] rpc = "read" -> IF rline'.look = "sms" THEN "sms" ELSE "process"
      /\ \/ partial = None /\ rline' = Head(wire) /\ wire' = Tail(wire)
         \/ partial # None /\ rline' = Line(partial, 0, 0) /\ wire' \in {wire, Tail(wire)}
  BY DEF ReadLine, pending
<1>2. /\ wire' = Tail(wire) /\ (rpc = "sms" \/ partial # None) => TakesIn(Head(wire))
      /\ eaten \subseteq eaten'
  <2>1. IF wire' = Tail(wire) /\ (rpc = "sms" \/ partial # None)
        THEN TakesIn(Head(wire)) ELSE UNCHANGED eaten
    BY Zenon DEF ReadLine
  <2>2. TakesIn(Head(wire)) => eaten \subseteq eaten'
    BY DEF TakesIn
  <2>3. QED BY <2>1, <2>2
<1>3. Coming = wire /\ wire \in Seq(ALine) /\ wire[1] = Head(wire) /\ wire' \in Seq(ALine)
  BY <1>1, ComingFacts, TailLines
<1> DEFINE n == sp_response.cmd
<1> SUFFICES ASSUME sp_response # None, FinalIn(Coming, n)
             PROVE  FinalIn(Coming', n) \/ AnswerEaten(n)'
  BY <1>1, <1>2, AwaitedLines
<1>4. n # 0
  BY PendingNumber
<1>5. n' = n
  BY <1>1
<1> HIDE DEF n
<1>6. TakesIn(Head(wire)) /\ wire' = Tail(wire) => FinalIn(wire', n) \/ AnswerEaten(n)'
  <2>1. CASE ~(wire[1].look \in FinalLooks /\ wire[1].for = n)
    BY <1>1, <1>3, <2>1, FinalStays
  <2>2. ASSUME wire[1].look \in FinalLooks, wire[1].for = n, TakesIn(Head(wire))
        PROVE  AnswerEaten(n)'
    <3>1. wire[1] \in eaten'
      BY <1>3, <1>4, <2>2 DEF TakesIn
    <3>2. QED BY <1>5, <2>2, <3>1 DEF AnswerEaten
  <2>3. QED BY <2>1, <2>2
<1>7. CASE partial = None /\ rpc = "read" /\ Head(wire).look # "sms"
  <2>1. rpc' = "process" /\ rline' = wire[1] /\ wire' = Tail(wire)
    BY <1>1, <1>3, <1>7
  <2>2. Coming' = wire
    BY <1>1, <1>3, <2>1, HeadAndTail DEF Coming
  <2>3. QED BY <1>3, <2>2
<1>8. CASE partial = None /\ rpc = "read" /\ Head(wire).look = "sms"
  <2>1. Coming' = Tail(wire)
    BY <1>1, <1>8 DEF Coming
  <2>2. ~(wire[1].look \in FinalLooks /\ wire[1].for = n)
    BY <1>3, <1>8 DEF FinalLooks
  <2>3. QED BY <1>1, <1>3, <2>1, <2>2, FinalStays
<1>9. CASE partial = None /\ rpc = "sms"
  <2>1. Coming' = wire' /\ wire' = Tail(wire)
    BY <1>1, <1>9 DEF Coming
  <2>2. QED BY <1>2, <1>6, <1>9, <2>1
<1>10. CASE partial # None
  <2>1. rpc = "read" /\ rline' = Line(partial, 0, 0) /\ partial \in CutLooks
    BY <1>1, <1>10, TypeParts DEF LinesInv, CutShort, ReaderOK
  <2>2. FinalIn(wire', n) \/ AnswerEaten(n)'
    BY <1>1, <1>2, <1>3, <1>6, <1>10
  <2>3. rline' \in ALine
    BY <2>1 DEF Line, ALine, Looks, CutLooks
  <2>4. Coming' = wire' \/ Coming' = <<rline'>> \o wire'
    BY DEF Coming
  <2>5. FinalIn(wire', n) => FinalIn(Coming', n)
    BY <1>3, <2>3, <2>4, FinalStays
  <2>6. QED BY <2>2, <2>5
<1>11. QED BY <1>1, <1>7, <1>8, <1>9, <1>10

\* A final response that is processed completes the pending command.
LEMMA AwaitedProcess ==
  ASSUME TypeInv, Awaited, ProcessLine
  PROVE  Awaited'
<1>1. /\ rpc = "process" /\ rpc' = "read" /\ UNCHANGED <<wire, todo, hungup, undercut, eaten>>
  BY DEF ProcessLine, FinalResponse, Prompt, Intermediate, Unsolicited, Processed, modem, history
<1>2. /\ Coming \in Seq(ALine) /\ Coming # <<>> /\ Coming[1] = rline /\ rline \in ALine
      /\ Coming' = Tail(Coming)
  BY <1>1, ComingFacts DEF Coming
<1>3. sp_response # None => sp_response \in Response
  BY PendingNumber
<1>4. CASE FinalResponse
  <2>1. sp_response # None /\ sp_response' = [sp_response EXCEPT !.final = rline]
    BY <1>4 DEF FinalResponse, Processed
  <2>2. sp_response'.final = rline
    BY <1>3, <2>1 DEF Response
  <2>3. rline # None
    BY <1>2, NoneAssumption
  <2>4. QED BY <2>2, <2>3 DEF Awaited
<1>5. CASE Prompt \/ Intermediate \/ Unsolicited
  <2>1. sp_response # None => rline.look \notin FinalLooks
    BY <1>5 DEF Prompt, Intermediate, Unsolicited, Processed, IsFinal, FinalLooks
  <2>2. sp_response # None => \A n : FinalIn(Coming, n) => FinalIn(Coming', n)
    BY <1>2, <2>1, FinalStays
  <2>3. /\ sp_response' # None => sp_response # None
        /\ sp_response # None =>
             sp_response'.final = sp_response.final /\ sp_response'.cmd = sp_response.cmd
    <3>1. CASE Prompt \/ Unsolicited
      BY <3>1 DEF Prompt, Unsolicited, pending
    <3>2. CASE Intermediate
      <4>1. /\ sp_response # None
            /\ sp_response' = [sp_response EXCEPT !.lines = <<<<rline.for, rline.i>>>> \o sp_response.lines]
        BY <3>2 DEF Intermediate, Processed
      <4>2. QED BY <1>3, <4>1 DEF Response
    <3>3. QED BY <1>5, <3>1, <3>2
  <2>4. QED BY <1>1, <2>2, <2>3, AwaitedLines
<1>6. QED BY <1>4, <1>5 DEF ProcessLine

\* What the modem says does not lose a final response, and its answer to the pending
\* command comes when it is asked no more.
LEMMA AwaitedModem ==
  ASSUME TypeInv, Awaited, Modem
  PROVE  Awaited'
<1> USE TypeParts
<1>1. UNCHANGED <<rpc, rline, sp_response, undercut, eaten>>
  BY DEF Modem, ModemIntermediate, ModemPrompt, ModemFinal, ModemUnsolicited, HangUp, reader,
    pending, history
<1>2. Coming \in Seq(ALine)
  BY ComingFacts
<1>3. CASE HangUp
  BY <1>1, <1>3 DEF HangUp, Awaited, AnswerComes
<1>4. CASE ModemIntermediate \/ ModemPrompt \/ ModemUnsolicited
  <2>1. UNCHANGED <<todo, hungup>>
    BY <1>4 DEF ModemIntermediate, ModemPrompt, ModemUnsolicited
  <2>2. ASSUME NEW x \in ALine, wire' = Append(wire, x)
        PROVE  Awaited'
    <3>1. Coming' = Append(Coming, x)
      BY <1>1, <2>2, ComingSent
    <3>2. QED BY <1>1, <1>2, <2>1, <2>2, <3>1, FinalStays, AwaitedLines
  <2>3. CASE ModemIntermediate
    <3>1. todo # <<>>
      BY <2>3 DEF ModemIntermediate, MayAnswer
    <3>2. Head(todo).cmd \in Commands /\ said' \in [Commands -> Nat]
      <4>1. Head(todo).cmd \in Commands /\ said \in [Commands -> Nat]
        BY <3>1, HeadOfTodo DEF ModemOK
      <4>2. said' = [said EXCEPT ![Head(todo).cmd] = said[Head(todo).cmd] + 1]
        BY <2>3 DEF ModemIntermediate
      <4>3. QED BY <4>1, <4>2
    <3>3. \E look \in {"pdu", "match"} :
            wire' = Append(wire, Line(look, Head(todo).cmd, said'[Head(todo).cmd]))
      BY <2>3 DEF ModemIntermediate, ModemSays
    <3>4. \A look \in {"pdu", "match"} : Line(look, Head(todo).cmd, said'[Head(todo).cmd]) \in ALine
      BY <3>2 DEF Line, ALine, Looks
    <3>5. QED BY <2>2, <3>3, <3>4
  <2>4. CASE ModemPrompt
    <3>1. todo # <<>> /\ wire' = Append(wire, Line("prompt", Head(todo).cmd, 0))
      BY <2>4 DEF ModemPrompt, MayAnswer, ModemSays
    <3>2. Line("prompt", Head(todo).cmd, 0) \in ALine
      BY <3>1, HeadOfTodo DEF Line, ALine, Looks
    <3>3. QED BY <2>2, <3>1, <3>2
  <2>5. CASE ModemUnsolicited
    <3>0. \A look \in {"unsol", "sms", "pdu"} \cup AnswerLooks : Line(look, 0, 0) \in ALine
      BY DEF Line, ALine, Looks, AnswerLooks, FinalLooks
    <3>1. CASE \E look \in {"unsol"} \cup AnswerLooks : wire' = Append(wire, Line(look, 0, 0))
      BY <2>2, <3>0, <3>1
    <3>2. CASE wire' = wire \o <<Line("sms", 0, 0), Line("pdu", 0, 0)>>
      <4>1. \E x, y \in ALine : Coming' = Append(Append(Coming, x), y)
        BY <1>1, <3>0, <3>2, TwoSent
      <4>2. PICK x \in ALine, y \in ALine : Coming' = Append(Append(Coming, x), y)
        BY <4>1
      <4>3. Append(Coming, x) \in Seq(ALine)
        BY <1>2, SentAfter
      <4>4. \A n : FinalIn(Coming, n) => FinalIn(Coming', n)
        <5>1. \A n : FinalIn(Coming, n) => FinalIn(Append(Coming, x), n)
          BY <1>2, FinalStays
        <5>2. \A n : FinalIn(Append(Coming, x), n) => FinalIn(Append(Append(Coming, x), y), n)
          BY <4>3, FinalStays
        <5>3. QED BY <4>2, <5>1, <5>2
      <4>5. QED BY <1>1, <2>1, <4>4, AwaitedLines
    <3>3. QED BY <2>5, <3>1, <3>2, Zenon DEF ModemUnsolicited, ModemSays
  <2>6. QED BY <1>4, <2>3, <2>4, <2>5
<1>5. CASE ModemFinal
  <2>1. todo # <<>> /\ todo' = Tail(todo) /\ hungup' = hungup
    BY <1>5 DEF ModemFinal, MayAnswer
  <2>2. PICK look \in FinalLooks : wire' = Append(wire, Line(look, Head(todo).cmd, 0))
    BY <1>5 DEF ModemFinal, ModemSays
  <2> DEFINE x == Line(look, Head(todo).cmd, 0)
  <2>3. x \in ALine /\ x.look \in FinalLooks /\ x.for = todo[1].cmd
    BY <2>1, HeadOfTodo DEF Line, ALine, Looks, FinalLooks
  <2>4. wire' = Append(wire, x)
    BY <2>2
  <2> HIDE DEF x
  <2>5. Coming' = Append(Coming, x)
    BY <1>1, <2>3, <2>4, ComingSent
  <2> SUFFICES ASSUME sp_response # None, sp_response.final = None, AnswerComes
               PROVE  AnswerComes'
    BY <1>1 DEF Awaited, AnswerEaten
  <2>6. CASE hungup
    BY <2>1, <2>6 DEF AnswerComes
  <2>7. CASE FinalIn(Coming, sp_response.cmd)
    BY <1>1, <1>2, <2>3, <2>5, <2>7, FinalStays DEF AnswerComes
  <2>8. ASSUME NEW p \in 1..Len(todo), todo[p].cmd = sp_response.cmd
        PROVE  AnswerComes'
    <3>1. CASE p = 1
      <4>1. FinalIn(Coming', x.for)
        BY <1>2, <2>3, <2>5, FinalSent
      <4>2. QED BY <1>1, <2>3, <2>8, <3>1, <4>1 DEF AnswerComes
    <3>2. CASE p # 1
      <4>1. p - 1 \in 1..Len(todo') /\ (p - 1) + 1 = p
        BY <2>1, <2>8, <3>2, HeadOfTodo
      <4>2. todo'[p - 1] = todo[p]
        BY <2>1, <4>1, HeadOfTodo
      <4>3. QED BY <1>1, <2>8, <4>1, <4>2 DEF AnswerComes
    <3>3. QED BY <3>1, <3>2
  <2>9. QED BY <2>6, <2>7, <2>8 DEF AnswerComes
<1>6. QED BY <1>3, <1>4, <1>5 DEF Modem

\* Every step keeps the end of the pending command to come.
LEMMA AwaitedStep ==
  ASSUME SoleCommander, TypeInv, OwnInv, LinesInv, Awaited, [Next]_vars
  PROVE  Awaited'
<1>1. ASSUME NEW c \in Commanders, Commander(c), ~FollowsNull(c)
      PROVE  Awaited'
  <2>1. CASE Send(c)
    BY <2>1, AwaitedSend
  <2>2. CASE GiveUp(c) \/ Complete(c)
    BY <2>2 DEF GiveUp, Complete, Awaited
  <2>3. CASE ~Send(c) /\ ~GiveUp(c) /\ ~Complete(c)
    <3>1. UNCHANGED <<sp_response, wire, rpc, rline, todo, hungup, undercut, eaten>>
      BY <1>1, <2>3 DEF Commander, Call, TimesOut, SpuriousWake, WaitAgain, PauseEnds,
        reader, modem, pending, history
    <3>2. QED BY <3>1, AwaitedStays DEF Coming
  <2>4. QED BY <2>1, <2>2, <2>3
<1>2. CASE ReadLine
  BY <1>2, AwaitedRead
<1>3. CASE ProcessLine
  BY <1>3, AwaitedProcess
<1>4. CASE SmsHandler \/ EndOfInput \/ OnReaderClosed \/ AtCloseFd \/ AtClose \/ ReportClosed
  <2>1. /\ rpc # "process" /\ rpc' # "process" /\ wire' = wire
        /\ UNCHANGED <<sp_response, todo, hungup, undercut, eaten>>
    BY <1>4 DEF SmsHandler, EndOfInput, OnReaderClosed, AtCloseFd, AtClose, ReportClosed,
      CloseAndSignal, pending, modem, history
  <2>2. QED BY <2>1, AwaitedStays DEF Coming
<1>5. CASE AtOpenFlags
  <2>1. /\ sp_response' = sp_response
        /\ undercut' = undercut \cup {c \in Commanders : pc[c] \in Waiting}
    BY <1>5 DEF AtOpenFlags, Undercut, pending
  <2>2. sp_response # None => sp_response.owner \in undercut'
    BY <2>1, TypeParts DEF OwnInv, ResponseOwned, ShareOK, Response
  <2>3. QED BY <2>1, <2>2 DEF Awaited
<1>6. CASE AtOpenResponse
  BY <1>6 DEF AtOpenResponse, Awaited
<1>7. CASE MainWakes \/ UNCHANGED vars
  BY <1>7, AwaitedStays DEF MainWakes, vars, reader, pending, modem, history, Coming
<1>8. CASE Modem
  BY <1>8, AwaitedModem
<1>9. ASSUME NEW c \in Commanders, FollowsNull(c)
      PROVE  Awaited'
  BY <1>9 DEF FollowsNull, Awaited, pending
<1>10. QED
  BY <1>1, <1>2, <1>3, <1>4, <1>5, <1>6, <1>7, <1>8, <1>9 DEF Next, Reader, Main

\* Nobody sleeps, and nothing is pending, at the start.
LEMMA WakeupInit == Init => WakeupInv
<1> SUFFICES ASSUME Init PROVE WakeupInv
  OBVIOUS
<1>1. /\ mpc = "open" /\ s_fd = FALSE /\ sp_response = None /\ rpc = "none" /\ s_closed = FALSE
      /\ \A c \in Commanders : pc[c] = "idle"
  BY DEF Init
<1>2. QED BY <1>1 DEF WakeupInv, ReaderThere, Asleep, Awaited

\* A sleeping command thread always has a reader that will wake it and something for
\* that reader to find (NeverForgotten), through timeouts, late answers, stray and cut
\* lines, hang-ups and reopenings, when one thread sends the commands, unless at_open ran
\* while it waited or the line that should wake it was eaten.
THEOREM NobodyForgotten ==
  ASSUME SoleCommander
  PROVE  Spec => []NeverForgotten
<1> DEFINE I == TypeInv /\ OwnInv /\ LinesInv /\ WakeupInv
<1>1. Init => I
  BY TypeInit, OwnInit, LinesInit, WakeupInit
<1>2. I /\ [Next]_vars => I'
  <2> SUFFICES ASSUME TypeInv, OwnInv, LinesInv, WakeupInv, [Next]_vars
               PROVE  TypeInv' /\ OwnInv' /\ LinesInv' /\ WakeupInv'
    OBVIOUS
  <2>1. TypeInv' /\ OwnInv' /\ LinesInv'
    BY TypeStep, OwnStep, LinesStep
  <2>2. ReaderThere' /\ Asleep' /\ Awaited'
    BY ReaderThereStep, AsleepStep, AwaitedStep DEF WakeupInv
  <2>3. QED BY <2>1, <2>2 DEF WakeupInv
<1>3. I => NeverForgotten
  <2> SUFFICES ASSUME TypeInv, ReaderThere, Asleep, Awaited PROVE NeverForgotten
    BY DEF WakeupInv
  <2>1. \A c \in Commanders \ undercut : undercut = {}
    BY TypeParts DEF SoleCommander, HistoryOK
  <2>2. QED BY <2>1 DEF ReaderThere, Asleep, Awaited, NeverForgotten
<1>4. QED BY <1>1, <1>2, <1>3, PTL DEF Spec
=============================================================================
