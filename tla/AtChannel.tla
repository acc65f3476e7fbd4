------------------------------ MODULE AtChannel ------------------------------
(***************************************************************************)
(* The AT command channel of the reference RIL: reference-ril/atchannel.c, *)
(* with the main loop of reference-ril.c that opens it, and reopens it     *)
(* after the modem has hung up.                                            *)
(*                                                                         *)
(* A command thread writes a command and waits on a condition variable;    *)
(* the reader thread takes the modem's lines and decides, from the pending *)
(* command alone, which of them belong to it and which are unsolicited.    *)
(* Nothing in a line names the command it answers, and an unsolicited line *)
(* may look like an answer ("WARNING: NO CARRIER and others are sometimes  *)
(* unsolicited").                                                          *)
(*                                                                         *)
(* A line is a record: what it looks like, the command the modem sent it   *)
(* for (0: none) and its number among that command's intermediate lines;   *)
(* the code sees only what it looks like.                                  *)
(***************************************************************************)
EXTENDS Naturals, Sequences, SequencesExt

CONSTANTS
  Commanders,             \* the threads that send commands
  Kinds,                  \* the kinds of command they send
  HANDSHAKE_RETRY_COUNT,
  MaxCalls,               \* bound: calls of the command threads
  MaxUnsol,               \* bound: unsolicited lines and lines cut short
  MaxLines,               \* bound: intermediate lines of one command
  MaxOpens,               \* bound: times the channel is opened
  None

\* HANDSHAKE stands for at_handshake; CMGR for a MULTILINE command with prefix
\* "+CMGR:"; SMS for at_send_command_sms (SINGLELINE with a PDU).
AllKinds == {"HANDSHAKE", "NO_RESULT", "NUMERIC", "SINGLELINE", "MULTILINE", "CMGR", "SMS"}

ASSUME KindsAssumption == Kinds \subseteq AllKinds /\ None \notin Commanders
ASSUME BoundsAssumption ==
  /\ HANDSHAKE_RETRY_COUNT \in Nat \ {0}
  /\ {MaxCalls, MaxUnsol, MaxLines, MaxOpens} \subseteq Nat

VARIABLES
  mutex,          \* holder of s_commandmutex: a commander or None
  sp_response,    \* the pending command, or None
  s_smsPDU,       \* a PDU waits for the prompt
  s_fd,           \* the channel is open
  s_readerClosed,
  rpc, rline,     \* the reader thread, and the line it is processing
  pc, op, tries,  \* each command thread: where, in which call, handshake attempts
  result,         \* what each thread's last call returned, until the next
  mpc, s_closed,  \* the main loop, and the flag it waits for
  wire,           \* lines on their way from the modem
  partial,        \* what the line cut short in s_ATBuffer looks like, or None
  todo,           \* commands the modem has to answer, oldest first
  prompted,       \* for an SMS at the head of todo: "no", "asked" or "got" the PDU
  hungup,         \* the modem has closed its end
  written,        \* history: commands written
  said,           \* history: said[n]: intermediate lines sent for command n
  unsol, opens,   \* history: counters behind MaxUnsol and MaxOpens
  late,           \* history: "none"; an answer nobody waits for may come ("late"); and a
                  \* handshake succeeded and paused until it had ("drained")
  strays,         \* history: what lines of this channel look like that answer nothing
  eaten,          \* history: lines of an answer that went into another line or for an SMS
  undercut,       \* history: threads that were waiting while at_open ran
  greets, calls   \* history: calls of at_handshake; counter behind MaxCalls

pending == <<sp_response, s_smsPDU>>
reader == <<rpc, rline, partial>>
commander == <<pc, op, tries, result>>
main == <<mpc, s_closed, opens>>
modem == <<wire, todo, prompted, hungup, said, unsol>>
history == <<written, late, strays, eaten, undercut, greets, calls>>
vars == <<mutex, pending, s_fd, s_readerClosed, reader, commander, main, modem, history>>

Commands == 1..(MaxCalls * HANDSHAKE_RETRY_COUNT)

Line(look, n, i) == [look |-> look, for |-> n, i |-> i]
NoResult ==
  [err |-> "none", kind |-> "none", cmd |-> 0, from |-> 0, lines |-> <<>>,
   late |-> "none", strays |-> {}, undercut |-> FALSE]

Waiting == {"wait", "woken", "timedout"}
FinalLooks == {"ok", "error"}
\* The looks by which a line may pass for part of an answer.
AnswerLooks == FinalLooks \cup {"match"}

Init ==
  /\ mutex = None
  /\ sp_response = None
  /\ s_smsPDU = FALSE
  /\ s_fd = FALSE
  /\ s_readerClosed = FALSE
  /\ rpc = "none"
  /\ rline = None
  /\ pc = [c \in Commanders |-> "idle"]
  /\ op = [c \in Commanders |-> "none"]
  /\ tries = [c \in Commanders |-> 0]
  /\ result = [c \in Commanders |-> NoResult]
  /\ mpc = "open"
  /\ s_closed = FALSE
  /\ wire = <<>>
  /\ partial = None
  /\ todo = <<>>
  /\ prompted = "no"
  /\ hungup = FALSE
  /\ written = 0
  /\ said = [n \in Commands |-> 0]
  /\ unsol = 0
  /\ opens = 0
  /\ late = "none"
  /\ strays = {}
  /\ eaten = {}
  /\ undercut = {}
  /\ greets = 0
  /\ calls = 0

-----------------------------------------------------------------------------
(* The command threads *)

\* pthread_cond_signal, in a step that leaves the other threads' pc alone.
Signal ==
  LET asleep == {c \in Commanders : pc[c] = "wait"}
  IN IF asleep = {} THEN pc' = pc ELSE \E c \in asleep : pc' = [pc EXCEPT ![c] = "woken"]

\* at_send_command_full or at_handshake up to its lock.  initializeCallback shakes hands
\* once for every at_open that has returned, if need be on a channel after that; requests
\* are refused before its first time.
Opened == IF mpc = "opening" THEN opens - 1 ELSE opens

Call(c, k) ==
  /\ pc[c] = "idle"
  /\ calls < MaxCalls
  /\ IF k = "HANDSHAKE" THEN greets < Opened /\ greets' = greets + 1
                        ELSE greets > 0 /\ UNCHANGED greets
  /\ calls' = calls + 1
  /\ pc' = [pc EXCEPT ![c] = "lock"]
  /\ op' = [op EXCEPT ![c] = k]
  /\ result' = [result EXCEPT ![c] = NoResult]
  /\ UNCHANGED <<mutex, pending, s_fd, s_readerClosed, reader, tries, main, modem,
                 written, late, strays, eaten, undercut>>

\* One attempt is over with error e ("ok": none).  at_handshake tries again
\* without releasing the mutex, and pauses, mutex in hand, once it succeeds.
AttemptEnds(c, e) ==
  IF op[c] # "HANDSHAKE"
  THEN pc' = [pc EXCEPT ![c] = "idle"] /\ mutex' = None /\ UNCHANGED tries
  ELSE IF e = "ok"
  THEN pc' = [pc EXCEPT ![c] = "pause"] /\ mutex' = c /\ tries' = [tries EXCEPT ![c] = 0]
  ELSE IF tries[c] + 1 < HANDSHAKE_RETRY_COUNT
  THEN pc' = [pc EXCEPT ![c] = "retry"] /\ mutex' = c /\ tries' = [tries EXCEPT ![c] = @ + 1]
  ELSE pc' = [pc EXCEPT ![c] = "idle"] /\ mutex' = None /\ tries' = [tries EXCEPT ![c] = 0]

Outcome(c, e) ==
  [NoResult EXCEPT !.err = e, !.kind = op[c], !.late = late, !.strays = strays,
                   !.undercut = c \in undercut]

Returns(c, e) == result' = [result EXCEPT ![c] = Outcome(c, e)]

\* at_send_command_full_nolock up to the wait: refused if a command is pending
\* or the channel is closed, or the write fails.  Every error path goes through
\* clearPendingCommand, whoever the pending command belongs to.
SendError ==
  CASE sp_response # None -> {"COMMAND_PENDING"}
    [] sp_response = None /\ (~s_fd \/ s_readerClosed) -> {"CHANNEL_CLOSED"}
    [] sp_response = None /\ s_fd /\ ~s_readerClosed -> IF hungup THEN {"GENERIC", "ok"} ELSE {"ok"}

Send(c) ==
  /\ pc[c] = "retry" \/ (pc[c] = "lock" /\ mutex = None)
  /\ \E e \in SendError :
       IF e = "ok"
       THEN /\ written + 1 \in Commands  \* a bound that MaxCalls keeps out of reach
            /\ written' = written + 1
            /\ todo' = IF hungup THEN todo ELSE Append(todo, [cmd |-> written', kind |-> op[c]])
            /\ sp_response' = [owner |-> c, cmd |-> written', kind |-> op[c],
                               final |-> None, lines |-> <<>>]
            /\ s_smsPDU' = (op[c] = "SMS")
            /\ pc' = [pc EXCEPT ![c] = "wait"]
            /\ mutex' = None
            /\ UNCHANGED <<tries, result>>
       ELSE /\ sp_response' = None
            /\ s_smsPDU' = FALSE
            /\ Returns(c, e)
            /\ AttemptEnds(c, e)
            /\ UNCHANGED <<written, todo>>
  /\ UNCHANGED <<s_fd, s_readerClosed, reader, op, main, wire, prompted, hungup, said, unsol,
                 late, strays, eaten, undercut, greets, calls>>

\* Only at_handshake gives a timeout; every at_send_command_* waits for ever.
TimesOut(c) ==
  /\ pc[c] = "wait"
  /\ op[c] = "HANDSHAKE"
  /\ pc' = [pc EXCEPT ![c] = "timedout"]
  /\ UNCHANGED <<mutex, pending, s_fd, s_readerClosed, reader, op, tries, result, main, modem, history>>

SpuriousWake(c) ==
  /\ pc[c] = "wait"
  /\ pc' = [pc EXCEPT ![c] = "woken"]
  /\ UNCHANGED <<mutex, pending, s_fd, s_readerClosed, reader, op, tries, result, main, modem, history>>

\* ETIMEDOUT: the attempt is given up, whatever has arrived meanwhile.
GiveUp(c) ==
  /\ pc[c] = "timedout"
  /\ mutex = None
  /\ sp_response' = None
  /\ s_smsPDU' = FALSE
  /\ late' = "late"
  /\ undercut' = undercut \ {c}
  /\ Returns(c, "TIMEOUT")
  /\ AttemptEnds(c, "TIMEOUT")
  /\ UNCHANGED <<s_fd, s_readerClosed, reader, op, main, modem, written, strays, eaten,
                 greets, calls>>

\* Bug to look for: the loop does not look at s_readerClosed.
WaitUnlessAnswered(c) ==
  /\ pc[c] = "woken"
  /\ mutex = None
  /\ sp_response # None
  /\ sp_response.final = None
  /\ pc' = [pc EXCEPT ![c] = "wait"]
  /\ UNCHANGED <<mutex, pending, s_fd, s_readerClosed, reader, op, tries, result, main, modem, history>>

\* The while loop of at_send_command_full_nolock goes on.
WaitAgain(c) ==
  /\ pc[c] = "woken"
  /\ mutex = None
  /\ sp_response # None
  /\ sp_response.final = None /\ ~s_readerClosed
  /\ pc' = [pc EXCEPT ![c] = "wait"]
  /\ UNCHANGED <<mutex, pending, s_fd, s_readerClosed, reader, op, tries, result, main, modem, history>>

\* Bug to look for: the lines are handed over newest first.
NewestFirst(lines) == lines

\* reverseIntermediates: addIntermediate has put the newest line first.
InOrder(lines) == Reverse(lines)

\* The wrappers of the single-line kinds insist on an intermediate line.
ReturnError(r) ==
  IF s_readerClosed THEN "CHANNEL_CLOSED"
  ELSE IF r.kind \in {"NUMERIC", "SINGLELINE", "SMS"} /\ r.final.look = "ok" /\ r.lines = <<>>
  THEN "INVALID_RESPONSE"
  ELSE "ok"

\* The loop follows sp_response, which at_open has set to NULL: rild is gone, and with it
\* its end of the channel.
FollowsNull(c) ==
  /\ pc[c] = "woken"
  /\ mutex = None
  /\ sp_response = None
  /\ pc' = [d \in Commanders |-> "crashed"]
  /\ rpc' = "crashed"
  /\ rline' = None
  /\ mpc' = "crashed"
  /\ s_fd' = FALSE
  /\ hungup' = TRUE
  /\ wire' = <<>>
  /\ todo' = <<>>
  /\ UNCHANGED <<mutex, pending, s_readerClosed, partial, op, tries, result, s_closed,
                 opens, prompted, said, unsol, history>>

\* The loop ends and the command returns its response.
Complete(c) ==
  /\ pc[c] = "woken"
  /\ mutex = None
  /\ sp_response # None
  /\ sp_response.final # None \/ s_readerClosed
  /\ LET e == ReturnError(sp_response)
     IN /\ result' = [result EXCEPT ![c] =
                        [Outcome(c, e) EXCEPT
                           !.cmd = sp_response.cmd,
                           !.from = IF sp_response.final = None THEN 0 ELSE sp_response.final.for,
                           !.lines = InOrder(sp_response.lines)]]
        /\ AttemptEnds(c, e)
  /\ sp_response' = None
  /\ s_smsPDU' = FALSE
  /\ undercut' = undercut \ {c}
  /\ UNCHANGED <<s_fd, s_readerClosed, reader, op, main, modem, written, late, strays, eaten,
                 greets, calls>>

\* The end of the 250 ms pause of at_handshake: if the modem has answered the
\* attempts that timed out by now, their answers should be out of the way.
PauseEnds(c) ==
  /\ pc[c] = "pause"
  /\ pc' = [pc EXCEPT ![c] = "idle"]
  /\ mutex' = None
  /\ late' = IF late = "late" /\ todo = <<>> THEN "drained" ELSE late
  /\ UNCHANGED <<pending, s_fd, s_readerClosed, reader, op, tries, result, main, modem,
                 written, strays, eaten, undercut, greets, calls>>

-----------------------------------------------------------------------------
(* The reader thread *)

\* readline.  A line cut short on the previous channel is still in the buffer, and ends
\* where the first line of this one begins, with CR LF, or takes that line in if it has none.
TakesIn(line) == eaten' = IF line.for = 0 THEN eaten ELSE eaten \cup {line}

ReadLine ==
  /\ rpc \in {"read", "sms"}
  /\ wire # <<>>
  /\ \/ partial = None /\ rline' = Head(wire) /\ wire' = Tail(wire)
     \/ partial # None /\ rline' = Line(partial, 0, 0) /\ wire' \in {wire, Tail(wire)}
  /\ IF wire' = Tail(wire) /\ (rpc = "sms" \/ partial # None)
     THEN TakesIn(Head(wire)) ELSE UNCHANGED eaten
  /\ partial' = None
  /\ rpc' = CASE rpc = "sms" -> "handler"
              [] rpc = "read" -> IF rline'.look = "sms" THEN "sms" ELSE "process"
  /\ UNCHANGED <<mutex, pending, s_fd, s_readerClosed, commander, main, todo, prompted,
                 hungup, said, unsol, written, late, strays, undercut, greets, calls>>

\* The second line of an SMS goes to the handler with the first, no mutex taken.
SmsHandler ==
  /\ rpc = "handler"
  /\ rpc' = "read"
  /\ rline' = None
  /\ UNCHANGED <<mutex, pending, s_fd, s_readerClosed, partial, commander, main, modem, history>>

IsFinal == rline.look \in FinalLooks
Wanted ==
  CASE sp_response.kind \in {"HANDSHAKE", "NO_RESULT"} -> FALSE
    [] sp_response.kind \in {"NUMERIC", "SINGLELINE", "SMS"} ->
         rline.look = "match" /\ sp_response.lines = <<>>
    [] sp_response.kind = "MULTILINE" -> rline.look = "match"
    [] sp_response.kind = "CMGR" -> rline.look = "match" \/ sp_response.lines # <<>>

Processed(guard) ==
  /\ rpc = "process"
  /\ mutex = None
  /\ guard
  /\ rpc' = "read"
  /\ rline' = None
  /\ UNCHANGED <<mutex, s_fd, s_readerClosed, partial, op, tries, result, main, history>>

\* processLine: a final response completes the pending command ...
FinalResponse ==
  /\ Processed(sp_response # None /\ IsFinal)
  /\ sp_response' = [sp_response EXCEPT !.final = rline]
  /\ Signal
  /\ UNCHANGED <<s_smsPDU, modem>>

\* ... the prompt is answered with the PDU and ^Z ...
Prompt ==
  /\ Processed(sp_response # None /\ s_smsPDU /\ rline.look = "prompt")
  /\ s_smsPDU' = FALSE
  /\ prompted' = IF s_fd /\ ~s_readerClosed /\ prompted = "asked" THEN "got" ELSE prompted
  /\ UNCHANGED <<sp_response, pc, wire, todo, hungup, said, unsol>>

\* ... an intermediate response is put at the head of its list ...
Intermediate ==
  /\ Processed(sp_response # None /\ ~IsFinal /\ ~(s_smsPDU /\ rline.look = "prompt") /\ Wanted)
  /\ sp_response' = [sp_response EXCEPT !.lines = <<<<rline.for, rline.i>>>> \o @]
  /\ UNCHANGED <<s_smsPDU, pc, modem>>

\* ... and the rest goes to the handler of unsolicited responses.
Unsolicited ==
  /\ Processed(sp_response # None =>
                 ~IsFinal /\ ~(s_smsPDU /\ rline.look = "prompt") /\ ~Wanted)
  /\ UNCHANGED <<pending, pc, modem>>

\* End of input, perhaps in the middle of a line: what was cut short, which may pass for
\* any line but the prompt, stays in the buffer.
CutLooks == {"unsol", "ok", "error", "match", "sms"}
EndOfInput ==
  /\ rpc \in {"read", "sms"}
  /\ wire = <<>> /\ hungup
  /\ rpc' = "eof"
  /\ rline' = None
  /\ \/ UNCHANGED <<partial, unsol>>
     \/ partial = None /\ partial' \in CutLooks /\ unsol < MaxUnsol /\ unsol' = unsol + 1
  /\ UNCHANGED <<mutex, pending, s_fd, s_readerClosed, commander, main, wire, todo, prompted,
                 hungup, said, history>>

\* Bug to look for: the flag is set and the sleeping command is not told.
CloseWithoutSignal ==
  /\ mutex = None
  /\ s_readerClosed' = TRUE
  /\ UNCHANGED <<pending, pc>>

\* Bug to look for: closing drops the pending command.
CloseAndClear ==
  /\ mutex = None
  /\ s_readerClosed' = TRUE
  /\ sp_response' = None
  /\ s_smsPDU' = FALSE
  /\ Signal

\* Both onReaderClosed and at_close do this under the mutex.
CloseAndSignal ==
  /\ mutex = None
  /\ s_readerClosed' = TRUE
  /\ UNCHANGED pending
  /\ Signal

\* onReaderClosed, up to its call of s_onReaderClosed.
OnReaderClosed ==
  /\ rpc = "eof"
  /\ ~s_readerClosed
  /\ CloseAndSignal
  /\ rpc' = "close"
  /\ UNCHANGED <<mutex, s_fd, rline, partial, op, tries, result, main, modem, history>>

\* onATReaderClosed calls at_close, which closes the descriptor before it locks.
AtCloseFd ==
  /\ rpc = "close"
  /\ s_fd' = FALSE
  /\ rpc' = "closed"
  /\ UNCHANGED <<mutex, pending, s_readerClosed, rline, partial, commander, main, modem, history>>

AtClose ==
  /\ rpc = "closed"
  /\ CloseAndSignal
  /\ rpc' = "report"
  /\ UNCHANGED <<mutex, s_fd, rline, partial, op, tries, result, main, modem, history>>

\* Bug to look for: the main loop is not told.
ReportNothing ==
  /\ rpc = "report"
  /\ rpc' = "none"
  /\ UNCHANGED <<mutex, pending, s_fd, s_readerClosed, rline, partial, commander, main,
                 modem, history>>

\* onATReaderClosed sets s_closed, and setRadioState wakes the main loop; the
\* reader thread ends.
ReportClosed ==
  /\ rpc = "report"
  /\ rpc' = "none"
  /\ s_closed' = TRUE
  /\ UNCHANGED <<mutex, pending, s_fd, s_readerClosed, rline, partial, commander, mpc, opens,
                 modem, history>>

-----------------------------------------------------------------------------
(* The main loop *)

\* mainLoop has opened the device; at_open sets its variables without the mutex,
\* in two steps here, whatever command is still under way ...
Undercut == undercut' = undercut \cup {c \in Commanders : pc[c] \in Waiting}

AtOpenFlags ==
  /\ mpc = "open"
  /\ opens < MaxOpens
  /\ mpc' = "opening"
  /\ opens' = opens + 1
  /\ s_closed' = FALSE
  /\ s_fd' = TRUE
  /\ s_readerClosed' = FALSE
  /\ wire' = <<>>
  /\ todo' = <<>>
  /\ prompted' = "no"
  /\ hungup' = FALSE
  /\ late' = "none"
  /\ strays' = {partial} \cap AnswerLooks
  /\ Undercut
  /\ UNCHANGED <<mutex, pending, reader, commander, said, unsol, written, eaten, greets, calls>>

\* ... and starts the reader thread.
AtOpenResponse ==
  /\ mpc = "opening"
  /\ mpc' = "wait"
  /\ sp_response' = None
  /\ s_smsPDU' = FALSE
  /\ rpc' = "read"
  /\ Undercut
  /\ UNCHANGED <<mutex, s_fd, s_readerClosed, rline, partial, commander, s_closed, opens,
                 modem, written, late, strays, eaten, greets, calls>>

\* waitForClose returns.
MainWakes ==
  /\ mpc = "wait"
  /\ s_closed
  /\ mpc' = "open"
  /\ UNCHANGED <<mutex, pending, s_fd, s_readerClosed, reader, commander, s_closed, opens,
                 modem, history>>

-----------------------------------------------------------------------------
(* The modem: it answers each command in turn, and reports what it likes *)

ModemSays(line) == wire' = Append(wire, line)

MayAnswer(k) == todo # <<>> /\ Head(todo).kind \in k /\ ~hungup

\* Intermediate lines: one for the single-line kinds, some for the others; the
\* second line of CMGR is the message itself.
ModemIntermediate ==
  /\ MayAnswer({"NUMERIC", "SINGLELINE", "MULTILINE", "CMGR", "SMS"})
  /\ LET n == Head(todo).cmd
         k == Head(todo).kind
     IN /\ said[n] < CASE k = "MULTILINE" -> MaxLines
                       [] k = "CMGR" -> 2
                       [] k \in {"NUMERIC", "SINGLELINE", "SMS"} -> 1
        /\ k = "SMS" => prompted = "got"
        /\ said' = [said EXCEPT ![n] = @ + 1]
        /\ ModemSays(Line(IF k = "CMGR" /\ said[n] = 1 THEN "pdu" ELSE "match", n, said'[n]))
  /\ UNCHANGED <<mutex, pending, s_fd, s_readerClosed, reader, commander, main, todo,
                 prompted, hungup, unsol, history>>

ModemPrompt ==
  /\ MayAnswer({"SMS"})
  /\ prompted = "no"
  /\ prompted' = "asked"
  /\ ModemSays(Line("prompt", Head(todo).cmd, 0))
  /\ UNCHANGED <<mutex, pending, s_fd, s_readerClosed, reader, commander, main, todo,
                 hungup, said, unsol, history>>

ModemFinal ==
  /\ MayAnswer(AllKinds)
  /\ \E look \in FinalLooks :
       /\ Head(todo).kind = "SMS" /\ look = "ok" => prompted = "got"
       /\ ModemSays(Line(look, Head(todo).cmd, 0))
  /\ todo' = Tail(todo)
  /\ prompted' = "no"
  /\ UNCHANGED <<mutex, pending, s_fd, s_readerClosed, reader, commander, main, hungup,
                 said, unsol, history>>

\* An unsolicited line, which may look like an answer ("NO CARRIER", "+CREG:"), or a
\* two-line SMS, between any two other lines.
ModemUnsolicited ==
  /\ s_fd /\ ~hungup
  /\ unsol < MaxUnsol
  /\ unsol' = unsol + 1
  /\ \/ \E look \in {"unsol"} \cup AnswerLooks :
          /\ ModemSays(Line(look, 0, 0))
          /\ strays' = strays \cup ({look} \cap AnswerLooks)
     \/ /\ wire' = wire \o <<Line("sms", 0, 0), Line("pdu", 0, 0)>>
        /\ UNCHANGED strays
  /\ UNCHANGED <<mutex, pending, s_fd, s_readerClosed, reader, commander, main, todo,
                 prompted, hungup, said, written, late, eaten, undercut, greets, calls>>

\* The modem closes its end.
HangUp ==
  /\ rpc \in {"read", "sms", "process", "handler"}
  /\ ~hungup
  /\ hungup' = TRUE
  /\ todo' = <<>>
  /\ prompted' = "no"
  /\ UNCHANGED <<mutex, pending, s_fd, s_readerClosed, reader, commander, main, wire,
                 said, unsol, history>>

-----------------------------------------------------------------------------
Commander(c) ==
  \/ \E k \in Kinds : Call(c, k)
  \/ Send(c) \/ TimesOut(c) \/ SpuriousWake(c) \/ GiveUp(c) \/ WaitAgain(c)
  \/ FollowsNull(c) \/ Complete(c) \/ PauseEnds(c)

ProcessLine == FinalResponse \/ Prompt \/ Intermediate \/ Unsolicited

Reader ==
  \/ ReadLine \/ SmsHandler \/ ProcessLine
  \/ EndOfInput \/ OnReaderClosed \/ AtCloseFd \/ AtClose \/ ReportClosed

Main == AtOpenFlags \/ AtOpenResponse \/ MainWakes

Modem ==
  ModemIntermediate \/ ModemPrompt \/ ModemFinal \/ ModemUnsolicited \/ HangUp

Next == (\E c \in Commanders : Commander(c)) \/ Reader \/ Main \/ Modem

Spec == Init /\ [][Next]_vars

\* The threads are scheduled, a timed wait ends, and the modem answers what it
\* is asked or hangs up: no at_send_command_* has a timeout of its own.
Fairness ==
  /\ \A c \in Commanders :
       /\ WF_vars(Send(c)) /\ WF_vars(TimesOut(c)) /\ WF_vars(GiveUp(c))
       /\ WF_vars(WaitAgain(c)) /\ WF_vars(FollowsNull(c)) /\ WF_vars(Complete(c))
       /\ WF_vars(PauseEnds(c))
  /\ WF_vars(Reader)
  /\ WF_vars(Main)
  /\ WF_vars(ModemFinal)

FairSpec == Spec /\ Fairness
-----------------------------------------------------------------------------
(* Properties *)

Places == {"idle", "lock", "wait", "woken", "timedout", "retry", "pause", "crashed"}
Looks == {"ok", "error", "match", "pdu", "prompt", "unsol", "sms"}
ALine == [look : Looks, for : {0} \cup Commands, i : Nat]
Response ==
  [owner : Commanders, cmd : Commands, kind : Kinds, final : {None} \cup ALine,
   lines : Seq(({0} \cup Commands) \X Nat)]

ASSUME NoneAssumption == None \notin Response /\ None \notin ALine

\* TypeOK bounds every variable; in particular a handshake makes at most
\* HANDSHAKE_RETRY_COUNT attempts (the for loop of at_handshake).
TypeOK ==
  /\ mutex \in {None} \cup Commanders
  /\ sp_response \in {None} \cup Response
  /\ s_smsPDU \in BOOLEAN /\ s_fd \in BOOLEAN /\ s_readerClosed \in BOOLEAN
  /\ rpc \in {"none", "read", "sms", "handler", "process", "eof", "close", "closed", "report",
              "crashed"}
  /\ rline \in {None} \cup ALine
  /\ pc \in [Commanders -> Places]
  /\ op \in [Commanders -> {"none"} \cup Kinds]
  /\ tries \in [Commanders -> 0..HANDSHAKE_RETRY_COUNT]
  /\ mpc \in {"open", "opening", "wait", "crashed"} /\ s_closed \in BOOLEAN
  /\ wire \in Seq(ALine)
  /\ partial \in {None} \cup CutLooks
  /\ todo \in Seq([cmd : Commands, kind : Kinds])
  /\ prompted \in {"no", "asked", "got"} /\ hungup \in BOOLEAN
  /\ written \in Nat
  /\ said \in [Commands -> Nat]
  /\ unsol \in 0..MaxUnsol /\ opens \in 0..MaxOpens /\ calls \in 0..MaxCalls
  /\ late \in {"none", "late", "drained"}
  /\ strays \subseteq AnswerLooks /\ eaten \subseteq ALine /\ undercut \subseteq Commanders
  /\ greets \in Nat

\* The pending response is there exactly as long as the thread that sent its
\* command sleeps in, or wakes from, pthread_cond_wait: the loop that follows
\* sp_response after the wait finds its own response, not a null pointer or
\* another thread's, unless at_open has run in between, which takes it away; and
\* no error path leaves one behind that would turn every later command into
\* AT_ERROR_COMMAND_PENDING.  A PDU waits for the prompt only on behalf of a
\* pending SMS.
ResponseOwned ==
  /\ \A c \in Commanders \ undercut :
       pc[c] \in Waiting => sp_response # None /\ sp_response.owner = c
  /\ sp_response # None => pc[sp_response.owner] \in Waiting
  /\ s_smsPDU => sp_response # None /\ sp_response.kind = "SMS"

\* Where lines holds what the modem sent for command n, and that it is all of it:
\* each of the lines once and in order.
OwnPlaces(lines, n) == {p \in DOMAIN lines : lines[p][1] = n}
AllOwnLines(lines, n) ==
  /\ {lines[p][2] : p \in OwnPlaces(lines, n)} = 1..said[n]
  /\ \A p, q \in OwnPlaces(lines, n) : p < q => lines[p][2] < lines[q][2]

\* A line of command n was eaten.
Eaten(n) == \E l \in eaten : l.for = n

\* A command that succeeds returns the final response the modem sent to that very
\* command and every intermediate line of it, once and in order, although processLine
\* sees only the looks of a line: the lines in between that answer nothing are filtered
\* out, the rest of a line that the channel before left in the buffer too, and of a
\* command of that channel nothing is left.  What the looks cannot tell apart is all that
\* is excepted: a stray line that looks like a final response, an answer that comes after a
\* timeout, or at_open under the command (nothing is promised); a stray line with the
\* prefix the command waits for (it is returned, and displaces the one line of a
\* single-line command); a line the leftover took in; and for AT+CMGR any line after its
\* first, which passes for the message.
RightAnswer ==
  \A c \in Commanders :
    LET r == result[c]
        clear == "match" \notin r.strays
    IN r.err = "ok" /\ ~r.undercut /\ r.late = "none" /\ r.strays \cap FinalLooks = {} =>
         /\ r.from = r.cmd
         /\ ~Eaten(r.cmd) /\ (clear \/ r.kind \in {"MULTILINE", "CMGR"}) =>
              AllOwnLines(r.lines, r.cmd)
         /\ clear /\ r.kind # "CMGR" => OwnPlaces(r.lines, r.cmd) = DOMAIN r.lines

\* The lines the reader has yet to process, the one in its hand first.
Coming == IF rpc = "process" THEN <<rline>> \o wire ELSE wire

\* The final response to command n is among the lines s.
FinalIn(s, n) == \E p \in 1..Len(s) : s[p].look \in FinalLooks /\ s[p].for = n

\* The final response to command n went into another line, or for an SMS: nothing comes.
AnswerEaten(n) == \E l \in eaten : l.look \in FinalLooks /\ l.for = n

\* What will complete the pending command is still to happen: the modem has it to
\* answer, or its final response is on the way, or the modem has hung up and the
\* reader will find out.
AnswerComes ==
  \/ \E p \in 1..Len(todo) : todo[p].cmd = sp_response.cmd
  \/ FinalIn(Coming, sp_response.cmd)
  \/ hungup

\* Where the reader is as long as it has told nobody that the channel is closed.
Reading == {"read", "sms", "handler", "process", "eof"}

\* No lost wake-up: a thread never sleeps in pthread_cond_wait on a response that is
\* complete or on a channel that is closed, nor without a reader that will signal it
\* and something for that reader to find.  No at_send_command_* has a timeout, so it
\* would sleep for ever; as it does if at_open ran meanwhile, or a line cut short on the
\* channel before ("+CMT:") has eaten its final response (the loop of
\* at_send_command_full_nolock, handleFinalResponse, onReaderClosed).
NeverForgotten ==
  \A c \in Commanders \ undercut : pc[c] = "wait" =>
    /\ sp_response # None /\ sp_response.final = None /\ ~s_readerClosed
    /\ rpc \in Reading \/ mpc = "opening"
    /\ AnswerComes \/ AnswerEaten(sp_response.cmd)

\* What at_handshake says of its pause: that unmatched OKs of the attempts that
\* timed out drain meanwhile, so that a later command gets its own answer.
\* (The code sleeps with s_commandmutex held, and processLine waits for it.)
HandshakeDrains ==
  \A c \in Commanders :
    result[c].err = "ok" /\ result[c].late \in {"none", "drained"} =>
      result[c].from = result[c].cmd

\* Every call comes back: answered, timed out, refused, or woken by the reader
\* when the channel closes (the signal in onReaderClosed and at_close); unless at_open ran
\* while it waited, or its final response was eaten.
Lost(c) == c \in undercut \/ (sp_response # None /\ AnswerEaten(sp_response.cmd))

CommandReturns ==
  \A c \in Commanders : pc[c] # "idle" ~> pc[c] = "idle" \/ Lost(c)

\* A channel whose modem has hung up is opened again, and has a reader, as long as rild
\* lives.
ChannelReopens ==
  hungup /\ opens < MaxOpens ~> (mpc = "wait" /\ s_fd /\ rpc = "read") \/ mpc = "crashed"

=============================================================================
