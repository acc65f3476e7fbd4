------------------------------ MODULE RilRequests ------------------------------
(***************************************************************************)
(* The command socket of the radio daemon: libril/ril.cpp.                 *)
(*                                                                         *)
(* The thread of the event loop accepts one client at a time, reads its    *)
(* requests and hands each to the vendor code as a token, the address of a *)
(* RequestInfo.  Vendor code completes a token, or reports an unsolicited  *)
(* event, from whatever thread it runs on, and writes to the client itself.*)
(* The event service (module RilEvent) is seen here as the events that are *)
(* added: s_listen_event and s_commands_event.                             *)
(*                                                                         *)
(* accept() returns the lowest free number, so every connection gets the   *)
(* number of the one before: CommandFd; what it denotes is peer.           *)
(***************************************************************************)
EXTENDS Integers, Sequences, SequencesExt

CONSTANTS
  Loop,         \* the thread of the event loop
  Vendors,      \* the other threads of the vendor code
  Completers,   \* the threads that call RIL_onRequestComplete
  Cells,        \* the addresses calloc may give a RequestInfo
  MaxConns,     \* bound: connections clients make
  MaxRequests,  \* bound: requests, of clients and of the debug port
  MaxUnsol,     \* bound: calls of RIL_onUnsolicitedResponse by vendor code
  None

Threads == {Loop} \cup Vendors

ASSUME ThreadsAssumption ==
  /\ Loop \notin Vendors /\ None \notin Threads \cup Cells
  /\ Completers \subseteq Threads
ASSUME BoundsAssumption == {MaxConns, MaxRequests, MaxUnsol} \subseteq Nat
ASSUME NoneAssumption == None \notin 1..MaxConns

VARIABLES
  loop,               \* what the event loop does: a handler, or "top" for select()
  listening,          \* s_listen_event is added
  watching,           \* s_commands_event is added
  s_fdCommand,        \* CommandFd or -1
  peer,               \* the connection the number CommandFd denotes, or None: closed
  s_pendingRequests,  \* the RequestInfos in the list
  allocated,          \* the RequestInfos not freed
  info,               \* the contents of a RequestInfo (they outlive it)
  current,            \* the token of the onRequest under way, or None
  owed,               \* tokens vendor code has not completed yet
  s_writeMutex,       \* its holder, or None
  s_lastNITZTimeData, \* the message kept for the next client, or None
  pc, msg, holds,     \* of each thread: where it is in sendResponseRaw, with which
                      \* message, and the RequestInfo it frees after it
  conns,              \* history: connections made so far
  hungUp,             \* connections whose client has closed them
  backlog,            \* connections that wait for accept()
  inbox,              \* requests on their way from each client
  stream,             \* history: what was written to each client
  asked, unsol        \* history: counters behind MaxRequests and MaxUnsol

events == <<loop, listening, watching>>
socket == <<s_fdCommand, peer>>
requests == <<s_pendingRequests, allocated, info, current, owed>>
sending == <<s_writeMutex, pc, msg, holds, stream>>
nitz == s_lastNITZTimeData
clients == <<conns, hungUp, backlog, inbox>>
vars == <<events, socket, requests, sending, nitz, clients, asked, unsol>>

CommandFd == 0
Conns == 1..MaxConns

\* What a message is about: a reply to request id of connection conn (0: of the
\* debug port), or the id-th unsolicited message.
Message(what, id, conn) == [what |-> what, id |-> id, conn |-> conn]
NoMessage == Message("none", 0, 0)
Zeroed == [token |-> 0, conn |-> 0, local |-> FALSE, cancelled |-> FALSE]

RequestInfo(id, conn, local) == [token |-> id, conn |-> conn, local |-> local, cancelled |-> FALSE]

Init ==
  /\ loop = "top"
  /\ listening = TRUE
  /\ watching = FALSE
  /\ s_fdCommand = -1
  /\ peer = None
  /\ s_pendingRequests = {}
  /\ allocated = {}
  /\ info = [p \in Cells |-> Zeroed]
  /\ current = None
  /\ owed = {}
  /\ s_writeMutex = None
  /\ s_lastNITZTimeData = None
  /\ pc = [t \in Threads |-> "idle"]
  /\ msg = [t \in Threads |-> NoMessage]
  /\ holds = [t \in Threads |-> {}]
  /\ conns = 0
  /\ hungUp = {}
  /\ backlog = <<>>
  /\ inbox = [c \in Conns |-> <<>>]
  /\ stream = [c \in Conns |-> <<>>]
  /\ asked = 0
  /\ unsol = 0

At(where) == loop = where /\ pc[Loop] = "idle"

-----------------------------------------------------------------------------
(* Clients.                                                                *)

Connect ==
  /\ conns < MaxConns
  /\ conns' = conns + 1
  /\ backlog' = Append(backlog, conns + 1)
  /\ UNCHANGED <<events, socket, requests, sending, nitz, hungUp, inbox, asked, unsol>>

Connected(c) == c \notin hungUp /\ (c = peer \/ c \in ToSet(backlog))

ClientSends(c, kind) ==
  /\ Connected(c)
  /\ asked < MaxRequests
  /\ asked' = asked + 1
  /\ inbox' = [inbox EXCEPT ![c] = Append(@, [id |-> asked + 1, kind |-> kind])]
  /\ UNCHANGED <<events, socket, requests, sending, nitz, conns, hungUp, backlog, unsol>>

ClientHangsUp(c) ==
  /\ Connected(c)
  /\ hungUp' = hungUp \cup {c}
  /\ UNCHANGED <<events, socket, requests, sending, nitz, conns, backlog, inbox, asked, unsol>>

Client ==
  \/ Connect
  \/ \E c \in Conns :
       \/ \E kind \in {"request", "unsupported", "malformed"} : ClientSends(c, kind)
       \/ ClientHangsUp(c)

-----------------------------------------------------------------------------
(* sendResponseRaw, step by step: the message goes out as a header and a   *)
(* body, with two writes.  A write fails when the number is closed, when   *)
(* the client is gone, or when the socket's buffer is full (the socket is  *)
(* non-blocking); blockingWrite then closes the number it was given.       *)

StartSend(t, m) ==
  /\ pc' = [pc EXCEPT ![t] = "send"]
  /\ msg' = [msg EXCEPT ![t] = m]

\* Where a thread goes when sendResponseRaw has returned: an unsolicited NITZ that
\* was not sent is kept.
AfterSend(t, sent) ==
  IF ~sent /\ msg[t].what = "nitz" /\ ~(t = Loop /\ loop = "free") THEN "store" ELSE "idle"

ReturnFromSend(t, sent) ==
  /\ pc' = [pc EXCEPT ![t] = AfterSend(t, sent)]
  /\ allocated' = allocated \ holds[t]
  /\ msg' = IF AfterSend(t, sent) = "store" THEN msg ELSE [msg EXCEPT ![t] = NoMessage]
  /\ holds' = [holds EXCEPT ![t] = {}]
  /\ UNCHANGED <<events, s_fdCommand, s_pendingRequests, info, current, owed, nitz, clients,
                 asked, unsol>>

CheckSocket(t) ==
  /\ pc[t] = "send"
  /\ \/ /\ s_fdCommand < 0
        /\ ReturnFromSend(t, FALSE)
        /\ UNCHANGED <<peer, s_writeMutex, stream>>
     \/ /\ s_fdCommand >= 0
        /\ pc' = [pc EXCEPT ![t] = "lock"]
        /\ UNCHANGED <<events, socket, requests, s_writeMutex, msg, holds, stream, nitz,
                       clients, asked, unsol>>

\* Variant: the write mutex is not waited for.
LockNothing(t) ==
  /\ pc[t] = "lock"
  /\ pc' = [pc EXCEPT ![t] = "header"]
  /\ UNCHANGED <<events, socket, requests, s_writeMutex, msg, holds, stream, nitz, clients, asked,
                 unsol>>

LockWrite(t) ==
  /\ pc[t] = "lock"
  /\ s_writeMutex = None
  /\ s_writeMutex' = t
  /\ pc' = [pc EXCEPT ![t] = "header"]
  /\ UNCHANGED <<events, socket, requests, msg, holds, stream, nitz, clients, asked, unsol>>

CanWrite == peer # None /\ peer \notin hungUp

Written(t, part) == stream' = [stream EXCEPT ![peer] = Append(@, [part |-> part, msg |-> msg[t]])]

WriteHeader(t) ==
  /\ pc[t] = "header"
  /\ CanWrite
  /\ Written(t, "header")
  /\ pc' = [pc EXCEPT ![t] = "body"]
  /\ UNCHANGED <<events, socket, requests, s_writeMutex, msg, holds, nitz, clients, asked, unsol>>

WriteBody(t) ==
  /\ pc[t] = "body"
  /\ CanWrite
  /\ Written(t, "body")
  /\ s_writeMutex' = None
  /\ ReturnFromSend(t, TRUE)
  /\ UNCHANGED peer

\* Variant: the early return after a failed write keeps the mutex.
FailWithoutUnlock(t) ==
  /\ pc[t] \in {"header", "body"}
  /\ peer' = None
  /\ ReturnFromSend(t, FALSE)
  /\ UNCHANGED <<s_writeMutex, stream>>

WriteFails(t) ==
  /\ pc[t] \in {"header", "body"}
  /\ peer' = None
  /\ s_writeMutex' = None
  /\ ReturnFromSend(t, FALSE)
  /\ UNCHANGED stream

\* RIL_onUnsolicitedResponse keeps a NITZ message that was not sent.
StoreNITZ(t) ==
  /\ pc[t] = "store"
  /\ s_lastNITZTimeData' = msg[t]
  /\ pc' = [pc EXCEPT ![t] = "idle"]
  /\ msg' = [msg EXCEPT ![t] = NoMessage]
  /\ UNCHANGED <<events, socket, requests, s_writeMutex, holds, stream, clients, asked, unsol>>

Sending(t) ==
  \/ CheckSocket(t) \/ LockWrite(t)
  \/ WriteHeader(t) \/ WriteBody(t) \/ WriteFails(t)
  \/ StoreNITZ(t)

-----------------------------------------------------------------------------
(* What vendor code calls: from the loop only inside onRequest or from a   *)
(* timed callback.                                                         *)

\* Variant: the token is found but not taken out of the list.
StillLinked(p) == s_pendingRequests

Unlinked(p) == s_pendingRequests \ {p}

\* A token is completed once, or more than once before onRequest returns (the
\* reference RIL does so when it cannot read the signal strength).
MayComplete(t, p) ==
  /\ t \in Completers
  /\ pc[t] = "idle"
  /\ t = Loop => loop \in {"top", "vendor"}
  /\ p \in owed \/ (t = Loop /\ loop = "vendor" /\ p = current)

RIL_onRequestComplete(t, p) ==
  /\ MayComplete(t, p)
  /\ owed' = owed \ {p}
  /\ \/ /\ p \notin s_pendingRequests  \* "invalid RIL_Token"
        /\ UNCHANGED <<s_pendingRequests, allocated, pc, msg, holds>>
     \/ /\ p \in s_pendingRequests
        /\ s_pendingRequests' = Unlinked(p)
        /\ \/ /\ info[p].local \/ info[p].cancelled
              /\ allocated' = allocated \ {p}
              /\ UNCHANGED <<pc, msg, holds>>
           \/ /\ ~info[p].local /\ ~info[p].cancelled
              /\ StartSend(t, Message("reply", info[p].token, info[p].conn))
              /\ holds' = [holds EXCEPT ![t] = {p}]
              /\ UNCHANGED allocated
  /\ UNCHANGED <<events, socket, info, current, s_writeMutex, stream, nitz, clients, asked, unsol>>

RIL_onUnsolicitedResponse(t, what) ==
  /\ pc[t] = "idle"
  /\ t = Loop => loop \in {"top", "vendor"}
  /\ unsol < MaxUnsol
  /\ unsol' = unsol + 1
  /\ StartSend(t, Message(what, unsol + 1, 0))
  /\ UNCHANGED <<events, socket, requests, s_writeMutex, holds, stream, nitz, clients, asked>>

VendorCalls(t) == \E what \in {"radio", "nitz"} : RIL_onUnsolicitedResponse(t, what)

-----------------------------------------------------------------------------
(* The handlers of the event loop.                                         *)

\* listenCallback: s_listen_event is not persistent, so firing it removed it.
AcceptClient ==
  /\ At("top")
  /\ listening /\ backlog # <<>>
  /\ listening' = FALSE
  /\ backlog' = Tail(backlog)
  /\ peer' = Head(backlog)
  /\ s_fdCommand' = CommandFd
  /\ loop' = "accepted"
  /\ UNCHANGED <<watching, requests, sending, nitz, conns, hungUp, inbox, asked, unsol>>

\* The peer's credentials are not those of the phone process.
RejectClient ==
  /\ At("accepted")
  /\ loop' = "close"
  /\ UNCHANGED <<listening, watching, socket, requests, sending, nitz, clients, asked, unsol>>

WelcomeClient ==
  /\ At("accepted")
  /\ watching' = TRUE
  /\ loop' = "welcome"
  /\ StartSend(Loop, Message("radio", 0, 0))
  /\ UNCHANGED <<listening, socket, requests, s_writeMutex, holds, stream, nitz, clients, asked, unsol>>

\* onNewCommandConnect, after the radio state: the NITZ kept for this client.
SendLastNITZ ==
  /\ At("welcome")
  /\ \/ /\ nitz = None
        /\ loop' = "top"
        /\ UNCHANGED <<pc, msg>>
     \/ /\ nitz # None
        /\ loop' = "free"
        /\ StartSend(Loop, nitz)
  /\ UNCHANGED <<listening, watching, socket, requests, s_writeMutex, holds, stream, nitz,
                 clients, asked, unsol>>

FreeLastNITZ ==
  /\ At("free")
  /\ s_lastNITZTimeData' = None
  /\ loop' = "top"
  /\ UNCHANGED <<listening, watching, socket, requests, sending, clients, asked, unsol>>

\* select() returns EBADF: ril_event_loop returns, and with it the thread.
SelectFails ==
  /\ At("top")
  /\ watching /\ peer = None
  /\ loop' = "dead"
  /\ UNCHANGED <<listening, watching, socket, requests, sending, nitz, clients, asked, unsol>>

CommandsReady ==
  /\ At("top")
  /\ watching /\ peer # None
  /\ inbox[peer] # <<>> \/ peer \in hungUp
  /\ loop' = "read"
  /\ UNCHANGED <<listening, watching, socket, requests, sending, nitz, clients, asked, unsol>>

\* A RequestInfo goes to the front of the list; kinds but "local" are a client's.
Enqueue(p, id, conn, local) ==
  /\ p \notin allocated
  /\ allocated' = allocated \cup {p}
  /\ info' = [info EXCEPT ![p] = RequestInfo(id, conn, local)]
  /\ s_pendingRequests' = s_pendingRequests \cup {p}

\* processCommandBuffer: an unsupported code is dropped; a malformed block is
\* enqueued but never reaches the vendor code; the rest does.
ProcessCommandBuffer(p) ==
  LET record == Head(inbox[peer]) IN
  \/ /\ record.kind = "unsupported"
     /\ UNCHANGED <<loop, requests>>
  \/ /\ record.kind = "malformed"
     /\ Enqueue(p, record.id, peer, FALSE)
     /\ UNCHANGED <<loop, current, owed>>
  \/ /\ record.kind = "request"
     /\ Enqueue(p, record.id, peer, FALSE)
     /\ current' = p
     /\ owed' = owed \cup {p}
     /\ loop' = "vendor"

NextRecord ==
  /\ At("read")
  /\ peer # None /\ inbox[peer] # <<>>
  /\ \E p \in Cells : ProcessCommandBuffer(p)
  /\ inbox' = [inbox EXCEPT ![peer] = Tail(@)]
  /\ UNCHANGED <<listening, watching, socket, sending, nitz, conns, hungUp, backlog, asked, unsol>>

OnRequestReturns ==
  /\ At("vendor")
  /\ current' = None
  /\ loop' = IF info[current].local THEN "top" ELSE "read"
  /\ UNCHANGED <<listening, watching, socket, s_pendingRequests, allocated, info, owed,
                 sending, nitz, clients, asked, unsol>>

NoMoreRecords ==
  /\ At("read")
  /\ peer # None /\ inbox[peer] = <<>>
  /\ loop' = IF peer \in hungUp THEN "close" ELSE "top"
  /\ UNCHANGED <<listening, watching, socket, requests, sending, nitz, clients, asked, unsol>>

ReadFails ==
  /\ At("read")
  /\ peer = None
  /\ loop' = "close"
  /\ UNCHANGED <<listening, watching, socket, requests, sending, nitz, clients, asked, unsol>>

CloseCommand ==
  /\ At("close")
  /\ peer' = None
  /\ loop' = "clear"
  /\ UNCHANGED <<listening, watching, s_fdCommand, requests, sending, nitz, clients, asked, unsol>>

ClearCommand ==
  /\ At("clear")
  /\ s_fdCommand' = -1
  /\ loop' = "cancel"
  /\ UNCHANGED <<listening, watching, peer, requests, sending, nitz, clients, asked, unsol>>

\* Variant: pending requests outlive their connection.
NotCancelled(i, p) == i

Cancelled(i, p) == IF p \in s_pendingRequests THEN [i EXCEPT !.cancelled = TRUE] ELSE i

\* Variant: the daemon does not listen again.
CancelWithoutListening ==
  /\ At("cancel")
  /\ watching' = FALSE
  /\ info' = [p \in Cells |-> Cancelled(info[p], p)]
  /\ loop' = "top"
  /\ UNCHANGED <<listening, socket, s_pendingRequests, allocated, current, owed, sending, nitz,
                 clients, asked, unsol>>

\* s_commands_event is deleted and s_listen_event added again; onCommandsSocketClosed.
CancelPending ==
  /\ At("cancel")
  /\ watching' = FALSE
  /\ listening' = TRUE
  /\ info' = [p \in Cells |-> Cancelled(info[p], p)]
  /\ loop' = "top"
  /\ UNCHANGED <<socket, s_pendingRequests, allocated, current, owed, sending, nitz, clients,
                 asked, unsol>>

\* debugCallback: a request of the debug port; "power off" also closes the socket.
DebugRequest(p) ==
  /\ At("top")
  /\ asked < MaxRequests
  /\ asked' = asked + 1
  /\ Enqueue(p, asked + 1, 0, TRUE)
  /\ current' = p
  /\ owed' = owed \cup {p}
  /\ loop' = "vendor"
  /\ UNCHANGED <<listening, watching, socket, sending, nitz, clients, unsol>>

DebugClose ==
  /\ At("vendor")
  /\ info[current].local
  /\ loop' = "top"
  /\ current' = None
  /\ peer' = None
  /\ s_fdCommand' = -1
  /\ UNCHANGED <<listening, watching, s_pendingRequests, allocated, info, owed, sending, nitz,
                 clients, asked, unsol>>

EventLoop ==
  \/ AcceptClient \/ RejectClient \/ WelcomeClient \/ SendLastNITZ \/ FreeLastNITZ
  \/ SelectFails \/ CommandsReady
  \/ NextRecord \/ OnRequestReturns \/ NoMoreRecords \/ ReadFails
  \/ CloseCommand \/ ClearCommand \/ CancelPending

Debug == DebugClose \/ \E p \in Cells : DebugRequest(p)

-----------------------------------------------------------------------------

Completion(p) == \E t \in Completers : RIL_onRequestComplete(t, p)

Next ==
  \/ Client \/ EventLoop \/ Debug
  \/ \E t \in Threads : Sending(t) \/ VendorCalls(t)
  \/ \E p \in Cells : Completion(p)

Spec == Init /\ [][Next]_vars

\* The threads run; vendor code completes what it is given ("Must be completed
\* with a call to RIL_onRequestComplete()", reference-ril.c:1515).  Clients and the
\* debug port promise nothing.
FairSpec ==
  /\ Spec
  /\ WF_vars(EventLoop)
  /\ \A t \in Threads : WF_vars(Sending(t))
  /\ \A p \in Cells : WF_vars(p \in owed /\ Completion(p))

-----------------------------------------------------------------------------
(* Properties.                                                             *)

RequestInfos == [token : 0..MaxRequests, conn : 0..MaxConns, local : BOOLEAN, cancelled : BOOLEAN]
Messages == [what : {"none", "reply", "radio", "nitz"}, id : Nat, conn : 0..MaxConns]
Records == [id : 1..MaxRequests, kind : {"request", "unsupported", "malformed"}]

TypeOK ==
  /\ loop \in {"top", "accepted", "welcome", "free", "read", "vendor", "close", "clear", "cancel", "dead"}
  /\ listening \in BOOLEAN /\ watching \in BOOLEAN
  /\ s_fdCommand \in {-1, CommandFd}
  /\ peer \in Conns \cup {None}
  /\ s_pendingRequests \subseteq Cells /\ allocated \subseteq Cells /\ owed \subseteq Cells
  /\ info \in [Cells -> RequestInfos]
  /\ current \in Cells \cup {None}
  /\ s_writeMutex \in Threads \cup {None}
  /\ s_lastNITZTimeData \in Messages \cup {None}
  /\ pc \in [Threads -> {"idle", "send", "lock", "header", "body", "store"}]
  /\ msg \in [Threads -> Messages]
  /\ holds \in [Threads -> SUBSET Cells]
  /\ conns \in 0..MaxConns
  /\ hungUp \subseteq Conns
  /\ backlog \in Seq(Conns)
  /\ inbox \in [Conns -> Seq(Records)]
  /\ stream \in [Conns -> Seq([part : {"header", "body"}, msg : Messages])]
  /\ asked \in 0..MaxRequests /\ unsol \in 0..MaxUnsol

\* A client gets the replies to its own requests only: none to a request of a client
\* before it, and none to a request of the debug port (onCommandsSocketClosed,
\* issueLocalRequest).
RepliesBelong ==
  \A c \in Conns : \A i \in DOMAIN stream[c] :
    stream[c][i].msg.what = "reply" => stream[c][i].msg.conn = c

\* A request is answered at most once, however often its token is completed
\* (checkAndDequeueRequestInfo).
AnsweredOnce ==
  \A c, d \in Conns : \A i \in DOMAIN stream[c], j \in DOMAIN stream[d] :
    LET x == stream[c][i]
        y == stream[d][j]
    IN  x.msg.what = "reply" /\ x = y => c = d /\ i = j

\* The threads that write do not cut each other's messages in two: what follows a
\* header is its body, and a body without its header (the connection changed between
\* the two writes of sendResponseRaw) is only ever the first thing on a connection.
Framed ==
  \A c \in Conns : \A i \in DOMAIN stream[c] :
    \/ stream[c][i].part = "body" /\ i = 1
    \/ stream[c][i].part = "body" /\ stream[c][i - 1] = [stream[c][i] EXCEPT !.part = "header"]
    \/ stream[c][i].part = "header" /\ (i > 1 => stream[c][i - 1].part = "body")

\* A RequestInfo that is not freed is in the list or in the hands of one thread that will
\* free it, never in two places; one that is freed is in none (RIL_onRequestComplete).
CellsOwned ==
  /\ \A p \in Cells :
       p \in allocated <=> p \in s_pendingRequests \/ \E t \in Threads : p \in holds[t]
  /\ \A t \in Threads : holds[t] \cap s_pendingRequests = {}
  /\ \A t, u \in Threads : t # u => holds[t] \cap holds[u] = {}

-----------------------------------------------------------------------------
(* What clients are promised: module RequestService.                       *)

Open(c) == c = peer \/ c \in ToSet(backlog)

\* A request of the client that is served that is pending, or whose reply a thread is
\* about to write.
Awaited(id, c) ==
  /\ c = peer
  /\ \/ \E p \in s_pendingRequests :
          info[p] = [token |-> id, conn |-> c, local |-> FALSE, cancelled |-> FALSE]
     \/ \E t \in Threads :
          pc[t] \in {"send", "lock", "header", "body"} /\ msg[t] = Message("reply", id, c)

\* What a client was told, whoever it was meant for.
Told(id, c) ==
  \E i \in DOMAIN stream[c] :
    LET x == stream[c][i] IN x.part = "body" /\ x.msg.what = "reply" /\ x.msg.id = id

ClientRequests == [id : 0..MaxRequests, client : Conns]

Sent == [c \in Conns |-> IF Open(c) THEN inbox[c] ELSE <<>>]
Due == {r \in ClientRequests : Awaited(r.id, r.client)}
Replied == {r \in ClientRequests : Told(r.id, r.client)}

Service == INSTANCE RequestService WITH
  Clients <- Conns,
  Ids <- 0..MaxRequests,
  Kinds <- {"request", "unsupported", "malformed"},
  Unsupported <- {"unsupported"},
  serving <- peer,
  line <- backlog,
  sent <- Sent,
  due <- Due,
  answered <- Replied

\* Clients are served one at a time, in order.  A request the daemon has read stays due,
\* through the pending list, the callbacks of vendor code and the writes, until its client
\* has been answered, once, or is gone; nobody else ever gets the answer
\* (processCommandsCallback, RIL_onRequestComplete, onCommandsSocketClosed).
ImplementsRequests == Service!QSpec

Delivered(id, c) ==
  \E i \in DOMAIN stream[c] :
    LET x == stream[c][i] IN x.part = "body" /\ x.msg = Message("reply", id, c)

\* A request the daemon supports, sent on a connection it serves, is answered unless the
\* connection ends first (processCommandsCallback, RIL_onRequestComplete, sendResponseRaw).
Answered ==
  \A c \in Conns, id \in 1..MaxRequests :
    (peer = c /\ \E i \in DOMAIN inbox[c] : inbox[c][i] = [id |-> id, kind |-> "request"])
      ~> (Delivered(id, c) \/ peer # c)

\* The first client in line, when nobody is being served.
NextInLine(c) ==
  /\ backlog # <<>> /\ Head(backlog) = c
  /\ peer = None \/ peer \in hungUp

\* When the client it served is gone the daemon takes the next one, as long as its event
\* loop runs (processCommandsCallback, listenCallback).
AcceptsWhileAlive == \A c \in Conns : NextInLine(c) ~> (c \notin ToSet(backlog) \/ loop = "dead")

\* "start listening for new connections again" (ril.cpp:2213): when the client it served
\* is gone the daemon takes the next one.
AcceptsAgain == \A c \in Conns : NextInLine(c) ~> c \notin ToSet(backlog)
=============================================================================
