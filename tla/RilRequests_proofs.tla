-------------------------- MODULE RilRequests_proofs --------------------------
(***************************************************************************)
(* Proofs about RilRequests: its type invariant, the ownership of each     *)
(* RequestInfo, and, when vendor code completes requests on the thread of  *)
(* the event loop, that replies go to the client that asked.               *)
(***************************************************************************)
EXTENDS RilRequests, SequenceTheorems, TLAPS

-----------------------------------------------------------------------------
(* Types, in the groups the steps change together *)

Handlers == {"top", "accepted", "welcome", "free", "read", "vendor", "close", "clear", "cancel", "dead"}
Places == {"idle", "send", "lock", "header", "body", "store"}
Parts == [part : {"header", "body"}, msg : Messages]

LoopOK == loop \in Handlers /\ listening \in BOOLEAN /\ watching \in BOOLEAN
SocketOK == s_fdCommand \in {-1, CommandFd} /\ peer \in Conns \cup {None}
RequestsOK ==
  /\ s_pendingRequests \subseteq Cells /\ allocated \subseteq Cells /\ owed \subseteq Cells
  /\ info \in [Cells -> RequestInfos]
  /\ current \in Cells \cup {None}
ThreadsOK ==
  /\ pc \in [Threads -> Places] /\ msg \in [Threads -> Messages]
  /\ holds \in [Threads -> SUBSET Cells]
WritesOK ==
  /\ s_writeMutex \in Threads \cup {None}
  /\ stream \in [Conns -> Seq(Parts)]
NitzOK == nitz \in Messages \cup {None}
ClientsOK ==
  /\ conns \in 0..MaxConns
  /\ hungUp \subseteq Conns
  /\ backlog \in Seq(Conns)
  /\ inbox \in [Conns -> Seq(Records)]
CountersOK == asked \in 0..MaxRequests /\ unsol \in 0..MaxUnsol

LEMMA TypeGroups ==
  TypeOK <=> /\ LoopOK /\ SocketOK /\ RequestsOK /\ ThreadsOK
             /\ WritesOK /\ NitzOK /\ ClientsOK /\ CountersOK
BY Zenon DEF TypeOK, LoopOK, SocketOK, RequestsOK, ThreadsOK, WritesOK, NitzOK, ClientsOK, CountersOK,
             Handlers, Places, Parts, nitz

LEMMA TypeGroupsPrime ==
  ASSUME LoopOK', SocketOK', RequestsOK', ThreadsOK', WritesOK', NitzOK', ClientsOK', CountersOK'
  PROVE  TypeOK'
BY DEF TypeOK, LoopOK, SocketOK, RequestsOK, ThreadsOK, WritesOK, NitzOK, ClientsOK, CountersOK,
       Handlers, Places, Parts, nitz

LEMMA Bounds == MaxConns \in Nat /\ MaxRequests \in Nat /\ MaxUnsol \in Nat
BY BoundsAssumption

\* What a step leaves alone keeps its type.
LEMMA Kept ==
  ASSUME TypeOK
  PROVE  /\ UNCHANGED events => LoopOK'
         /\ UNCHANGED socket => SocketOK'
         /\ UNCHANGED requests => RequestsOK'
         /\ UNCHANGED <<pc, msg, holds>> => ThreadsOK'
         /\ UNCHANGED <<s_writeMutex, stream>> => WritesOK'
         /\ UNCHANGED sending => ThreadsOK' /\ WritesOK'
         /\ UNCHANGED nitz => NitzOK'
         /\ UNCHANGED clients => ClientsOK'
         /\ UNCHANGED <<asked, unsol>> => CountersOK'
BY TypeGroups, Zenon
   DEF LoopOK, SocketOK, RequestsOK, ThreadsOK, WritesOK, NitzOK, ClientsOK, CountersOK,
       events, socket, requests, sending, nitz, clients

LEMMA MessageType ==
  ASSUME NEW what \in {"none", "reply", "radio", "nitz"}, NEW id \in Nat, NEW conn \in 0..MaxConns
  PROVE  Message(what, id, conn) \in Messages
BY DEF Message, Messages

LEMMA NoMessageType == NoMessage \in Messages
BY Bounds DEF NoMessage, Message, Messages

LEMMA RequestInfoType ==
  ASSUME NEW id \in 0..MaxRequests, NEW conn \in 0..MaxConns, NEW local \in BOOLEAN
  PROVE  RequestInfo(id, conn, local) \in RequestInfos
BY Zenon DEF RequestInfo, RequestInfos

LEMMA LoopIsThread == Loop \in Threads
BY DEF Threads

LEMMA InitTypeOK == Init => TypeOK
<1> SUFFICES ASSUME Init PROVE TypeOK
  OBVIOUS
<1>1. LoopOK
  BY Zenon DEF Init, LoopOK, Handlers
<1>2. SocketOK /\ NitzOK
  BY Zenon DEF Init, SocketOK, NitzOK, nitz
<1>3. Zeroed \in RequestInfos
  <2>1. 0 \in 0..MaxRequests /\ 0 \in 0..MaxConns /\ FALSE \in BOOLEAN
    BY Bounds
  <2>2. QED BY <2>1, Zenon DEF Zeroed, RequestInfos
<1>4. RequestsOK
  BY <1>3, Zenon DEF Init, RequestsOK
<1>5. ThreadsOK
  BY NoMessageType, Zenon DEF Init, ThreadsOK, Places
<1>6. WritesOK
  BY EmptySeq, Zenon DEF Init, WritesOK
<1>7. ClientsOK
  BY EmptySeq, Bounds DEF Init, ClientsOK
<1>8. CountersOK
  BY Bounds DEF Init, CountersOK
<1>9. QED BY <1>1, <1>2, <1>4, <1>5, <1>6, <1>7, <1>8, TypeGroups

-----------------------------------------------------------------------------
(* Types: the steps of sendResponseRaw and the calls of vendor code *)

LEMMA StartSendTypes ==
  ASSUME TypeOK, NEW t \in Threads, NEW m \in Messages, StartSend(t, m)
  PROVE  pc' \in [Threads -> Places] /\ msg' \in [Threads -> Messages]
BY TypeGroups DEF StartSend, ThreadsOK, Places

LEMMA ReturnTypes ==
  ASSUME TypeOK, NEW t \in Threads, NEW sent \in BOOLEAN, ReturnFromSend(t, sent)
  PROVE  /\ LoopOK' /\ RequestsOK' /\ ThreadsOK' /\ NitzOK' /\ ClientsOK' /\ CountersOK'
         /\ s_fdCommand' = s_fdCommand
<1>1. ThreadsOK /\ RequestsOK
  BY TypeGroups
<1>2. AfterSend(t, sent) \in Places
  BY DEF AfterSend, Places
<1>3. /\ UNCHANGED <<events, s_fdCommand, s_pendingRequests, info, current, owed, nitz, clients,
                     asked, unsol>>
      /\ allocated' = allocated \ holds[t]
      /\ holds' = [holds EXCEPT ![t] = {}]
      /\ msg' \in {msg, [msg EXCEPT ![t] = NoMessage]}
      /\ pc' = [pc EXCEPT ![t] = AfterSend(t, sent)]
  BY DEF ReturnFromSend
<1>4. ThreadsOK'
  <2>1. pc' \in [Threads -> Places]
    BY <1>1, <1>2, <1>3 DEF ThreadsOK
  <2>2. msg' \in [Threads -> Messages]
    BY <1>1, <1>3, NoMessageType DEF ThreadsOK
  <2>3. holds' \in [Threads -> SUBSET Cells]
    BY <1>1, <1>3 DEF ThreadsOK
  <2>4. QED BY <2>1, <2>2, <2>3 DEF ThreadsOK
<1>5. RequestsOK'
  BY <1>1, <1>3, Zenon DEF RequestsOK
<1>6. QED BY <1>3, <1>4, <1>5, Kept

LEMMA SendingTypeOK ==
  ASSUME TypeOK, NEW t \in Threads, Sending(t)
  PROVE  TypeOK'
<1>1. CASE CheckSocket(t)
  <2>1. CASE ReturnFromSend(t, FALSE) /\ UNCHANGED <<peer, s_writeMutex, stream>>
    BY <2>1, ReturnTypes, Kept, TypeGroupsPrime, Zenon DEF socket
  <2>2. CASE /\ pc' = [pc EXCEPT ![t] = "lock"]
             /\ UNCHANGED <<events, socket, requests, s_writeMutex, msg, holds, stream, nitz,
                            clients, asked, unsol>>
    <3>1. ThreadsOK'
      BY <2>2, TypeGroups DEF ThreadsOK, Places
    <3>2. QED BY <2>2, <3>1, Kept, TypeGroupsPrime
  <2>3. QED BY <1>1, <2>1, <2>2 DEF CheckSocket
<1>2. CASE LockWrite(t)
  <2>1. ThreadsOK'
    BY <1>2, TypeGroups DEF LockWrite, ThreadsOK, Places
  <2>2. WritesOK'
    BY <1>2, TypeGroups DEF LockWrite, WritesOK
  <2>3. QED BY <1>2, <2>1, <2>2, Kept, TypeGroupsPrime DEF LockWrite
<1>3. ASSUME NEW part \in {"header", "body"}, CanWrite, Written(t, part)
      PROVE  stream' \in [Conns -> Seq(Parts)]
  <2>1. peer \in Conns
    BY <1>3, TypeGroups DEF CanWrite, SocketOK
  <2>2. msg[t] \in Messages
    BY TypeGroups DEF ThreadsOK
  <2>3. [part |-> part, msg |-> msg[t]] \in Parts
    BY <2>2 DEF Parts
  <2>4. stream \in [Conns -> Seq(Parts)]
    BY TypeGroups DEF WritesOK
  <2>5. Append(stream[peer], [part |-> part, msg |-> msg[t]]) \in Seq(Parts)
    BY <2>1, <2>3, <2>4, AppendProperties
  <2>6. QED BY <1>3, <2>1, <2>4, <2>5 DEF Written
<1>4. CASE WriteHeader(t)
  <2>1. ThreadsOK'
    BY <1>4, TypeGroups DEF WriteHeader, ThreadsOK, Places
  <2>2. WritesOK'
    BY <1>3, <1>4, TypeGroups DEF WriteHeader, WritesOK
  <2>3. QED BY <1>4, <2>1, <2>2, Kept, TypeGroupsPrime DEF WriteHeader
<1>5. CASE WriteBody(t)
  <2>1. WritesOK'
    BY <1>3, <1>5 DEF WriteBody, WritesOK
  <2>2. ReturnFromSend(t, TRUE) /\ peer' = peer
    BY <1>5 DEF WriteBody
  <2>3. QED BY <2>1, <2>2, ReturnTypes, Kept, TypeGroupsPrime, Zenon DEF socket
<1>6. CASE WriteFails(t)
  <2>1. /\ ReturnFromSend(t, FALSE) /\ peer' = None
        /\ s_writeMutex' = None /\ stream' = stream
    BY <1>6 DEF WriteFails
  <2>2. SocketOK' /\ WritesOK'
    BY <2>1, ReturnTypes, TypeGroups, Zenon DEF SocketOK, WritesOK
  <2>3. QED BY <2>1, <2>2, ReturnTypes, TypeGroupsPrime, Zenon
<1>7. CASE StoreNITZ(t)
  <2>1. NitzOK'
    BY <1>7, TypeGroups DEF StoreNITZ, NitzOK, ThreadsOK, nitz
  <2>2. ThreadsOK'
    BY <1>7, TypeGroups, NoMessageType DEF StoreNITZ, ThreadsOK, Places
  <2>3. QED BY <1>7, <2>1, <2>2, Kept, TypeGroupsPrime DEF StoreNITZ
<1>8. QED BY <1>1, <1>2, <1>4, <1>5, <1>6, <1>7 DEF Sending

LEMMA CompleteTypeOK ==
  ASSUME TypeOK, NEW t \in Threads, NEW p \in Cells, RIL_onRequestComplete(t, p)
  PROVE  TypeOK'
<1>1. info[p].token \in Nat /\ info[p].conn \in 0..MaxConns
  BY TypeGroups, Bounds DEF RequestsOK, RequestInfos
<1>2. Message("reply", info[p].token, info[p].conn) \in Messages
  BY <1>1, MessageType
<1>3. /\ owed' = owed \ {p}
      /\ UNCHANGED <<events, socket, info, current, s_writeMutex, stream, nitz, clients, asked, unsol>>
      /\ s_pendingRequests' \in {s_pendingRequests, Unlinked(p)}
      /\ allocated' \in {allocated, allocated \ {p}}
      /\ \/ UNCHANGED <<pc, msg, holds>>
         \/ /\ StartSend(t, Message("reply", info[p].token, info[p].conn))
            /\ holds' = [holds EXCEPT ![t] = {p}]
  BY Zenon DEF RIL_onRequestComplete
<1>4. RequestsOK'
  BY <1>3, TypeGroups, Zenon DEF RequestsOK, Unlinked
<1>5. ThreadsOK'
  <2>1. CASE UNCHANGED <<pc, msg, holds>>
    BY <2>1, Kept
  <2>2. CASE /\ StartSend(t, Message("reply", info[p].token, info[p].conn))
             /\ holds' = [holds EXCEPT ![t] = {p}]
    <3>1. holds' \in [Threads -> SUBSET Cells]
      BY <2>2, TypeGroups DEF ThreadsOK
    <3>2. QED BY <2>2, <3>1, <1>2, StartSendTypes DEF ThreadsOK
  <2>3. QED BY <1>3, <2>1, <2>2
<1>6. QED BY <1>3, <1>4, <1>5, Kept, TypeGroupsPrime

LEMMA UnsolicitedTypeOK ==
  ASSUME TypeOK, NEW t \in Threads, VendorCalls(t)
  PROVE  TypeOK'
<1>1. PICK what \in {"radio", "nitz"} : RIL_onUnsolicitedResponse(t, what)
  BY DEF VendorCalls
<1>2. unsol + 1 \in Nat /\ 0 \in 0..MaxConns /\ CountersOK'
  BY <1>1, TypeGroups, Bounds DEF RIL_onUnsolicitedResponse, CountersOK
<1>3. Message(what, unsol + 1, 0) \in Messages
  BY <1>2, MessageType
<1>4. ThreadsOK'
  BY <1>1, <1>3, StartSendTypes, TypeGroups DEF RIL_onUnsolicitedResponse, ThreadsOK
<1>5. QED BY <1>1, <1>2, <1>4, Kept, TypeGroupsPrime DEF RIL_onUnsolicitedResponse

-----------------------------------------------------------------------------
(* Types: clients and handlers *)

LEMMA ClientTypeOK ==
  ASSUME TypeOK, Client
  PROVE  TypeOK'
<1> USE Bounds
<1>1. CASE Connect
  <2>1. conns + 1 \in Conns
    BY <1>1, TypeGroups DEF Connect, ClientsOK, Conns
  <2>2. ClientsOK'
    BY <1>1, <2>1, TypeGroups, AppendProperties DEF Connect, ClientsOK, Conns
  <2>3. QED BY <1>1, <2>2, Kept, TypeGroupsPrime DEF Connect
<1>2. ASSUME NEW c \in Conns, NEW kind \in {"request", "unsupported", "malformed"},
             ClientSends(c, kind)
      PROVE  TypeOK'
  <2>1. asked + 1 \in 1..MaxRequests /\ CountersOK'
    BY <1>2, TypeGroups DEF ClientSends, CountersOK
  <2>2. [id |-> asked + 1, kind |-> kind] \in Records
    BY <2>1 DEF Records
  <2>3. inbox \in [Conns -> Seq(Records)]
    BY TypeGroups DEF ClientsOK
  <2>4. inbox' \in [Conns -> Seq(Records)]
    BY <1>2, <2>2, <2>3, AppendProperties DEF ClientSends
  <2>5. ClientsOK'
    BY <1>2, <2>4, TypeGroups, Zenon DEF ClientSends, ClientsOK
  <2>6. QED BY <1>2, <2>1, <2>5, Kept, TypeGroupsPrime DEF ClientSends
<1>3. ASSUME NEW c \in Conns, ClientHangsUp(c) PROVE TypeOK'
  <2>1. ClientsOK'
    BY <1>3, TypeGroups, Zenon DEF ClientHangsUp, ClientsOK
  <2>2. QED BY <1>3, <2>1, Kept, TypeGroupsPrime DEF ClientHangsUp
<1>4. QED BY <1>1, <1>2, <1>3 DEF Client

\* The handlers that change nothing but the loop's own variables.
LEMMA PlainHandlers ==
  ASSUME TypeOK, RejectClient \/ SelectFails \/ CommandsReady \/ NoMoreRecords \/ ReadFails
  PROVE  TypeOK'
<1>1. loop' \in Handlers
  BY DEF RejectClient, SelectFails, CommandsReady, NoMoreRecords, ReadFails, Handlers
<1>2. UNCHANGED <<listening, watching, socket, requests, sending, nitz, clients, asked, unsol>>
  BY Zenon DEF RejectClient, SelectFails, CommandsReady, NoMoreRecords, ReadFails
<1>3. LoopOK'
  BY <1>1, <1>2, TypeGroups, Zenon DEF LoopOK
<1>4. QED BY <1>2, <1>3, Kept, TypeGroupsPrime

LEMMA EnqueueTypes ==
  ASSUME TypeOK, NEW p \in Cells, NEW id \in 0..MaxRequests, NEW conn \in 0..MaxConns,
         NEW local \in BOOLEAN, Enqueue(p, id, conn, local)
  PROVE  /\ s_pendingRequests' \subseteq Cells /\ allocated' \subseteq Cells
         /\ info' \in [Cells -> RequestInfos]
<1>1. RequestInfo(id, conn, local) \in RequestInfos
  BY RequestInfoType
<1>2. RequestsOK
  BY TypeGroups
<1>3. s_pendingRequests' \subseteq Cells /\ allocated' \subseteq Cells
  BY <1>2, Zenon DEF Enqueue, RequestsOK
<1>4. info' = [info EXCEPT ![p] = RequestInfo(id, conn, local)]
  BY DEF Enqueue
<1>5. QED BY <1>1, <1>2, <1>3, <1>4 DEF RequestsOK

LEMMA RecordTypeOK ==
  ASSUME TypeOK, NextRecord
  PROVE  TypeOK'
<1>1. PICK p \in Cells : ProcessCommandBuffer(p)
  BY DEF NextRecord
<1>2. peer \in Conns /\ inbox[peer] \in Seq(Records) /\ inbox[peer] # <<>>
  BY TypeGroups DEF NextRecord, SocketOK, ClientsOK
<1>3. Head(inbox[peer]) \in Records /\ Tail(inbox[peer]) \in Seq(Records)
  BY <1>2, HeadTailProperties, Zenon
<1>4. Head(inbox[peer]).id \in 0..MaxRequests
  BY <1>3, Bounds DEF Records
<1>5. peer \in 0..MaxConns
  BY <1>2, Bounds DEF Conns
<1>6. ClientsOK'
  BY <1>2, <1>3, TypeGroups DEF NextRecord, ClientsOK
<1>7. RequestsOK /\ LoopOK
  BY TypeGroups
<1>8. RequestsOK' /\ loop' \in Handlers
  <2> DEFINE id == Head(inbox[peer]).id
  <2>1. CASE UNCHANGED <<loop, requests>>
    BY <2>1, <1>7, Kept DEF LoopOK
  <2>2. CASE Enqueue(p, id, peer, FALSE) /\ UNCHANGED <<loop, current, owed>>
    BY <2>2, <1>4, <1>5, <1>7, EnqueueTypes, Zenon DEF RequestsOK, LoopOK
  <2>3. CASE /\ Enqueue(p, id, peer, FALSE)
             /\ current' = p
             /\ owed' = owed \cup {p}
             /\ loop' = "vendor"
    BY <2>3, <1>4, <1>5, <1>7, EnqueueTypes, Zenon DEF RequestsOK, Handlers
  <2>4. QED BY <1>1, <2>1, <2>2, <2>3, Zenon DEF ProcessCommandBuffer
<1>9. LoopOK'
  BY <1>7, <1>8, Zenon DEF NextRecord, LoopOK
<1>10. QED BY <1>6, <1>8, <1>9, Kept, TypeGroupsPrime DEF NextRecord

LEMMA DebugTypeOK ==
  ASSUME TypeOK, Debug
  PROVE  TypeOK'
<1>1. RequestsOK /\ LoopOK /\ SocketOK
  BY TypeGroups
<1>2. ASSUME NEW p \in Cells, DebugRequest(p) PROVE TypeOK'
  <2>1. asked + 1 \in 0..MaxRequests /\ 0 \in 0..MaxConns /\ TRUE \in BOOLEAN /\ CountersOK'
    BY <1>2, Bounds, TypeGroups DEF DebugRequest, CountersOK
  <2>2. Enqueue(p, asked + 1, 0, TRUE) /\ current' = p /\ owed' = owed \cup {p}
    BY <1>2, Zenon DEF DebugRequest
  <2>3. RequestsOK'
    BY <1>1, <2>1, <2>2, EnqueueTypes, Zenon DEF RequestsOK
  <2>4. LoopOK'
    BY <1>1, <1>2, Zenon DEF DebugRequest, LoopOK, Handlers
  <2>5. QED BY <1>2, <2>1, <2>3, <2>4, Kept, TypeGroupsPrime DEF DebugRequest
<1>3. CASE DebugClose
  <2>1. RequestsOK' /\ SocketOK' /\ LoopOK'
    BY <1>1, <1>3, Zenon DEF DebugClose, RequestsOK, SocketOK, LoopOK, Handlers
  <2>2. QED BY <1>3, <2>1, Kept, TypeGroupsPrime DEF DebugClose
<1>4. QED BY <1>2, <1>3 DEF Debug

LEMMA CancelledTypes ==
  ASSUME TypeOK
  PROVE  [p \in Cells |-> Cancelled(info[p], p)] \in [Cells -> RequestInfos]
<1> SUFFICES ASSUME NEW p \in Cells PROVE Cancelled(info[p], p) \in RequestInfos
  OBVIOUS
<1>1. info[p] \in RequestInfos
  BY TypeGroups DEF RequestsOK
<1>2. [info[p] EXCEPT !.cancelled = TRUE] \in RequestInfos
  BY <1>1 DEF RequestInfos
<1>3. QED BY <1>1, <1>2 DEF Cancelled

LEMMA EventLoopTypeOK ==
  ASSUME TypeOK, EventLoop
  PROVE  TypeOK'
<1>1. LoopOK /\ SocketOK /\ RequestsOK /\ ThreadsOK /\ NitzOK /\ ClientsOK
  BY TypeGroups
<1>2. CASE AcceptClient
  <2>1. Head(backlog) \in Conns /\ Tail(backlog) \in Seq(Conns)
    BY <1>1, <1>2, HeadTailProperties DEF AcceptClient, ClientsOK
  <2>2. LoopOK' /\ SocketOK' /\ ClientsOK'
    BY <1>1, <1>2, <2>1, Zenon DEF AcceptClient, LoopOK, SocketOK, ClientsOK, Handlers
  <2>3. QED BY <1>2, <2>2, Kept, TypeGroupsPrime DEF AcceptClient
<1>3. CASE WelcomeClient
  <2>1. Message("radio", 0, 0) \in Messages
    BY Bounds, MessageType
  <2>2. pc' \in [Threads -> Places] /\ msg' \in [Threads -> Messages]
    BY <1>3, <2>1, LoopIsThread, StartSendTypes DEF WelcomeClient
  <2>3. ThreadsOK' /\ LoopOK'
    BY <1>1, <1>3, <2>2, Zenon DEF WelcomeClient, ThreadsOK, LoopOK, Handlers
  <2>4. QED BY <1>3, <2>3, Kept, TypeGroupsPrime DEF WelcomeClient
<1>4. CASE SendLastNITZ
  <2>1. CASE nitz = None /\ loop' = "top" /\ UNCHANGED <<pc, msg>>
    <3>1. ThreadsOK' /\ LoopOK'
      BY <1>1, <1>4, <2>1, Zenon DEF SendLastNITZ, ThreadsOK, LoopOK, Handlers
    <3>2. QED BY <1>4, <3>1, Kept, TypeGroupsPrime DEF SendLastNITZ
  <2>2. CASE nitz # None /\ loop' = "free" /\ StartSend(Loop, nitz)
    <3>1. nitz \in Messages
      BY <1>1, <2>2 DEF NitzOK
    <3>2. pc' \in [Threads -> Places] /\ msg' \in [Threads -> Messages]
      BY <2>2, <3>1, LoopIsThread, StartSendTypes
    <3>3. ThreadsOK' /\ LoopOK'
      BY <1>1, <1>4, <2>2, <3>2, Zenon DEF SendLastNITZ, ThreadsOK, LoopOK, Handlers
    <3>4. QED BY <1>4, <3>3, Kept, TypeGroupsPrime DEF SendLastNITZ
  <2>3. QED BY <1>4, <2>1, <2>2 DEF SendLastNITZ
<1>5. CASE FreeLastNITZ
  <2>1. NitzOK' /\ LoopOK'
    BY <1>1, <1>5, Zenon DEF FreeLastNITZ, NitzOK, LoopOK, Handlers, nitz
  <2>2. QED BY <1>5, <2>1, Kept, TypeGroupsPrime DEF FreeLastNITZ
<1>6. CASE OnRequestReturns
  <2>1. LoopOK' /\ RequestsOK'
    BY <1>1, <1>6, Zenon DEF OnRequestReturns, LoopOK, RequestsOK, Handlers
  <2>2. QED BY <1>6, <2>1, Kept, TypeGroupsPrime DEF OnRequestReturns
<1>7. CASE CloseCommand
  <2>1. LoopOK' /\ SocketOK'
    BY <1>1, <1>7, Zenon DEF CloseCommand, LoopOK, SocketOK, Handlers
  <2>2. QED BY <1>7, <2>1, Kept, TypeGroupsPrime DEF CloseCommand
<1>8. CASE ClearCommand
  <2>1. LoopOK' /\ SocketOK'
    BY <1>1, <1>8, Zenon DEF ClearCommand, LoopOK, SocketOK, Handlers
  <2>2. QED BY <1>8, <2>1, Kept, TypeGroupsPrime DEF ClearCommand
<1>9. CASE CancelPending
  <2>1. LoopOK' /\ RequestsOK'
    BY <1>1, <1>9, CancelledTypes, Zenon DEF CancelPending, LoopOK, RequestsOK, Handlers
  <2>2. QED BY <1>9, <2>1, Kept, TypeGroupsPrime DEF CancelPending
<1>10. QED
  BY <1>2, <1>3, <1>4, <1>5, <1>6, <1>7, <1>8, <1>9, PlainHandlers, RecordTypeOK DEF EventLoop

LEMMA NextTypeOK == TypeOK /\ [Next]_vars => TypeOK'
<1> SUFFICES ASSUME TypeOK, [Next]_vars PROVE TypeOK'
  OBVIOUS
<1>1. ASSUME NEW p \in Cells, Completion(p) PROVE TypeOK'
  <2>1. PICK t \in Completers : RIL_onRequestComplete(t, p)
    BY <1>1 DEF Completion
  <2>2. QED BY <2>1, ThreadsAssumption, CompleteTypeOK
<1>2. CASE UNCHANGED vars
  BY <1>2, Kept, TypeGroupsPrime DEF vars
<1>3. QED
  BY <1>1, <1>2, ClientTypeOK, EventLoopTypeOK, DebugTypeOK, SendingTypeOK, UnsolicitedTypeOK DEF Next

\* Every variable keeps its type, for any number of threads, clients and requests: a token
\* is a number a client sent, s_fdCommand the one descriptor or -1 (ril.cpp).
THEOREM TypeCorrect == Spec => []TypeOK
BY InitTypeOK, NextTypeOK, PTL DEF Spec

-----------------------------------------------------------------------------
(* Who owns a RequestInfo *)

\* A thread that is in no call of sendResponseRaw has nothing to free.
EmptyHanded == \A t \in Threads : pc[t] \in {"idle", "store"} => holds[t] = {}

CellsInv == CellsOwned /\ EmptyHanded

LEMMA CellsKept ==
  ASSUME CellsInv, UNCHANGED <<s_pendingRequests, allocated, holds>>,
         \A t \in Threads : pc'[t] \in {"idle", "store"} => pc[t] \in {"idle", "store"}
  PROVE  CellsInv'
<1>1. CellsOwned'
  BY DEF CellsInv, CellsOwned
<1>2. EmptyHanded'
  BY DEF CellsInv, EmptyHanded
<1>3. QED BY <1>1, <1>2 DEF CellsInv

LEMMA ReturnCells ==
  ASSUME TypeOK, CellsInv, NEW t \in Threads, NEW sent \in BOOLEAN, ReturnFromSend(t, sent)
  PROVE  CellsInv'
<1>1. /\ s_pendingRequests' = s_pendingRequests
      /\ allocated' = allocated \ holds[t]
      /\ holds'[t] = {}
      /\ \A u \in Threads : u # t => holds'[u] = holds[u] /\ pc'[u] = pc[u]
  BY TypeGroups DEF ReturnFromSend, ThreadsOK
<1>2. CellsOwned'
  <2>1. ASSUME NEW p \in Cells
        PROVE  p \in allocated' <=> p \in s_pendingRequests' \/ \E u \in Threads : p \in holds'[u]
    BY <1>1, Zenon DEF CellsInv, CellsOwned
  <2>2. \A u \in Threads : holds'[u] \cap s_pendingRequests' = {}
    BY <1>1 DEF CellsInv, CellsOwned
  <2>3. \A u, v \in Threads : u # v => holds'[u] \cap holds'[v] = {}
    BY <1>1 DEF CellsInv, CellsOwned
  <2>4. QED BY <2>1, <2>2, <2>3 DEF CellsOwned
<1>3. EmptyHanded'
  BY <1>1 DEF CellsInv, EmptyHanded
<1>4. QED BY <1>2, <1>3 DEF CellsInv

LEMMA EnqueueCells ==
  ASSUME TypeOK, CellsInv, NEW p \in Cells, p \notin allocated,
         allocated' = allocated \cup {p}, s_pendingRequests' = s_pendingRequests \cup {p},
         UNCHANGED <<pc, holds>>
  PROVE  CellsInv'
<1>1. \A t \in Threads : p \notin holds[t]
  BY DEF CellsInv, CellsOwned
<1>2. CellsOwned'
  <2>1. ASSUME NEW q \in Cells
        PROVE  q \in allocated' <=> q \in s_pendingRequests' \/ \E u \in Threads : q \in holds'[u]
    BY Zenon DEF CellsInv, CellsOwned
  <2>2. \A u \in Threads : holds'[u] \cap s_pendingRequests' = {}
    BY <1>1 DEF CellsInv, CellsOwned
  <2>3. \A u, v \in Threads : u # v => holds'[u] \cap holds'[v] = {}
    BY DEF CellsInv, CellsOwned
  <2>4. QED BY <2>1, <2>2, <2>3 DEF CellsOwned
<1>3. EmptyHanded'
  BY DEF CellsInv, EmptyHanded
<1>4. QED BY <1>2, <1>3 DEF CellsInv

LEMMA CompleteCells ==
  ASSUME TypeOK, CellsInv, NEW t \in Threads, NEW p \in Cells, RIL_onRequestComplete(t, p)
  PROVE  CellsInv'
<1>1. pc[t] = "idle" /\ holds[t] = {}
  BY DEF RIL_onRequestComplete, MayComplete, CellsInv, EmptyHanded
<1>2. CASE UNCHANGED <<s_pendingRequests, allocated, pc, holds>>
  BY <1>2, CellsKept
<1>3. CASE /\ p \in s_pendingRequests
           /\ s_pendingRequests' = Unlinked(p)
           /\ allocated' = allocated \ {p}
           /\ UNCHANGED <<pc, holds>>
  <2>1. \A u \in Threads : p \notin holds[u]
    BY <1>3 DEF CellsInv, CellsOwned
  <2>2. CellsOwned'
    <3>1. ASSUME NEW q \in Cells
          PROVE  q \in allocated' <=> q \in s_pendingRequests' \/ \E u \in Threads : q \in holds'[u]
      BY <1>3, <2>1, Zenon DEF CellsInv, CellsOwned, Unlinked
    <3>2. \A u \in Threads : holds'[u] \cap s_pendingRequests' = {}
      BY <1>3 DEF CellsInv, CellsOwned, Unlinked
    <3>3. \A u, v \in Threads : u # v => holds'[u] \cap holds'[v] = {}
      BY <1>3 DEF CellsInv, CellsOwned
    <3>4. QED BY <3>1, <3>2, <3>3 DEF CellsOwned
  <2>3. EmptyHanded'
    BY <1>3 DEF CellsInv, EmptyHanded
  <2>4. QED BY <2>2, <2>3 DEF CellsInv
<1>4. CASE /\ p \in s_pendingRequests
           /\ s_pendingRequests' = Unlinked(p)
           /\ allocated' = allocated
           /\ pc' = [pc EXCEPT ![t] = "send"]
           /\ holds' = [holds EXCEPT ![t] = {p}]
  <2>1. /\ holds'[t] = {p} /\ pc'[t] = "send"
        /\ \A u \in Threads : u # t => holds'[u] = holds[u] /\ pc'[u] = pc[u]
    BY <1>4, TypeGroups DEF ThreadsOK
  <2>2. /\ p \in allocated
        /\ \A u \in Threads : p \notin holds[u]
    BY <1>4 DEF CellsInv, CellsOwned
  <2>3. CellsOwned'
    <3>1. ASSUME NEW q \in Cells
          PROVE  q \in allocated' <=> q \in s_pendingRequests' \/ \E u \in Threads : q \in holds'[u]
      <4>1. CASE q = p
        BY <1>4, <2>1, <2>2, <4>1
      <4>2. CASE q # p
        <5>1. \A u \in Threads : q \in holds'[u] <=> q \in holds[u]
          BY <1>1, <2>1, <4>2
        <5>2. q \in s_pendingRequests' <=> q \in s_pendingRequests
          BY <1>4, <4>2 DEF Unlinked
        <5>3. QED BY <1>4, <5>1, <5>2, Zenon DEF CellsInv, CellsOwned
      <4>3. QED BY <4>1, <4>2
    <3>2. \A u \in Threads : holds'[u] \cap s_pendingRequests' = {}
      BY <1>4, <2>1 DEF CellsInv, CellsOwned, Unlinked
    <3>3. \A u, v \in Threads : u # v => holds'[u] \cap holds'[v] = {}
      BY <2>1, <2>2 DEF CellsInv, CellsOwned
    <3>4. QED BY <3>1, <3>2, <3>3 DEF CellsOwned
  <2>4. EmptyHanded'
    BY <2>1 DEF CellsInv, EmptyHanded
  <2>5. QED BY <2>3, <2>4 DEF CellsInv
<1>5. QED
  BY <1>2, <1>3, <1>4, Zenon DEF RIL_onRequestComplete, StartSend

\* Steps of a thread that leave every RequestInfo where it is.
LEMMA StepKeepsCells ==
  ASSUME TypeOK, CellsInv, NEW t \in Threads, NEW to,
         pc' = [pc EXCEPT ![t] = to],
         to \in {"idle", "store"} => pc[t] \in {"idle", "store"},
         UNCHANGED <<s_pendingRequests, allocated, holds>>
  PROVE  CellsInv'
<1>1. \A u \in Threads : pc'[u] \in {"idle", "store"} => pc[u] \in {"idle", "store"}
  BY TypeGroups DEF ThreadsOK
<1>2. QED BY <1>1, CellsKept

LEMMA NextCells == TypeOK /\ CellsInv /\ [Next]_vars => CellsInv'
<1> SUFFICES ASSUME TypeOK, CellsInv, [Next]_vars PROVE CellsInv'
  OBVIOUS
<1>1. ASSUME NEW t \in Threads, Sending(t) PROVE CellsInv'
  <2>1. CASE CheckSocket(t)
    <3>1. CASE ReturnFromSend(t, FALSE)
      BY <3>1, ReturnCells
    <3>2. CASE pc' = [pc EXCEPT ![t] = "lock"] /\ UNCHANGED <<requests, holds>>
      BY <3>2, StepKeepsCells DEF requests
    <3>3. QED BY <2>1, <3>1, <3>2 DEF CheckSocket
  <2>2. CASE LockWrite(t)
    BY <2>2, StepKeepsCells DEF LockWrite, requests
  <2>3. CASE WriteHeader(t)
    BY <2>3, StepKeepsCells DEF WriteHeader, requests
  <2>4. CASE WriteBody(t)
    BY <2>4, ReturnCells DEF WriteBody
  <2>5. CASE WriteFails(t)
    BY <2>5, ReturnCells DEF WriteFails
  <2>6. CASE StoreNITZ(t)
    BY <2>6, StepKeepsCells DEF StoreNITZ, requests
  <2>7. QED BY <1>1, <2>1, <2>2, <2>3, <2>4, <2>5, <2>6 DEF Sending
<1>2. ASSUME NEW t \in Threads, VendorCalls(t) PROVE CellsInv'
  BY <1>2, StepKeepsCells DEF VendorCalls, RIL_onUnsolicitedResponse, StartSend, requests
<1>3. ASSUME NEW p \in Cells, Completion(p) PROVE CellsInv'
  <2>1. PICK t \in Completers : RIL_onRequestComplete(t, p)
    BY <1>3 DEF Completion
  <2>2. QED BY <2>1, ThreadsAssumption, CompleteCells
<1>4. CASE UNCHANGED <<s_pendingRequests, allocated, holds, pc>>
  BY <1>4, CellsKept
<1>5. CASE Client
  BY <1>4, <1>5 DEF Client, Connect, ClientSends, ClientHangsUp, requests, sending
<1>6. CASE Debug
  <2>1. CASE DebugClose
    BY <1>4, <2>1 DEF DebugClose, sending
  <2>2. ASSUME NEW p \in Cells, DebugRequest(p) PROVE CellsInv'
    BY <2>2, EnqueueCells DEF DebugRequest, Enqueue, sending
  <2>3. QED BY <1>6, <2>1, <2>2 DEF Debug
<1>7. CASE EventLoop
  <2>1. CASE NextRecord
    <3>1. PICK p \in Cells : ProcessCommandBuffer(p)
      BY <2>1 DEF NextRecord
    <3>2. UNCHANGED <<pc, holds>>
      BY <2>1 DEF NextRecord, sending
    <3>3. CASE UNCHANGED requests
      BY <1>4, <3>2, <3>3 DEF requests
    <3>4. CASE Enqueue(p, Head(inbox[peer]).id, peer, FALSE)
      BY <3>2, <3>4, EnqueueCells DEF Enqueue
    <3>5. QED BY <3>1, <3>3, <3>4, Zenon DEF ProcessCommandBuffer
  <2>2. CASE WelcomeClient
    BY <2>2, LoopIsThread, StepKeepsCells DEF WelcomeClient, StartSend, requests
  <2>3. CASE SendLastNITZ
    <3>1. CASE UNCHANGED <<pc, msg>>
      BY <1>4, <2>3, <3>1 DEF SendLastNITZ, requests
    <3>2. CASE StartSend(Loop, nitz)
      BY <2>3, <3>2, LoopIsThread, StepKeepsCells DEF SendLastNITZ, StartSend, requests
    <3>3. QED BY <2>3, <3>1, <3>2 DEF SendLastNITZ
  <2>4. CASE AcceptClient \/ FreeLastNITZ \/ CloseCommand \/ ClearCommand
    BY <1>4, <2>4 DEF AcceptClient, FreeLastNITZ, CloseCommand, ClearCommand, requests, sending
  <2>5. CASE RejectClient \/ SelectFails \/ CommandsReady \/ NoMoreRecords \/ ReadFails
    BY <1>4, <2>5 DEF RejectClient, SelectFails, CommandsReady, NoMoreRecords, ReadFails,
                      requests, sending
  <2>6. CASE OnRequestReturns \/ CancelPending
    BY <1>4, <2>6 DEF OnRequestReturns, CancelPending, sending
  <2>7. QED BY <1>7, <2>1, <2>2, <2>3, <2>4, <2>5, <2>6 DEF EventLoop
<1>8. CASE UNCHANGED vars
  BY <1>4, <1>8 DEF vars, requests, sending
<1>9. QED BY <1>1, <1>2, <1>3, <1>5, <1>6, <1>7, <1>8 DEF Next

\* However threads interleave, and however often a token is completed, each RequestInfo that
\* is not freed is in the list or with one thread, and a freed one with none: no leak and no
\* double free (checkAndDequeueRequestInfo, RIL_onRequestComplete).
THEOREM CellsCorrect == Spec => []CellsOwned
<1>1. Init => CellsInv
  BY DEF Init, CellsInv, CellsOwned, EmptyHanded
<1>2. CellsInv => CellsOwned
  BY DEF CellsInv
<1>3. QED BY <1>1, <1>2, TypeCorrect, NextCells, PTL DEF Spec

-----------------------------------------------------------------------------
(* Replies reach the client that asked *)

\* What the reference RIL does: it completes requests on the thread of the event loop.
LoopCompletes == Completers \subseteq {Loop}

\* The loop is busy with a connection, or will be when it comes back from vendor code.
Serving ==
  \/ loop \in {"accepted", "welcome", "free", "read", "close", "clear", "cancel"}
  \/ loop = "vendor" /\ ~info[current].local
  \/ watching

Owing(p) == p \in s_pendingRequests /\ ~info[p].local /\ ~info[p].cancelled

SendingReply(t) == pc[t] \in {"send", "lock", "header", "body"} /\ msg[t].what = "reply"

\* One connection at a time: the loop listens only when it serves none and every pending
\* request is cancelled; a request that is not, and a reply on its way, belong to the
\* connection that is open, if one is.
OneAtATime ==
  /\ listening => ~Serving
  /\ \A p \in Cells : Owing(p) => ~listening /\ peer \in {None, info[p].conn}
RepliesUnderWay ==
  \A t \in Threads : SendingReply(t) => t = Loop /\ peer \in {None, msg[t].conn}
NitzOnly ==
  /\ nitz # None => nitz.what = "nitz"
  /\ \A t \in Threads : pc[t] = "store" => msg[t].what = "nitz"

RepliesInv == RepliesBelong /\ OneAtATime /\ RepliesUnderWay /\ NitzOnly

LEMMA InitReplies == Init => RepliesInv
<1> SUFFICES ASSUME Init PROVE RepliesInv
  OBVIOUS
<1>1. RepliesBelong
  BY DEF Init, RepliesBelong
<1>2. OneAtATime
  BY DEF Init, OneAtATime, Serving, Owing
<1>3. RepliesUnderWay
  BY DEF Init, RepliesUnderWay, SendingReply
<1>4. NitzOnly
  BY DEF Init, NitzOnly, nitz
<1>5. QED BY <1>1, <1>2, <1>3, <1>4 DEF RepliesInv

LEMMA OneKept ==
  ASSUME OneAtATime, UNCHANGED <<listening, watching, loop, peer, s_pendingRequests, info, current>>
  PROVE  OneAtATime'
BY DEF OneAtATime, Serving, Owing

LEMMA UnderWayKept ==
  ASSUME RepliesUnderWay, UNCHANGED <<pc, msg>>, peer' \in {peer, None}
  PROVE  RepliesUnderWay'
BY DEF RepliesUnderWay, SendingReply

LEMMA NitzKept ==
  ASSUME NitzOnly, UNCHANGED <<pc, msg, nitz>>
  PROVE  NitzOnly'
BY DEF NitzOnly, nitz

LEMMA BelongKept ==
  ASSUME RepliesBelong, UNCHANGED stream
  PROVE  RepliesBelong'
BY DEF RepliesBelong

\* A thread that moves on within sendResponseRaw, or starts something that is no reply.
LEMMA StepUnderWay ==
  ASSUME TypeOK, RepliesUnderWay, NitzOnly, NEW t \in Threads, NEW to, NEW m,
         pc' = [pc EXCEPT ![t] = to], msg' = [msg EXCEPT ![t] = m],
         \/ to = "idle"
         \/ to \notin {"idle", "store"} /\ m.what # "reply"
         \/ SendingReply(t) /\ to \in {"lock", "header", "body"} /\ m = msg[t]
         \/ to = "store" /\ m.what = "nitz",
         peer' \in {peer, None}
  PROVE  /\ RepliesUnderWay'
         /\ \A u \in Threads : pc'[u] = "store" => msg'[u].what = "nitz"
<1>1. /\ pc'[t] = to /\ msg'[t] = m
      /\ \A u \in Threads : u # t => pc'[u] = pc[u] /\ msg'[u] = msg[u]
  BY TypeGroups DEF ThreadsOK
<1>2. RepliesUnderWay'
  BY <1>1 DEF RepliesUnderWay, SendingReply
<1>3. QED BY <1>1, <1>2 DEF NitzOnly, SendingReply

LEMMA WriteBelongs ==
  ASSUME TypeOK, RepliesInv, NEW t \in Threads, NEW part, pc[t] \in {"header", "body"},
         CanWrite, Written(t, part)
  PROVE  RepliesBelong'
<1>1. peer \in Conns /\ stream \in [Conns -> Seq(Parts)]
  BY TypeGroups DEF CanWrite, SocketOK, WritesOK
<1>2. msg[t].what = "reply" => msg[t].conn = peer
  BY <1>1 DEF RepliesInv, RepliesUnderWay, SendingReply, CanWrite
<1>3. SUFFICES ASSUME NEW c \in Conns, NEW i \in DOMAIN stream'[c],
                      stream'[c][i].msg.what = "reply"
               PROVE  stream'[c][i].msg.conn = c
  BY DEF RepliesBelong
<1>4. CASE c # peer
  <2>1. stream'[c] = stream[c]
    BY <1>1, <1>4 DEF Written
  <2>2. QED BY <1>3, <2>1 DEF RepliesInv, RepliesBelong
<1>5. CASE c = peer
  <2> DEFINE x == [part |-> part, msg |-> msg[t]]
  <2>1. stream'[c] = Append(stream[c], x)
    BY <1>1, <1>5 DEF Written
  <2>2. stream[c] \in Seq(Parts)
    BY <1>1
  <2>3. CASE i \in 1..Len(stream[c])
    <3>1. stream'[c][i] = stream[c][i] /\ i \in DOMAIN stream[c]
      BY <2>1, <2>2, <2>3
    <3>2. QED BY <1>3, <3>1 DEF RepliesInv, RepliesBelong
  <2>4. CASE i = Len(stream[c]) + 1
    <3>1. stream'[c][i] = x
      BY <2>1, <2>2, <2>4
    <3>2. QED BY <1>2, <1>3, <1>5, <3>1
  <2>5. i \in 1..(Len(stream[c]) + 1)
    BY <1>3, <2>1, <2>2
  <2>6. QED BY <2>2, <2>3, <2>4, <2>5
<1>6. QED BY <1>4, <1>5

\* The end of a call of sendResponseRaw.
LEMMA ReturnReplies ==
  ASSUME TypeOK, RepliesInv, NEW t \in Threads, NEW sent \in BOOLEAN, ReturnFromSend(t, sent),
         peer' \in {peer, None}, RepliesBelong'
  PROVE  RepliesInv'
<1>1. /\ UNCHANGED <<events, s_pendingRequests, info, current, nitz>>
      /\ pc' = [pc EXCEPT ![t] = AfterSend(t, sent)]
      /\ msg' = IF AfterSend(t, sent) = "store" THEN msg ELSE [msg EXCEPT ![t] = NoMessage]
  BY DEF ReturnFromSend
<1>2. OneAtATime'
  BY <1>1 DEF RepliesInv, OneAtATime, Serving, Owing, events
<1>3. PICK m : msg' = [msg EXCEPT ![t] = m] /\ (AfterSend(t, sent) = "store" => m = msg[t])
  <2>1. msg = [msg EXCEPT ![t] = msg[t]]
    BY TypeGroups DEF ThreadsOK
  <2>2. QED BY <1>1, <2>1
<1>4. /\ AfterSend(t, sent) \in {"idle", "store"}
      /\ AfterSend(t, sent) = "store" => m.what = "nitz"
  BY <1>3 DEF AfterSend
<1>5. RepliesUnderWay' /\ \A u \in Threads : pc'[u] = "store" => msg'[u].what = "nitz"
  <2>1. RepliesUnderWay /\ NitzOnly
    BY DEF RepliesInv
  <2>2. QED BY <1>1, <1>3, <1>4, <2>1, StepUnderWay
<1>6. NitzOnly'
  BY <1>1, <1>5 DEF RepliesInv, NitzOnly, nitz
<1>7. QED BY <1>2, <1>5, <1>6 DEF RepliesInv

\* A completion: the reply it starts is owed to the connection that is open, if one is.
LEMMA CompleteReplies ==
  ASSUME TypeOK, RepliesInv, LoopCompletes, NEW t \in Completers, NEW p \in Cells,
         RIL_onRequestComplete(t, p)
  PROVE  RepliesInv'
<1>1. t = Loop /\ t \in Threads
  BY LoopIsThread DEF LoopCompletes
<1>2. /\ UNCHANGED <<listening, watching, loop, peer, info, current, nitz, stream>>
      /\ s_pendingRequests' \subseteq s_pendingRequests
  BY Zenon DEF RIL_onRequestComplete, Unlinked, events, socket
<1>3. RepliesBelong'
  BY <1>2, BelongKept DEF RepliesInv
<1>4. OneAtATime'
  BY <1>2 DEF RepliesInv, OneAtATime, Serving, Owing
<1>5. RepliesUnderWay /\ NitzOnly
  BY DEF RepliesInv
<1>6. CASE UNCHANGED <<pc, msg>>
  BY <1>2, <1>3, <1>4, <1>5, <1>6, UnderWayKept, NitzKept DEF RepliesInv
<1>7. CASE /\ p \in s_pendingRequests
           /\ ~info[p].local /\ ~info[p].cancelled
           /\ StartSend(t, Message("reply", info[p].token, info[p].conn))
  <2> DEFINE m == Message("reply", info[p].token, info[p].conn)
  <2>1. m.conn = info[p].conn /\ peer \in {None, info[p].conn}
    BY <1>7 DEF Message, RepliesInv, OneAtATime, Owing
  <2>2. /\ pc'[t] = "send" /\ msg'[t] = m
        /\ \A u \in Threads : u # t => pc'[u] = pc[u] /\ msg'[u] = msg[u]
    BY <1>1, <1>7, TypeGroups DEF StartSend, ThreadsOK
  <2>3. RepliesUnderWay'
    BY <1>1, <1>2, <1>5, <2>1, <2>2 DEF RepliesUnderWay, SendingReply
  <2>4. NitzOnly'
    BY <1>2, <1>5, <2>2 DEF NitzOnly, nitz
  <2>5. QED BY <1>3, <1>4, <2>3, <2>4 DEF RepliesInv
<1>8. QED BY <1>6, <1>7, Zenon DEF RIL_onRequestComplete

LEMMA SendingReplies ==
  ASSUME TypeOK, RepliesInv, NEW t \in Threads, Sending(t)
  PROVE  RepliesInv'
<1>1. RepliesBelong /\ OneAtATime /\ RepliesUnderWay /\ NitzOnly
  BY DEF RepliesInv
<1>2. ASSUME NEW to \in {"lock", "header", "body"},
             pc[t] \in {"send", "lock", "header"}, pc' = [pc EXCEPT ![t] = to],
             UNCHANGED <<events, socket, requests, msg, nitz>>, RepliesBelong'
      PROVE  RepliesInv'
  <2>1. OneAtATime'
    BY <1>1, <1>2, OneKept DEF events, socket, requests
  <2>2. /\ pc'[t] = to
        /\ \A u \in Threads : u # t => pc'[u] = pc[u]
    BY <1>2, TypeGroups DEF ThreadsOK
  <2>3. RepliesUnderWay'
    BY <1>1, <1>2, <2>2 DEF RepliesUnderWay, SendingReply, socket
  <2>4. NitzOnly'
    BY <1>1, <1>2, <2>2 DEF NitzOnly, nitz
  <2>5. QED BY <1>2, <2>1, <2>3, <2>4 DEF RepliesInv
<1>3. CASE CheckSocket(t)
  <2>1. UNCHANGED <<peer, stream>>
    BY <1>3, Zenon DEF CheckSocket, socket
  <2>2. RepliesBelong'
    BY <1>1, <2>1, BelongKept
  <2>3. CASE ReturnFromSend(t, FALSE)
    BY <2>1, <2>2, <2>3, ReturnReplies
  <2>4. CASE /\ pc' = [pc EXCEPT ![t] = "lock"]
             /\ UNCHANGED <<events, socket, requests, msg, nitz>>
    BY <1>2, <1>3, <2>2, <2>4 DEF CheckSocket
  <2>5. QED BY <1>3, <2>3, <2>4, Zenon DEF CheckSocket
<1>4. CASE LockWrite(t)
  BY <1>1, <1>2, <1>4, BelongKept, Zenon DEF LockWrite
<1>5. CASE WriteHeader(t)
  <2>1. RepliesBelong'
    BY <1>5, WriteBelongs DEF WriteHeader
  <2>2. QED BY <1>2, <1>5, <2>1, Zenon DEF WriteHeader
<1>6. CASE WriteBody(t)
  <2>1. RepliesBelong'
    BY <1>6, WriteBelongs DEF WriteBody
  <2>2. QED BY <1>6, <2>1, ReturnReplies DEF WriteBody
<1>7. CASE WriteFails(t)
  BY <1>1, <1>7, BelongKept, ReturnReplies DEF WriteFails
<1>8. CASE StoreNITZ(t)
  <2>1. nitz' = msg[t] /\ msg[t].what = "nitz"
    BY <1>1, <1>8 DEF StoreNITZ, NitzOnly, nitz
  <2>2. /\ UNCHANGED <<listening, watching, loop, peer, s_pendingRequests, info, current, stream>>
        /\ pc' = [pc EXCEPT ![t] = "idle"]
        /\ msg' = [msg EXCEPT ![t] = NoMessage]
    BY <1>8 DEF StoreNITZ, events, socket, requests
  <2>3. RepliesUnderWay' /\ \A u \in Threads : pc'[u] = "store" => msg'[u].what = "nitz"
    BY <1>1, <2>2, StepUnderWay
  <2>4. NitzOnly'
    BY <2>1, <2>3 DEF NitzOnly
  <2>5. QED BY <1>1, <2>2, <2>3, <2>4, OneKept, BelongKept DEF RepliesInv
<1>9. QED BY <1>3, <1>4, <1>5, <1>6, <1>7, <1>8 DEF Sending

\* A message that is no reply: an unsolicited one, or the two of onNewCommandConnect.
LEMMA OtherMessages ==
  ASSUME TypeOK, RepliesInv, NEW t \in Threads, NEW m, StartSend(t, m), m.what # "reply",
         UNCHANGED <<nitz, stream, peer>>, OneAtATime'
  PROVE  RepliesInv'
<1>1. RepliesBelong /\ RepliesUnderWay /\ NitzOnly
  BY DEF RepliesInv
<1>2. RepliesUnderWay' /\ \A u \in Threads : pc'[u] = "store" => msg'[u].what = "nitz"
  BY <1>1, StepUnderWay DEF StartSend
<1>3. NitzOnly'
  BY <1>1, <1>2 DEF NitzOnly, nitz
<1>4. QED BY <1>1, <1>2, <1>3, BelongKept DEF RepliesInv

LEMMA UnsolicitedReplies ==
  ASSUME TypeOK, RepliesInv, NEW t \in Threads, VendorCalls(t)
  PROVE  RepliesInv'
<1>1. PICK what \in {"radio", "nitz"} : RIL_onUnsolicitedResponse(t, what)
  BY DEF VendorCalls
<1>2. Message(what, unsol + 1, 0).what # "reply"
  BY DEF Message
<1>3. UNCHANGED <<listening, watching, loop, peer, s_pendingRequests, info, current, nitz, stream>>
  BY <1>1 DEF RIL_onUnsolicitedResponse, events, socket, requests
<1>4. OneAtATime'
  BY <1>3, OneKept DEF RepliesInv
<1>5. QED BY <1>1, <1>2, <1>3, <1>4, OtherMessages DEF RIL_onUnsolicitedResponse

\* A step that starts and ends no message.
LEMMA QuietReplies ==
  ASSUME RepliesInv, UNCHANGED <<pc, msg, nitz, stream>>, peer' \in {peer, None}, OneAtATime'
  PROVE  RepliesInv'
BY UnderWayKept, NitzKept, BelongKept DEF RepliesInv

\* A RequestInfo that is filled in anew: local, or of the connection that is open.
LEMMA EnqueueReplies ==
  ASSUME TypeOK, OneAtATime, NEW p \in Cells, NEW id, NEW conn, NEW local \in BOOLEAN,
         Enqueue(p, id, conn, local), ~local => Serving /\ conn = peer,
         UNCHANGED <<listening, peer>>, Serving' => Serving
  PROVE  OneAtATime'
<1>1. info' = [info EXCEPT ![p] = RequestInfo(id, conn, local)]
  BY DEF Enqueue
<1>2. info'[p] = RequestInfo(id, conn, local) /\ \A q \in Cells : q # p => info'[q] = info[q]
  BY <1>1, TypeGroups DEF RequestsOK
<1>3. ASSUME NEW q \in Cells, Owing(q)' PROVE ~listening' /\ peer' \in {None, info'[q].conn}
  <2>1. CASE q = p
    <3>1. ~local /\ info'[q].conn = conn
      BY <1>2, <1>3, <2>1 DEF Owing, RequestInfo
    <3>2. QED BY <3>1 DEF OneAtATime
  <2>2. CASE q # p
    <3>1. Owing(q) /\ info'[q] = info[q]
      BY <1>2, <1>3, <2>2 DEF Owing, Enqueue
    <3>2. QED BY <3>1 DEF OneAtATime
  <2>3. QED BY <2>1, <2>2
<1>4. listening' => ~Serving'
  BY DEF OneAtATime
<1>5. QED BY <1>3, <1>4 DEF OneAtATime

LEMMA RecordReplies ==
  ASSUME TypeOK, RepliesInv, NextRecord
  PROVE  RepliesInv'
<1>1. PICK p \in Cells : ProcessCommandBuffer(p)
  BY DEF NextRecord
<1>2. /\ UNCHANGED <<listening, watching, peer, pc, msg, nitz, stream>>
      /\ OneAtATime /\ loop = "read" /\ Serving
  BY Zenon DEF NextRecord, At, socket, sending, RepliesInv, Serving
<1>3. OneAtATime'
  <2>1. CASE UNCHANGED <<loop, requests>>
    BY <1>2, <2>1, OneKept DEF requests
  <2>2. CASE Enqueue(p, Head(inbox[peer]).id, peer, FALSE)
    BY <1>2, <2>2, EnqueueReplies
  <2>3. QED BY <1>1, <2>1, <2>2, Zenon DEF ProcessCommandBuffer
<1>4. QED BY <1>2, <1>3, QuietReplies

LEMMA DebugReplies ==
  ASSUME TypeOK, RepliesInv, Debug
  PROVE  RepliesInv'
<1>1. ASSUME NEW p \in Cells, DebugRequest(p) PROVE RepliesInv'
  <2>1. /\ UNCHANGED <<listening, watching, peer, pc, msg, nitz, stream>>
        /\ Enqueue(p, asked + 1, 0, TRUE) /\ loop' = "vendor" /\ current' = p
    BY <1>1, Zenon DEF DebugRequest, socket, sending
  <2>2. info'[p].local
    BY <2>1, TypeGroups DEF Enqueue, RequestInfo, RequestsOK
  <2>3. Serving' => Serving
    BY <2>1, <2>2 DEF Serving
  <2>4. OneAtATime'
    BY <2>1, <2>3, EnqueueReplies DEF RepliesInv
  <2>5. QED BY <2>1, <2>4, QuietReplies
<1>2. CASE DebugClose
  <2>1. /\ UNCHANGED <<listening, watching, s_pendingRequests, info, pc, msg, nitz, stream>>
        /\ loop' = "top" /\ peer' = None
    BY <1>2, Zenon DEF DebugClose, sending
  <2>2. OneAtATime'
    BY <2>1 DEF RepliesInv, OneAtATime, Serving, Owing
  <2>3. QED BY <2>1, <2>2, QuietReplies
<1>3. QED BY <1>1, <1>2 DEF Debug

LEMMA EventLoopReplies ==
  ASSUME TypeOK, RepliesInv, EventLoop
  PROVE  RepliesInv'
<1>1. RepliesBelong /\ OneAtATime /\ RepliesUnderWay /\ NitzOnly
  BY DEF RepliesInv
<1>2. CASE AcceptClient
  <2>1. /\ listening /\ ~listening' /\ pc[Loop] = "idle"
        /\ UNCHANGED <<s_pendingRequests, info, pc, msg, nitz, stream>>
    BY <1>2, Zenon DEF AcceptClient, At, requests, sending
  <2>2. \A p \in Cells : ~Owing(p)
    BY <1>1, <2>1 DEF OneAtATime
  <2>3. OneAtATime'
    BY <2>1, <2>2 DEF OneAtATime, Owing
  <2>4. RepliesUnderWay'
    BY <1>1, <2>1 DEF RepliesUnderWay, SendingReply
  <2>5. QED BY <1>1, <2>1, <2>3, <2>4, NitzKept, BelongKept DEF RepliesInv
<1>3. CASE WelcomeClient
  <2>1. OneAtATime'
    BY <1>1, <1>3 DEF WelcomeClient, At, OneAtATime, Serving, Owing, socket, requests
  <2>2. Message("radio", 0, 0).what # "reply"
    BY DEF Message
  <2>3. QED BY <1>3, <2>1, <2>2, LoopIsThread, OtherMessages DEF WelcomeClient, socket
<1>4. CASE SendLastNITZ
  <2>1. OneAtATime'
    BY <1>1, <1>4 DEF SendLastNITZ, At, OneAtATime, Serving, Owing, socket, requests
  <2>2. UNCHANGED <<peer, nitz, stream>>
    BY <1>4, Zenon DEF SendLastNITZ, socket
  <2>3. CASE UNCHANGED <<pc, msg>>
    BY <2>1, <2>2, <2>3, QuietReplies
  <2>4. CASE nitz # None /\ StartSend(Loop, nitz)
    BY <1>1, <2>1, <2>2, <2>4, LoopIsThread, OtherMessages DEF NitzOnly
  <2>5. QED BY <1>4, <2>3, <2>4 DEF SendLastNITZ
<1>5. CASE FreeLastNITZ
  <2>1. /\ nitz' = None
        /\ UNCHANGED <<listening, watching, peer, s_pendingRequests, info, current, pc, msg, stream>>
        /\ loop' = "top"
    BY <1>5 DEF FreeLastNITZ, nitz, socket, requests, sending
  <2>2. OneAtATime'
    BY <1>1, <2>1 DEF OneAtATime, Serving, Owing
  <2>3. NitzOnly'
    BY <1>1, <2>1 DEF NitzOnly
  <2>4. QED BY <1>1, <2>1, <2>2, <2>3, UnderWayKept, BelongKept DEF RepliesInv
<1>6. CASE RejectClient \/ SelectFails \/ CommandsReady \/ NoMoreRecords \/ ReadFails
  <2>1. /\ UNCHANGED <<listening, watching, peer, s_pendingRequests, info, current, pc, msg, nitz, stream>>
        /\ Serving' => Serving
    BY <1>6 DEF RejectClient, SelectFails, CommandsReady, NoMoreRecords, ReadFails, At, Serving,
                socket, requests, sending
  <2>2. OneAtATime'
    BY <1>1, <2>1 DEF OneAtATime, Owing
  <2>3. QED BY <2>1, <2>2, QuietReplies
<1>7. CASE OnRequestReturns
  <2>1. /\ UNCHANGED <<listening, watching, peer, s_pendingRequests, info, pc, msg, nitz, stream>>
        /\ Serving' => Serving
    BY <1>7 DEF OnRequestReturns, At, Serving, socket, sending
  <2>2. OneAtATime'
    BY <1>1, <2>1 DEF OneAtATime, Owing
  <2>3. QED BY <2>1, <2>2, QuietReplies
<1>8. CASE CloseCommand \/ ClearCommand
  <2>1. /\ UNCHANGED <<listening, watching, s_pendingRequests, info, current, pc, msg, nitz, stream>>
        /\ Serving' => Serving
        /\ peer' \in {peer, None}
    BY <1>8 DEF CloseCommand, ClearCommand, At, Serving, requests, sending
  <2>2. OneAtATime'
    BY <1>1, <2>1 DEF OneAtATime, Owing
  <2>3. QED BY <2>1, <2>2, QuietReplies
<1>9. CASE CancelPending
  <2>1. /\ UNCHANGED <<peer, s_pendingRequests, pc, msg, nitz, stream>>
        /\ watching' = FALSE /\ loop' = "top"
        /\ info' = [p \in Cells |-> Cancelled(info[p], p)]
    BY <1>9 DEF CancelPending, socket, sending
  <2>2. ~Serving'
    BY <2>1 DEF Serving
  <2>3. ASSUME NEW p \in Cells PROVE ~Owing(p)'
    <3>1. info[p] \in RequestInfos /\ info'[p] = Cancelled(info[p], p)
      BY <2>1, TypeGroups DEF RequestsOK
    <3>2. p \in s_pendingRequests => info'[p].cancelled
      BY <3>1 DEF Cancelled, RequestInfos
    <3>3. QED BY <2>1, <3>2 DEF Owing
  <2>4. OneAtATime'
    BY <2>2, <2>3 DEF OneAtATime
  <2>5. QED BY <2>1, <2>4, QuietReplies
<1>10. QED
  BY <1>2, <1>3, <1>4, <1>5, <1>6, <1>7, <1>8, <1>9, RecordReplies DEF EventLoop

LEMMA NextReplies == LoopCompletes /\ TypeOK /\ RepliesInv /\ [Next]_vars => RepliesInv'
<1> SUFFICES ASSUME LoopCompletes, TypeOK, RepliesInv, [Next]_vars PROVE RepliesInv'
  OBVIOUS
<1>1. ASSUME NEW p \in Cells, Completion(p) PROVE RepliesInv'
  BY <1>1, CompleteReplies DEF Completion
<1>2. CASE UNCHANGED <<events, socket, requests, sending, nitz>>
  <2>1. OneAtATime'
    BY <1>2, OneKept DEF RepliesInv, events, socket, requests
  <2>2. QED BY <1>2, <2>1, QuietReplies DEF socket, sending
<1>3. CASE Client
  BY <1>2, <1>3 DEF Client, Connect, ClientSends, ClientHangsUp
<1>4. CASE UNCHANGED vars
  BY <1>2, <1>4 DEF vars
<1>5. QED
  BY <1>1, <1>3, <1>4, EventLoopReplies, DebugReplies, SendingReplies, UnsolicitedReplies DEF Next

\* When vendor code completes requests on the thread of the event loop only, as the reference
\* RIL does, no client ever gets the reply to a request of another client or of the debug
\* port, however connections end (onCommandsSocketClosed, RIL_onRequestComplete,
\* sendResponseRaw); completed from any thread, it may: RilRequests_thread.cfg.
THEOREM RepliesCorrect ==
  ASSUME LoopCompletes
  PROVE  Spec => []RepliesBelong
<1>1. RepliesInv => RepliesBelong
  BY DEF RepliesInv
<1>2. TypeOK /\ RepliesInv /\ [Next]_vars => RepliesInv'
  BY NextReplies
<1>3. QED BY <1>1, <1>2, InitReplies, TypeCorrect, PTL DEF Spec
=============================================================================
