--------------------------- MODULE RilStreams_proofs ---------------------------
(***************************************************************************)
(* Proofs about what RilRequests writes to its clients: messages are not   *)
(* cut in two, and no request is answered twice, whichever threads         *)
(* complete the requests; and, when the thread of the event loop does,     *)
(* RilRequests implements RequestService.                                  *)
(***************************************************************************)
EXTENDS RilRequests_proofs

-----------------------------------------------------------------------------
(* What a write appends to                                                 *)

\* A write adds one part at the end of the stream of the connection that is open.
LEMMA WrittenTo ==
  ASSUME TypeOK, NEW t \in Threads, NEW part \in {"header", "body"}, CanWrite, Written(t, part)
  PROVE  /\ peer \in Conns
         /\ \A c \in Conns : c # peer => stream'[c] = stream[c]
         /\ Len(stream'[peer]) = Len(stream[peer]) + 1
         /\ DOMAIN stream'[peer] = 1..(Len(stream[peer]) + 1)
         /\ \A i \in 1..Len(stream[peer]) : stream'[peer][i] = stream[peer][i]
         /\ stream'[peer][Len(stream[peer]) + 1] = [part |-> part, msg |-> msg[t]]
         /\ Len(stream[peer]) \in Nat
         /\ DOMAIN stream[peer] = 1..Len(stream[peer])
<1> DEFINE x == [part |-> part, msg |-> msg[t]]
<1>1. peer \in Conns /\ stream \in [Conns -> Seq(Parts)]
  BY TypeGroups DEF CanWrite, SocketOK, WritesOK
<1>2. stream[peer] \in Seq(Parts) /\ stream'[peer] = Append(stream[peer], x)
      /\ \A c \in Conns : c # peer => stream'[c] = stream[c]
  BY <1>1 DEF Written
<1>3. msg[t] \in Messages
  BY TypeGroups DEF ThreadsOK
<1>4. x \in Parts
  BY <1>3 DEF Parts
<1>5. QED BY <1>1, <1>2, <1>4

-----------------------------------------------------------------------------
(* Messages are not cut in two                                             *)

\* Who writes holds the mutex.
WriterLocks == \A t \in Threads : pc[t] \in {"header", "body"} <=> s_writeMutex = t

\* Connections are numbered as they are made, and wait once each.
BacklogInLine ==
  /\ \A i \in DOMAIN backlog : backlog[i] <= conns
  /\ \A i, j \in DOMAIN backlog : backlog[i] = backlog[j] => i = j
  /\ peer # None => peer <= conns /\ \A i \in DOMAIN backlog : backlog[i] # peer

\* Nothing has been written to a connection that has not been accepted.
Untouched ==
  /\ \A c \in Conns : c > conns => stream[c] = <<>>
  /\ \A i \in DOMAIN backlog : stream[backlog[i]] = <<>>

\* What the connection that is open got last: all of a message, unless the writer is between
\* its two writes.
LastPart(c) == stream[c][Len(stream[c])]
Whole(c) == stream[c] = <<>> \/ LastPart(c).part = "body"
Begun(c, m) == stream[c] = <<>> \/ LastPart(c) = [part |-> "header", msg |-> m]
StreamEnds ==
  peer # None =>
    /\ (\A t \in Threads : pc[t] # "body") => Whole(peer)
    /\ \A t \in Threads : pc[t] = "body" => Begun(peer, msg[t])

FramedInv == Framed /\ WriterLocks /\ BacklogInLine /\ Untouched /\ StreamEnds

LEMMA InitFramed == Init => FramedInv
<1> SUFFICES ASSUME Init PROVE FramedInv
  OBVIOUS
<1>1. Framed /\ StreamEnds
  BY DEF Init, Framed, StreamEnds
<1>2. WriterLocks
  BY ThreadsAssumption DEF Init, WriterLocks
<1>3. BacklogInLine /\ Untouched
  BY DEF Init, BacklogInLine, Untouched
<1>4. QED BY <1>1, <1>2, <1>3 DEF FramedInv

\* A step that writes nothing, locks nothing and opens no connection.
LEMMA FramedKept ==
  ASSUME FramedInv, UNCHANGED <<stream, backlog, conns, s_writeMutex>>, peer' \in {peer, None},
         \A t \in Threads : /\ pc'[t] = "header" <=> pc[t] = "header"
                            /\ pc'[t] = "body" <=> pc[t] = "body"
                            /\ pc[t] = "body" => msg'[t] = msg[t],
         backlog \in Seq(Conns)
  PROVE  FramedInv'
<1>1. Framed'
  BY DEF FramedInv, Framed
<1>2. WriterLocks'
  BY DEF FramedInv, WriterLocks
<1>3. BacklogInLine'
  <2>1. CASE peer' = peer
    BY <2>1 DEF FramedInv, BacklogInLine
  <2>2. CASE peer' = None
    BY <2>2 DEF FramedInv, BacklogInLine
  <2>3. QED BY <2>1, <2>2
<1>4. Untouched'
  BY DEF FramedInv, Untouched
<1>5. StreamEnds'
  BY DEF FramedInv, StreamEnds, Whole, Begun, LastPart
<1>6. QED BY <1>1, <1>2, <1>3, <1>4, <1>5 DEF FramedInv

\* The end of a call of sendResponseRaw that held no mutex or has given it back.
LEMMA ReturnedThread ==
  ASSUME TypeOK, NEW t \in Threads, NEW sent \in BOOLEAN, ReturnFromSend(t, sent)
  PROVE  /\ pc'[t] \in {"idle", "store"}
         /\ \A u \in Threads : u # t => pc'[u] = pc[u] /\ msg'[u] = msg[u]
         /\ UNCHANGED <<backlog, conns>>
<1>1. pc' = [pc EXCEPT ![t] = AfterSend(t, sent)] /\ AfterSend(t, sent) \in {"idle", "store"}
  BY DEF ReturnFromSend, AfterSend
<1>2. \/ msg' = msg
      \/ msg' = [msg EXCEPT ![t] = NoMessage]
  BY DEF ReturnFromSend
<1>3. UNCHANGED <<backlog, conns>>
  BY DEF ReturnFromSend, clients
<1>4. QED BY <1>1, <1>2, <1>3, TypeGroups DEF ThreadsOK

LEMMA LockFramed ==
  ASSUME TypeOK, FramedInv, NEW t \in Threads, LockWrite(t)
  PROVE  FramedInv'
<1>1. /\ pc[t] = "lock" /\ s_writeMutex = None /\ s_writeMutex' = t
      /\ pc'[t] = "header" /\ \A u \in Threads : u # t => pc'[u] = pc[u]
      /\ UNCHANGED <<stream, backlog, conns, peer, msg>>
  BY TypeGroups DEF LockWrite, ThreadsOK, socket, clients
<1>2. \A u \in Threads : pc'[u] = "body" <=> pc[u] = "body"
  BY <1>1
<1>3. WriterLocks'
  BY <1>1, ThreadsAssumption DEF FramedInv, WriterLocks
<1>4. Framed' /\ BacklogInLine' /\ Untouched'
  BY <1>1 DEF FramedInv, Framed, BacklogInLine, Untouched
<1>5. StreamEnds'
  BY <1>1, <1>2 DEF FramedInv, StreamEnds, Whole, Begun, LastPart
<1>6. QED BY <1>3, <1>4, <1>5 DEF FramedInv

\* What a write does to the streams that are not open, and to those not accepted yet.
LEMMA WriteUntouched ==
  ASSUME TypeOK, FramedInv, NEW t \in Threads, NEW part \in {"header", "body"}, CanWrite,
         Written(t, part), UNCHANGED <<backlog, conns, peer>>
  PROVE  BacklogInLine' /\ Untouched'
<1>1. BacklogInLine'
  BY DEF FramedInv, BacklogInLine
<1>2. ASSUME NEW c \in Conns, c > conns PROVE stream'[c] = <<>>
  <2>1. peer <= conns /\ peer \in Conns
    BY WrittenTo DEF FramedInv, BacklogInLine, CanWrite
  <2>2. c # peer
    BY <1>2, <2>1, TypeGroups, Bounds DEF ClientsOK, Conns
  <2>3. QED BY <1>2, <2>2, WrittenTo DEF FramedInv, Untouched
<1>3. ASSUME NEW i \in DOMAIN backlog PROVE stream'[backlog[i]] = <<>>
  <2>1. backlog[i] # peer /\ stream[backlog[i]] = <<>>
    BY DEF FramedInv, BacklogInLine, Untouched, CanWrite
  <2>2. backlog[i] \in Conns
    BY TypeGroups DEF ClientsOK
  <2>3. QED BY <2>1, <2>2, WrittenTo
<1>4. QED BY <1>1, <1>2, <1>3 DEF Untouched

LEMMA HeaderFramed ==
  ASSUME TypeOK, FramedInv, NEW t \in Threads, WriteHeader(t)
  PROVE  FramedInv'
<1>1. /\ pc[t] = "header" /\ CanWrite /\ Written(t, "header") /\ peer # None
      /\ pc'[t] = "body" /\ \A u \in Threads : u # t => pc'[u] = pc[u]
      /\ UNCHANGED <<backlog, conns, peer, msg, s_writeMutex>>
  BY TypeGroups DEF WriteHeader, CanWrite, ThreadsOK, socket, clients
<1>2. \A u \in Threads : pc[u] # "body"
  BY <1>1 DEF FramedInv, WriterLocks
<1>3. Whole(peer)
  BY <1>1, <1>2 DEF FramedInv, StreamEnds
<1> DEFINE n == Len(stream[peer])
<1> DEFINE x == [part |-> "header", msg |-> msg[t]]
<1>4. /\ peer \in Conns /\ n \in Nat /\ DOMAIN stream[peer] = 1..n
      /\ \A c \in Conns : c # peer => stream'[c] = stream[c]
      /\ Len(stream'[peer]) = n + 1 /\ DOMAIN stream'[peer] = 1..(n + 1)
      /\ \A i \in 1..n : stream'[peer][i] = stream[peer][i]
      /\ stream'[peer][n + 1] = x
  BY <1>1, WrittenTo
<1>5. n > 0 => stream[peer][n].part = "body"
  BY <1>3, <1>4 DEF Whole, LastPart
<1> HIDE DEF n, x
<1>6. Framed'
  <2>1. SUFFICES ASSUME NEW c \in Conns, NEW i \in DOMAIN stream'[c]
                 PROVE  \/ stream'[c][i].part = "body" /\ i = 1
                        \/ /\ stream'[c][i].part = "body"
                           /\ stream'[c][i - 1] = [stream'[c][i] EXCEPT !.part = "header"]
                        \/ stream'[c][i].part = "header" /\ (i > 1 => stream'[c][i - 1].part = "body")
    BY DEF Framed
  <2>2. CASE c # peer \/ i \in 1..n
    <3>1. i \in DOMAIN stream[c] /\ stream'[c][i] = stream[c][i]
          /\ (i > 1 => stream'[c][i - 1] = stream[c][i - 1])
      BY <1>4, <2>2
    <3>2. i \in Nat \ {0}
      BY <3>1, TypeGroups DEF WritesOK
    <3>3. QED BY <3>1, <3>2 DEF FramedInv, Framed
  <2>3. CASE c = peer /\ i = n + 1
    <3>1. stream'[c][i].part = "header"
      BY <1>4, <2>3 DEF x
    <3>2. i > 1 => stream'[c][i - 1].part = "body"
      BY <1>4, <1>5, <2>3
    <3>3. QED BY <3>1, <3>2
  <2>4. QED BY <1>4, <2>2, <2>3
<1>7. WriterLocks'
  BY <1>1 DEF FramedInv, WriterLocks
<1>8. StreamEnds'
  <2>1. Begun(peer, msg[t])'
    BY <1>1, <1>4 DEF Begun, LastPart, x
  <2>2. \A u \in Threads : u # t => pc'[u] # "body"
    BY <1>1, <1>2
  <2>3. QED BY <1>1, <2>1, <2>2 DEF StreamEnds, Begun, LastPart
<1>9. QED BY <1>1, <1>6, <1>7, <1>8, WriteUntouched DEF FramedInv

LEMMA BodyFramed ==
  ASSUME TypeOK, FramedInv, NEW t \in Threads, WriteBody(t)
  PROVE  FramedInv'
<1>1. /\ pc[t] = "body" /\ CanWrite /\ Written(t, "body") /\ peer # None
      /\ s_writeMutex' = None /\ ReturnFromSend(t, TRUE) /\ UNCHANGED peer
  BY DEF WriteBody, CanWrite
<1>2. /\ pc'[t] \in {"idle", "store"}
      /\ \A u \in Threads : u # t => pc'[u] = pc[u] /\ msg'[u] = msg[u]
      /\ UNCHANGED <<backlog, conns>>
  BY <1>1, ReturnedThread
<1>3. s_writeMutex = t /\ \A u \in Threads : u # t => pc[u] \notin {"header", "body"}
  BY <1>1 DEF FramedInv, WriterLocks
<1>4. Begun(peer, msg[t])
  BY <1>1 DEF FramedInv, StreamEnds
<1> DEFINE n == Len(stream[peer])
<1> DEFINE x == [part |-> "body", msg |-> msg[t]]
<1>5. /\ peer \in Conns /\ n \in Nat /\ DOMAIN stream[peer] = 1..n
      /\ \A c \in Conns : c # peer => stream'[c] = stream[c]
      /\ Len(stream'[peer]) = n + 1 /\ DOMAIN stream'[peer] = 1..(n + 1)
      /\ \A i \in 1..n : stream'[peer][i] = stream[peer][i]
      /\ stream'[peer][n + 1] = x
  BY <1>1, WrittenTo
<1>6. n > 0 => stream[peer][n] = [x EXCEPT !.part = "header"]
  BY <1>4, <1>5 DEF Begun, LastPart
<1>7. x.part = "body"
  OBVIOUS
<1> HIDE DEF n, x
<1>8. Framed'
  <2>1. SUFFICES ASSUME NEW c \in Conns, NEW i \in DOMAIN stream'[c]
                 PROVE  \/ stream'[c][i].part = "body" /\ i = 1
                        \/ /\ stream'[c][i].part = "body"
                           /\ stream'[c][i - 1] = [stream'[c][i] EXCEPT !.part = "header"]
                        \/ stream'[c][i].part = "header" /\ (i > 1 => stream'[c][i - 1].part = "body")
    BY DEF Framed
  <2>2. CASE c # peer \/ i \in 1..n
    <3>1. i \in DOMAIN stream[c] /\ stream'[c][i] = stream[c][i]
          /\ (i > 1 => stream'[c][i - 1] = stream[c][i - 1])
      BY <1>5, <2>2
    <3>2. i \in Nat \ {0}
      BY <3>1, TypeGroups DEF WritesOK
    <3>3. QED BY <3>1, <3>2 DEF FramedInv, Framed
  <2>3. CASE c = peer /\ i = n + 1
    <3>1. stream'[c][i] = x
      BY <1>5, <2>3
    <3>2. n > 0 => stream'[c][i - 1] = [x EXCEPT !.part = "header"]
      BY <1>5, <1>6, <2>3
    <3>3. n > 0 \/ i = 1
      BY <1>5, <2>3
    <3>4. QED BY <1>7, <3>1, <3>2, <3>3
  <2>4. QED BY <1>5, <2>2, <2>3
<1>9. WriterLocks'
  BY <1>1, <1>2, <1>3, ThreadsAssumption DEF WriterLocks
<1>10. StreamEnds'
  <2>1. Whole(peer)'
    BY <1>1, <1>5, <1>7 DEF Whole, LastPart
  <2>2. \A u \in Threads : pc'[u] # "body"
    BY <1>2, <1>3
  <2>3. QED BY <1>1, <2>1, <2>2 DEF StreamEnds, Whole, LastPart
<1>11. QED BY <1>1, <1>2, <1>8, <1>9, <1>10, WriteUntouched DEF FramedInv

LEMMA FailFramed ==
  ASSUME TypeOK, FramedInv, NEW t \in Threads, WriteFails(t)
  PROVE  FramedInv'
<1>1. /\ pc[t] \in {"header", "body"} /\ peer' = None /\ s_writeMutex' = None
      /\ ReturnFromSend(t, FALSE) /\ UNCHANGED stream
  BY DEF WriteFails
<1>2. /\ pc'[t] \in {"idle", "store"}
      /\ \A u \in Threads : u # t => pc'[u] = pc[u] /\ msg'[u] = msg[u]
      /\ UNCHANGED <<backlog, conns>>
  BY <1>1, ReturnedThread
<1>3. \A u \in Threads : u # t => pc[u] \notin {"header", "body"}
  BY <1>1 DEF FramedInv, WriterLocks
<1>4. WriterLocks'
  BY <1>1, <1>2, <1>3, ThreadsAssumption DEF WriterLocks
<1>5. Framed' /\ Untouched'
  BY <1>1, <1>2 DEF FramedInv, Framed, Untouched
<1>6. BacklogInLine' /\ StreamEnds'
  BY <1>1, <1>2 DEF FramedInv, BacklogInLine, StreamEnds
<1>7. QED BY <1>4, <1>5, <1>6 DEF FramedInv

LEMMA AcceptFramed ==
  ASSUME TypeOK, FramedInv, AcceptClient
  PROVE  FramedInv'
<1>1. /\ backlog # <<>> /\ backlog' = Tail(backlog) /\ peer' = Head(backlog)
      /\ UNCHANGED <<stream, conns, s_writeMutex, pc, msg>>
  BY DEF AcceptClient, sending
<1>2. backlog \in Seq(Conns)
  BY TypeGroups DEF ClientsOK
<1>3. /\ peer' = backlog[1] /\ 1 \in DOMAIN backlog
      /\ \A i \in DOMAIN backlog' : /\ i \in Nat /\ i + 1 \in DOMAIN backlog
                                   /\ backlog'[i] = backlog[i + 1] /\ i + 1 # 1
  BY <1>1, <1>2
<1>4. Framed' /\ WriterLocks'
  BY <1>1 DEF FramedInv, Framed, WriterLocks
<1>5. BacklogInLine'
  <2>1. peer' <= conns' /\ \A i \in DOMAIN backlog' : backlog'[i] # peer'
    BY <1>1, <1>3 DEF FramedInv, BacklogInLine
  <2>2. \A i \in DOMAIN backlog' : backlog'[i] <= conns'
    BY <1>1, <1>3 DEF FramedInv, BacklogInLine
  <2>3. \A i, j \in DOMAIN backlog' : backlog'[i] = backlog'[j] => i = j
    <3>1. SUFFICES ASSUME NEW i \in DOMAIN backlog', NEW j \in DOMAIN backlog',
                          backlog'[i] = backlog'[j]
                   PROVE  i = j
      OBVIOUS
    <3>2. i + 1 = j + 1
      BY <1>3, <3>1 DEF FramedInv, BacklogInLine
    <3>3. QED BY <1>3, <3>2
  <2>4. QED BY <2>1, <2>2, <2>3 DEF BacklogInLine
<1>6. Untouched'
  BY <1>1, <1>3 DEF FramedInv, Untouched
<1>7. StreamEnds'
  <2>1. stream'[peer'] = <<>>
    BY <1>1, <1>3 DEF FramedInv, Untouched
  <2>2. QED BY <2>1 DEF StreamEnds, Whole, Begun
<1>8. QED BY <1>4, <1>5, <1>6, <1>7 DEF FramedInv

LEMMA ConnectFramed ==
  ASSUME TypeOK, FramedInv, Connect
  PROVE  FramedInv'
<1>1. /\ conns' = conns + 1 /\ backlog' = Append(backlog, conns + 1) /\ conns < MaxConns
      /\ UNCHANGED <<stream, peer, s_writeMutex, pc, msg>>
  BY DEF Connect, sending, socket
<1>2. backlog \in Seq(Conns) /\ conns \in Nat /\ conns + 1 \in Conns
  BY <1>1, TypeGroups, Bounds DEF ClientsOK, Conns
<1> DEFINE n == Len(backlog)
<1>3. /\ n \in Nat /\ DOMAIN backlog = 1..n /\ DOMAIN backlog' = 1..(n + 1)
      /\ \A i \in 1..n : backlog'[i] = backlog[i] /\ backlog[i] \in Conns
      /\ backlog'[n + 1] = conns + 1
  BY <1>1, <1>2
<1>4. \A i \in 1..n : backlog[i] <= conns
  BY <1>3 DEF FramedInv, BacklogInLine
<1> HIDE DEF n
<1>5. Framed' /\ WriterLocks'
  BY <1>1 DEF FramedInv, Framed, WriterLocks
<1>6. BacklogInLine'
  <2>1. \A i \in DOMAIN backlog' : backlog'[i] <= conns'
    <3>1. ASSUME NEW i \in 1..n PROVE backlog'[i] <= conns'
      BY <1>1, <1>2, <1>3, <1>4 DEF Conns
    <3>2. QED BY <1>1, <1>2, <1>3, <3>1
  <2>2. \A i, j \in DOMAIN backlog' : backlog'[i] = backlog'[j] => i = j
    <3>1. \A i, j \in 1..n : backlog[i] = backlog[j] => i = j
      BY <1>3 DEF FramedInv, BacklogInLine
    <3>2. \A i \in 1..n : backlog[i] # conns + 1
      BY <1>2, <1>3, <1>4 DEF Conns
    <3>3. QED BY <1>3, <3>1, <3>2
  <2>3. ASSUME peer' # None
        PROVE  peer' <= conns' /\ \A i \in DOMAIN backlog' : backlog'[i] # peer'
    <3>1. peer \in Nat /\ peer <= conns
      BY <1>1, <2>3, TypeGroups DEF FramedInv, BacklogInLine, SocketOK, Conns
    <3>2. \A i \in 1..n : backlog[i] # peer
      BY <1>1, <1>3, <2>3 DEF FramedInv, BacklogInLine
    <3>3. QED BY <1>1, <1>2, <1>3, <3>1, <3>2
  <2>4. QED BY <2>1, <2>2, <2>3 DEF BacklogInLine
<1>7. Untouched'
  <2>1. \A c \in Conns : c > conns' => stream'[c] = <<>>
    BY <1>1, <1>2, Bounds DEF FramedInv, Untouched, Conns
  <2>2. stream[conns + 1] = <<>>
    BY <1>2 DEF FramedInv, Untouched
  <2>3. \A i \in DOMAIN backlog' : stream'[backlog'[i]] = <<>>
    BY <1>1, <1>3, <2>2 DEF FramedInv, Untouched
  <2>4. QED BY <2>1, <2>3 DEF Untouched
<1>8. StreamEnds'
  BY <1>1 DEF FramedInv, StreamEnds, Whole, Begun, LastPart
<1>9. QED BY <1>5, <1>6, <1>7, <1>8 DEF FramedInv

\* A thread that moves on outside its two writes.
LEMMA StepFramed ==
  ASSUME TypeOK, FramedInv, NEW t \in Threads,
         pc[t] \notin {"header", "body"}, pc'[t] \notin {"header", "body"},
         \A u \in Threads : u # t => pc'[u] = pc[u] /\ msg'[u] = msg[u],
         UNCHANGED <<stream, backlog, conns, s_writeMutex>>, peer' \in {peer, None}
  PROVE  FramedInv'
<1>1. \A u \in Threads : /\ pc'[u] = "header" <=> pc[u] = "header"
                         /\ pc'[u] = "body" <=> pc[u] = "body"
                         /\ pc[u] = "body" => msg'[u] = msg[u]
  <2>1. SUFFICES ASSUME NEW u \in Threads
                 PROVE  /\ pc'[u] = "header" <=> pc[u] = "header"
                        /\ pc'[u] = "body" <=> pc[u] = "body"
                        /\ pc[u] = "body" => msg'[u] = msg[u]
    OBVIOUS
  <2>2. CASE u = t
    BY <2>2, Zenon
  <2>3. CASE u # t
    BY <2>3, Zenon
  <2>4. QED BY <2>2, <2>3, Zenon
<1>2. backlog \in Seq(Conns)
  BY TypeGroups DEF ClientsOK
<1>3. QED BY <1>1, <1>2, FramedKept

LEMMA StartFramed ==
  ASSUME TypeOK, FramedInv, NEW t \in Threads, NEW m, pc[t] = "idle", StartSend(t, m),
         UNCHANGED <<stream, backlog, conns, s_writeMutex, peer>>
  PROVE  FramedInv'
<1>1. /\ pc'[t] = "send"
      /\ \A u \in Threads : u # t => pc'[u] = pc[u] /\ msg'[u] = msg[u]
  BY TypeGroups DEF StartSend, ThreadsOK
<1>2. QED BY <1>1, StepFramed

LEMMA NextFramed == TypeOK /\ FramedInv /\ [Next]_vars => FramedInv'
<1> SUFFICES ASSUME TypeOK, FramedInv, [Next]_vars PROVE FramedInv'
  OBVIOUS
<1>1. ASSUME UNCHANGED <<stream, backlog, conns, s_writeMutex, pc, msg>>, peer' \in {peer, None}
      PROVE  FramedInv'
  BY <1>1, TypeGroups, FramedKept DEF ClientsOK
<1>2. ASSUME NEW t \in Threads, Sending(t) PROVE FramedInv'
  <2>1. CASE CheckSocket(t)
    <3>1. pc[t] = "send" /\ UNCHANGED <<peer, s_writeMutex, stream, backlog, conns>>
      BY <2>1 DEF CheckSocket, ReturnFromSend, socket, clients
    <3>2. CASE ReturnFromSend(t, FALSE)
      BY <3>1, <3>2, ReturnedThread, StepFramed
    <3>3. CASE pc' = [pc EXCEPT ![t] = "lock"] /\ msg' = msg
      <4>1. pc'[t] = "lock" /\ \A u \in Threads : u # t => pc'[u] = pc[u]
        BY <3>3, TypeGroups DEF ThreadsOK
      <4>2. QED BY <3>1, <3>3, <4>1, StepFramed
    <3>4. QED BY <2>1, <3>2, <3>3, Zenon DEF CheckSocket
  <2>2. CASE StoreNITZ(t)
    <3>1. /\ pc[t] = "store" /\ pc'[t] = "idle"
          /\ \A u \in Threads : u # t => pc'[u] = pc[u] /\ msg'[u] = msg[u]
          /\ UNCHANGED <<stream, backlog, conns, s_writeMutex, peer>>
      BY <2>2, TypeGroups DEF StoreNITZ, ThreadsOK, socket, clients
    <3>2. QED BY <3>1, StepFramed
  <2>3. QED BY <1>2, <2>1, <2>2, LockFramed, HeaderFramed, BodyFramed, FailFramed DEF Sending
<1>3. ASSUME NEW t \in Threads, VendorCalls(t) PROVE FramedInv'
  BY <1>3, StartFramed DEF VendorCalls, RIL_onUnsolicitedResponse, socket, clients
<1>4. ASSUME NEW p \in Cells, Completion(p) PROVE FramedInv'
  <2>1. PICK t \in Completers : RIL_onRequestComplete(t, p)
    BY <1>4 DEF Completion
  <2>2. t \in Threads /\ pc[t] = "idle"
    BY <2>1, ThreadsAssumption DEF RIL_onRequestComplete, MayComplete
  <2>3. UNCHANGED <<stream, backlog, conns, s_writeMutex, peer>>
    BY <2>1 DEF RIL_onRequestComplete, socket, clients
  <2>4. CASE UNCHANGED <<pc, msg>>
    BY <1>1, <2>3, <2>4
  <2>5. CASE StartSend(t, Message("reply", info[p].token, info[p].conn))
    BY <2>2, <2>3, <2>5, StartFramed
  <2>6. QED BY <2>1, <2>4, <2>5, Zenon DEF RIL_onRequestComplete
<1>5. CASE Client
  <2>1. CASE UNCHANGED <<stream, backlog, conns, s_writeMutex, pc, msg, peer>>
    BY <1>1, <2>1
  <2>2. QED BY <1>5, <2>1, ConnectFramed DEF Client, ClientSends, ClientHangsUp, sending, socket
<1>6. CASE Debug
  BY <1>1, <1>6 DEF Debug, DebugRequest, DebugClose, sending, socket, clients
<1>7. CASE EventLoop
  <2>1. CASE WelcomeClient
    BY <2>1, LoopIsThread, StartFramed DEF WelcomeClient, At, socket, clients
  <2>2. CASE SendLastNITZ
    <3>1. /\ UNCHANGED <<stream, backlog, conns, s_writeMutex, peer>> /\ pc[Loop] = "idle"
          /\ UNCHANGED <<pc, msg>> \/ StartSend(Loop, nitz)
      BY <2>2 DEF SendLastNITZ, At, socket, clients
    <3>2. QED BY <1>1, <3>1, LoopIsThread, StartFramed
  <2>3. CASE /\ UNCHANGED <<stream, backlog, conns, s_writeMutex, pc, msg>>
             /\ peer' \in {peer, None}
    BY <1>1, <2>3
  <2>4. CASE RejectClient \/ FreeLastNITZ \/ SelectFails \/ CommandsReady \/ OnRequestReturns
    BY <2>3, <2>4 DEF RejectClient, FreeLastNITZ, SelectFails, CommandsReady, OnRequestReturns,
                      sending, socket, clients
  <2>5. CASE NoMoreRecords \/ ReadFails \/ CloseCommand \/ ClearCommand \/ CancelPending
    BY <2>3, <2>5 DEF NoMoreRecords, ReadFails, CloseCommand, ClearCommand, CancelPending,
                      sending, socket, clients
  <2>6. CASE NextRecord
    BY <2>3, <2>6 DEF NextRecord, sending, socket
  <2>7. QED BY <1>7, <2>1, <2>2, <2>4, <2>5, <2>6, AcceptFramed DEF EventLoop
<1>8. CASE UNCHANGED vars
  BY <1>1, <1>8 DEF vars, sending, socket, clients
<1>9. QED BY <1>2, <1>3, <1>4, <1>5, <1>6, <1>7, <1>8 DEF Next

\* Whichever threads write, and whenever connections end, what a client gets after a header is
\* its body; a body without its header is only ever the first thing on a connection, when the
\* one its header went to was closed and replaced between the two writes (sendResponseRaw).
THEOREM FramesCorrect == Spec => []Framed
<1>1. FramedInv => Framed
  BY DEF FramedInv
<1>2. QED BY <1>1, InitFramed, TypeCorrect, NextFramed, PTL DEF Spec

-----------------------------------------------------------------------------
(* No request is answered twice: the number of a request is in one place   *)

InInbox(id) == \E c \in Conns : \E i \in DOMAIN inbox[c] : inbox[c][i].id = id
Waiting(id) == \E p \in s_pendingRequests : ~info[p].local /\ info[p].token = id
Carries(t, id) == SendingReply(t) /\ msg[t].id = id
IsReply(c, i, part, id) ==
  stream[c][i].part = part /\ stream[c][i].msg.what = "reply" /\ stream[c][i].msg.id = id
Out(part, id) == \E c \in Conns : \E i \in DOMAIN stream[c] : IsReply(c, i, part, id)

\* In each of the places a number goes through it is there once...
InboxOnce ==
  \A c, d \in Conns : \A i \in DOMAIN inbox[c], j \in DOMAIN inbox[d] :
    inbox[c][i].id = inbox[d][j].id => c = d /\ i = j
PendingOnce ==
  \A p, q \in s_pendingRequests :
    ~info[p].local /\ ~info[q].local /\ info[p].token = info[q].token => p = q
CarriedOnce == \A t, u \in Threads : \A id \in Nat : Carries(t, id) /\ Carries(u, id) => t = u
OutOnce ==
  \A c, d \in Conns : \A i \in DOMAIN stream[c], j \in DOMAIN stream[d] :
    \A part \in {"header", "body"}, id \in Nat :
      IsReply(c, i, part, id) /\ IsReply(d, j, part, id) => c = d /\ i = j

\* ...and it is in one of them at a time, but for the header that goes before the body.
OnePlace(id) ==
  /\ InInbox(id) => /\ ~Waiting(id) /\ ~Out("header", id) /\ ~Out("body", id)
                    /\ \A t \in Threads : ~Carries(t, id)
  /\ Waiting(id) => /\ ~Out("header", id) /\ ~Out("body", id)
                    /\ \A t \in Threads : ~Carries(t, id)
  /\ \A t \in Threads :
       Carries(t, id) => ~Out("body", id) /\ (Out("header", id) => pc[t] = "body")

\* A number that no client has used is nowhere.
Unused(id) ==
  /\ ~InInbox(id) /\ ~Waiting(id) /\ ~Out("header", id) /\ ~Out("body", id)
  /\ \A t \in Threads : ~Carries(t, id)
Fresh == \A id \in Nat : id > asked => Unused(id)

Singles == InboxOnce /\ PendingOnce /\ CarriedOnce /\ OutOnce
IdsInv == Singles /\ (\A id \in Nat : OnePlace(id)) /\ Fresh /\ NitzOnly

LEMMA OnceAnswered == TypeOK /\ IdsInv => AnsweredOnce
<1> SUFFICES ASSUME TypeOK, OutOnce,
                    NEW c \in Conns, NEW d \in Conns,
                    NEW i \in DOMAIN stream[c], NEW j \in DOMAIN stream[d],
                    stream[c][i].msg.what = "reply", stream[c][i] = stream[d][j]
             PROVE  c = d /\ i = j
  BY DEF IdsInv, Singles, AnsweredOnce
<1>1. stream[c] \in Seq(Parts)
  BY TypeGroups DEF WritesOK
<1>2. stream[c][i] \in Parts
  BY <1>1
<1>3. stream[c][i].part \in {"header", "body"} /\ stream[c][i].msg.id \in Nat
  BY <1>2 DEF Parts, Messages
<1>4. QED BY <1>3 DEF OutOnce, IsReply

LEMMA InitIds == Init => IdsInv
<1> SUFFICES ASSUME Init PROVE IdsInv
  OBVIOUS
<1>1. Singles
  BY DEF Init, Singles, InboxOnce, PendingOnce, CarriedOnce, OutOnce, Carries, SendingReply
<1>2. ASSUME NEW id \in Nat PROVE Unused(id) /\ OnePlace(id)
  BY DEF Init, Unused, OnePlace, InInbox, Waiting, Out, Carries, SendingReply
<1>3. NitzOnly
  BY DEF Init, NitzOnly, nitz
<1>4. QED BY <1>1, <1>2, <1>3 DEF IdsInv, Fresh

-----------------------------------------------------------------------------
(* What a step leaves alone stays where it is *)

LEMMA InboxKept ==
  ASSUME InboxOnce, UNCHANGED inbox
  PROVE  InboxOnce' /\ \A id \in Nat : InInbox(id)' <=> InInbox(id)
BY DEF InboxOnce, InInbox

LEMMA PendingKept ==
  ASSUME PendingOnce, s_pendingRequests' \subseteq s_pendingRequests,
         \A p \in s_pendingRequests : info'[p].local = info[p].local /\ info'[p].token = info[p].token
  PROVE  PendingOnce' /\ \A id \in Nat : Waiting(id)' => Waiting(id)
BY DEF PendingOnce, Waiting

LEMMA CarriedKept ==
  ASSUME CarriedOnce,
         \A t \in Threads : \A id \in Nat : Carries(t, id)' => Carries(t, id)
  PROVE  CarriedOnce'
BY DEF CarriedOnce

LEMMA OutKept ==
  ASSUME OutOnce, UNCHANGED stream
  PROVE  OutOnce' /\ \A part, id : Out(part, id)' <=> Out(part, id)
BY DEF OutOnce, Out, IsReply

\* A step that writes nothing: numbers only leave the places they are in.
LEMMA IdsShrink ==
  ASSUME IdsInv, asked' = asked, UNCHANGED stream, InboxOnce', PendingOnce', NitzOnly',
         \A id \in Nat : InInbox(id)' => InInbox(id),
         \A id \in Nat : Waiting(id)' => Waiting(id),
         \A t \in Threads : \A id \in Nat :
           Carries(t, id)' => Carries(t, id) /\ (pc[t] = "body" => pc'[t] = "body")
  PROVE  IdsInv'
<1>1. Singles'
  BY CarriedKept, OutKept DEF IdsInv, Singles
<1>2. \A part, id : Out(part, id)' <=> Out(part, id)
  BY OutKept DEF IdsInv, Singles
<1>3. ASSUME NEW id \in Nat PROVE OnePlace(id)'
  BY <1>2 DEF IdsInv, OnePlace
<1>4. Fresh'
  BY <1>2 DEF IdsInv, Fresh, Unused
<1>5. QED BY <1>1, <1>3, <1>4 DEF IdsInv

-----------------------------------------------------------------------------
(* The steps of sendResponseRaw *)

\* A write puts out the part that is due of the message the thread carries, for the first time.
LEMMA WriteIds ==
  ASSUME TypeOK, IdsInv, NEW t \in Threads, NEW part \in {"header", "body"}, pc[t] = part,
         CanWrite, Written(t, part)
  PROVE  /\ OutOnce'
         /\ \A id \in Nat : /\ Out(part, id)' => Out(part, id) \/ Carries(t, id)
                            /\ \A other : other # part => (Out(other, id)' => Out(other, id))
<1> DEFINE n == Len(stream[peer])
<1> DEFINE x == [part |-> part, msg |-> msg[t]]
<1>1. /\ peer \in Conns /\ n \in Nat /\ DOMAIN stream[peer] = 1..n
      /\ \A c \in Conns : c # peer => stream'[c] = stream[c]
      /\ DOMAIN stream'[peer] = 1..(n + 1)
      /\ \A i \in 1..n : stream'[peer][i] = stream[peer][i]
      /\ stream'[peer][n + 1] = x
  BY WrittenTo
<1>2. \A id : (x.part = part /\ x.msg.what = "reply" /\ x.msg.id = id) => Carries(t, id)
  BY DEF Carries, SendingReply
<1>3. x.part = part
  OBVIOUS
<1> HIDE DEF n, x
\* What is in a stream after the write was there before, or is the part just written.
<1>4. ASSUME NEW c \in Conns, NEW i \in DOMAIN stream'[c], NEW other, NEW id, IsReply(c, i, other, id)'
      PROVE  \/ i \in DOMAIN stream[c] /\ IsReply(c, i, other, id)
             \/ c = peer /\ i = n + 1 /\ other = part /\ Carries(t, id)
  <2>1. CASE c # peer \/ i \in 1..n
    BY <1>1, <1>4, <2>1 DEF IsReply
  <2>2. CASE c = peer /\ i = n + 1
    <3>1. stream'[c][i] = x
      BY <1>1, <2>2
    <3>2. other = part /\ Carries(t, id)
      BY <1>2, <1>3, <1>4, <3>1 DEF IsReply
    <3>3. QED BY <2>2, <3>2
  <2>3. QED BY <1>1, <2>1, <2>2
<1>5. \A id \in Nat : /\ Out(part, id)' => Out(part, id) \/ Carries(t, id)
                      /\ \A other : other # part => (Out(other, id)' => Out(other, id))
  <2>1. ASSUME NEW other, NEW id \in Nat, Out(other, id)'
        PROVE  Out(other, id) \/ (other = part /\ Carries(t, id))
    <3>1. PICK c \in Conns : \E i \in DOMAIN stream'[c] : IsReply(c, i, other, id)'
      BY <2>1, Zenon DEF Out
    <3>2. PICK i \in DOMAIN stream'[c] : IsReply(c, i, other, id)'
      BY <3>1
    <3>3. QED BY <1>4, <3>2 DEF Out
  <2>2. QED BY <2>1, Zenon
<1>6. \A id \in Nat : Carries(t, id) => ~Out(part, id)
  BY DEF IdsInv, OnePlace
<1>7. OutOnce'
  <2>1. SUFFICES ASSUME NEW c \in Conns, NEW d \in Conns,
                        NEW i \in DOMAIN stream'[c], NEW j \in DOMAIN stream'[d],
                        NEW other \in {"header", "body"}, NEW id \in Nat,
                        IsReply(c, i, other, id)', IsReply(d, j, other, id)'
                 PROVE  c = d /\ i = j
    BY DEF OutOnce
  <2>2. CASE i \in DOMAIN stream[c] /\ IsReply(c, i, other, id)
    <3>1. Out(other, id)
      BY <2>2 DEF Out
    <3>2. j \in DOMAIN stream[d] /\ IsReply(d, j, other, id)
      BY <1>4, <1>6, <2>1, <3>1
    <3>3. QED BY <2>2, <3>2 DEF IdsInv, Singles, OutOnce
  <2>3. CASE c = peer /\ i = n + 1 /\ other = part /\ Carries(t, id)
    <3>1. ~(j \in DOMAIN stream[d] /\ IsReply(d, j, other, id))
      BY <1>6, <2>3 DEF Out
    <3>2. QED BY <1>4, <2>1, <2>3, <3>1
  <2>4. QED BY <1>4, <2>1, <2>2, <2>3
<1>8. QED BY <1>5, <1>7

\* The end of a call: the thread carries nothing any more, and keeps only a NITZ message.
LEMMA ReturnIds ==
  ASSUME TypeOK, IdsInv, NEW t \in Threads, NEW sent \in BOOLEAN, ReturnFromSend(t, sent)
  PROVE  /\ \A id \in Nat : ~Carries(t, id)'
         /\ \A u \in Threads : u # t => /\ pc'[u] = pc[u]
                                      /\ \A id \in Nat : Carries(u, id)' <=> Carries(u, id)
         /\ NitzOnly' /\ UNCHANGED <<inbox, asked, s_pendingRequests, info>>
<1>1. /\ pc'[t] \in {"idle", "store"}
      /\ \A u \in Threads : u # t => pc'[u] = pc[u] /\ msg'[u] = msg[u]
  BY ReturnedThread
<1>2. UNCHANGED <<inbox, asked, s_pendingRequests, info, nitz>>
  BY DEF ReturnFromSend, clients
<1>3. pc'[t] = "store" => msg' = msg /\ msg[t].what = "nitz"
  <2>1. pc'[t] = AfterSend(t, sent)
    BY TypeGroups DEF ReturnFromSend, ThreadsOK
  <2>2. QED BY <2>1 DEF ReturnFromSend, AfterSend
<1>4. NitzOnly'
  BY <1>1, <1>2, <1>3 DEF IdsInv, NitzOnly, nitz
<1>5. QED BY <1>1, <1>2, <1>4 DEF Carries, SendingReply

\* The steps that change neither the requests nor the inboxes.
LEMMA InboxAndPending ==
  ASSUME IdsInv, UNCHANGED <<inbox, s_pendingRequests, info>>
  PROVE  /\ InboxOnce' /\ PendingOnce'
         /\ \A id \in Nat : (InInbox(id)' <=> InInbox(id)) /\ (Waiting(id)' => Waiting(id))
BY InboxKept, PendingKept DEF IdsInv, Singles

LEMMA DropIds ==
  ASSUME TypeOK, IdsInv, NEW t \in Threads, ReturnFromSend(t, FALSE), UNCHANGED stream
  PROVE  IdsInv'
<1>1. UNCHANGED <<inbox, s_pendingRequests, info, asked>> /\ NitzOnly'
  BY ReturnIds
<1>2. \A u \in Threads : \A id \in Nat :
        Carries(u, id)' => Carries(u, id) /\ (pc[u] = "body" => pc'[u] = "body")
  BY ReturnIds
<1>3. QED BY <1>1, <1>2, InboxAndPending, IdsShrink

LEMMA HeaderIds ==
  ASSUME TypeOK, IdsInv, NEW t \in Threads, WriteHeader(t)
  PROVE  IdsInv'
<1>1. /\ pc[t] = "header" /\ CanWrite /\ Written(t, "header")
      /\ pc'[t] = "body" /\ \A u \in Threads : u # t => pc'[u] = pc[u]
      /\ UNCHANGED <<inbox, s_pendingRequests, info, asked, msg, nitz>>
  BY TypeGroups DEF WriteHeader, ThreadsOK, clients, requests
<1>2. /\ InboxOnce' /\ PendingOnce'
      /\ \A id \in Nat : (InInbox(id)' <=> InInbox(id)) /\ (Waiting(id)' => Waiting(id))
  BY <1>1, InboxAndPending
<1>3. \A u \in Threads : \A id \in Nat : Carries(u, id)' <=> Carries(u, id)
  BY <1>1 DEF Carries, SendingReply
<1>4. NitzOnly'
  BY <1>1 DEF IdsInv, NitzOnly, nitz
<1>5. /\ OutOnce'
      /\ \A id \in Nat : /\ Out("header", id)' => Out("header", id) \/ Carries(t, id)
                         /\ Out("body", id)' => Out("body", id)
  BY <1>1, WriteIds
<1>6. Singles'
  BY <1>2, <1>3, <1>5, CarriedKept DEF IdsInv, Singles
<1>7. ASSUME NEW id \in Nat PROVE OnePlace(id)'
  <2>1. OnePlace(id)
    BY DEF IdsInv
  <2>2. ASSUME NEW u \in Threads, Carries(u, id)', Out("header", id)' PROVE pc'[u] = "body"
    <3>1. CASE Out("header", id)
      BY <1>1, <1>3, <2>1, <2>2, <3>1 DEF OnePlace
    <3>2. CASE Carries(t, id)
      BY <1>1, <1>3, <2>2, <3>2 DEF IdsInv, Singles, CarriedOnce
    <3>3. QED BY <1>5, <2>2, <3>1, <3>2
  <2>3. QED BY <1>2, <1>3, <1>5, <2>1, <2>2 DEF OnePlace
<1>8. Fresh'
  BY <1>1, <1>2, <1>3, <1>5 DEF IdsInv, Fresh, Unused
<1>9. QED BY <1>4, <1>6, <1>7, <1>8 DEF IdsInv

LEMMA BodyIds ==
  ASSUME TypeOK, IdsInv, NEW t \in Threads, WriteBody(t)
  PROVE  IdsInv'
<1>1. /\ pc[t] = "body" /\ CanWrite /\ Written(t, "body") /\ ReturnFromSend(t, TRUE)
  BY DEF WriteBody
<1>2. UNCHANGED <<inbox, s_pendingRequests, info, asked>> /\ NitzOnly'
  BY <1>1, ReturnIds
<1>3. /\ InboxOnce' /\ PendingOnce'
      /\ \A id \in Nat : (InInbox(id)' <=> InInbox(id)) /\ (Waiting(id)' => Waiting(id))
  BY <1>2, InboxAndPending
<1>4. \A u \in Threads : \A id \in Nat :
        Carries(u, id)' => u # t /\ Carries(u, id) /\ pc'[u] = pc[u]
  BY <1>1, ReturnIds
<1>5. /\ OutOnce'
      /\ \A id \in Nat : /\ Out("body", id)' => Out("body", id) \/ Carries(t, id)
                         /\ Out("header", id)' => Out("header", id)
  BY <1>1, WriteIds
<1>6. Singles'
  BY <1>3, <1>4, <1>5, CarriedKept DEF IdsInv, Singles
<1>7. ASSUME NEW id \in Nat PROVE OnePlace(id)'
  <2>1. OnePlace(id)
    BY DEF IdsInv
  <2>2. \A u \in Threads : Carries(u, id)' => ~Carries(t, id)
    BY <1>4 DEF IdsInv, Singles, CarriedOnce
  <2>3. QED BY <1>3, <1>4, <1>5, <2>1, <2>2 DEF OnePlace
<1>8. Fresh'
  BY <1>2, <1>3, <1>4, <1>5 DEF IdsInv, Fresh, Unused
<1>9. QED BY <1>2, <1>6, <1>7, <1>8 DEF IdsInv

LEMMA SendingIds ==
  ASSUME TypeOK, IdsInv, NEW t \in Threads, Sending(t)
  PROVE  IdsInv'
<1>1. ASSUME pc'[t] = "idle" \/ (pc'[t] \in {"lock", "header"} /\ msg'[t] = msg[t]
                                   /\ pc[t] \in {"send", "lock"}),
             pc[t] # "body", \A u \in Threads : u # t => pc'[u] = pc[u] /\ msg'[u] = msg[u],
             UNCHANGED <<stream, asked, inbox, s_pendingRequests, info>>, NitzOnly'
      PROVE  IdsInv'
  <2>1. \A u \in Threads : \A id \in Nat :
          Carries(u, id)' => Carries(u, id) /\ (pc[u] = "body" => pc'[u] = "body")
    BY <1>1 DEF Carries, SendingReply
  <2>2. QED BY <1>1, <2>1, InboxAndPending, IdsShrink
<1>3. ASSUME NEW to \in {"lock", "header"}, pc[t] \in {"send", "lock"}, pc' = [pc EXCEPT ![t] = to],
             UNCHANGED <<stream, asked, inbox, requests, msg, nitz>>
      PROVE  IdsInv'
  <2>1. pc'[t] = to /\ \A u \in Threads : u # t => pc'[u] = pc[u]
    BY <1>3, TypeGroups DEF ThreadsOK
  <2>2. NitzOnly'
    BY <1>3, <2>1 DEF IdsInv, NitzOnly, nitz
  <2>3. UNCHANGED <<s_pendingRequests, info>>
    BY <1>3 DEF requests
  <2>4. QED BY <1>1, <1>3, <2>1, <2>2, <2>3
<1>4. CASE CheckSocket(t)
  <2>1. CASE ReturnFromSend(t, FALSE) /\ UNCHANGED stream
    BY <2>1, DropIds
  <2>2. CASE /\ pc' = [pc EXCEPT ![t] = "lock"]
             /\ UNCHANGED <<requests, msg, stream, nitz, clients, asked>>
    BY <1>3, <1>4, <2>2 DEF CheckSocket, clients
  <2>3. QED BY <1>4, <2>1, <2>2, Zenon DEF CheckSocket
<1>5. CASE LockWrite(t)
  BY <1>3, <1>5 DEF LockWrite, clients
<1>6. CASE WriteFails(t)
  BY <1>6, DropIds DEF WriteFails
<1>7. CASE StoreNITZ(t)
  <2>1. /\ pc[t] = "store" /\ nitz' = msg[t] /\ pc' = [pc EXCEPT ![t] = "idle"]
        /\ msg' = [msg EXCEPT ![t] = NoMessage]
        /\ UNCHANGED <<stream, asked, inbox, s_pendingRequests, info>>
    BY <1>7 DEF StoreNITZ, nitz, requests, clients
  <2>2. pc'[t] = "idle" /\ \A u \in Threads : u # t => pc'[u] = pc[u] /\ msg'[u] = msg[u]
    BY <2>1, TypeGroups DEF ThreadsOK
  <2>3. NitzOnly'
    BY <2>1, <2>2 DEF IdsInv, NitzOnly
  <2>4. QED BY <1>1, <2>1, <2>2, <2>3
<1>8. QED BY <1>4, <1>5, <1>6, <1>7, HeaderIds, BodyIds DEF Sending

-----------------------------------------------------------------------------
(* Requests come in, are enqueued and completed *)

\* A client's request gets a number nobody has used.
LEMMA ClientIds ==
  ASSUME TypeOK, IdsInv, NEW c \in Conns, NEW kind, ClientSends(c, kind)
  PROVE  IdsInv'
<1> DEFINE new == asked + 1
<1> DEFINE n == Len(inbox[c])
<1>1. /\ asked' = new /\ inbox' = [inbox EXCEPT ![c] = Append(@, [id |-> new, kind |-> kind])]
      /\ UNCHANGED <<stream, s_pendingRequests, info, pc, msg, nitz>>
  BY DEF ClientSends, sending, requests
<1>2. inbox[c] \in Seq(Records) /\ inbox \in [Conns -> Seq(Records)] /\ asked \in Nat
  BY TypeGroups DEF ClientsOK, CountersOK
<1>3. /\ n \in Nat /\ DOMAIN inbox[c] = 1..n /\ DOMAIN inbox'[c] = 1..(n + 1)
      /\ \A d \in Conns : d # c => inbox'[d] = inbox[d]
      /\ \A i \in 1..n : inbox'[c][i] = inbox[c][i]
      /\ inbox'[c][n + 1].id = new
  BY <1>1, <1>2
<1>4. new \in Nat /\ new > asked
  BY <1>2
<1>5. Unused(new)
  BY <1>4 DEF IdsInv, Fresh
<1> HIDE DEF n, new
<1>6. ASSUME NEW d \in Conns, NEW i \in DOMAIN inbox'[d]
      PROVE  \/ i \in DOMAIN inbox[d] /\ inbox'[d][i] = inbox[d][i] /\ inbox[d][i].id # new
             \/ d = c /\ i = n + 1 /\ inbox'[d][i].id = new
  <2>1. CASE d # c \/ i \in 1..n
    <3>1. i \in DOMAIN inbox[d] /\ inbox'[d][i] = inbox[d][i]
      BY <1>3, <1>6, <2>1
    <3>2. inbox[d][i].id # new
      BY <1>5, <3>1 DEF Unused, InInbox
    <3>3. QED BY <3>1, <3>2
  <2>2. CASE d = c /\ i = n + 1
    BY <1>3, <2>2
  <2>3. QED BY <1>3, <1>6, <2>1, <2>2
<1>7. InboxOnce'
  <2>1. SUFFICES ASSUME NEW d \in Conns, NEW e \in Conns,
                        NEW i \in DOMAIN inbox'[d], NEW j \in DOMAIN inbox'[e],
                        inbox'[d][i].id = inbox'[e][j].id
                 PROVE  d = e /\ i = j
    BY DEF InboxOnce
  <2>2. CASE i \in DOMAIN inbox[d] /\ inbox'[d][i] = inbox[d][i] /\ inbox[d][i].id # new
    <3>1. j \in DOMAIN inbox[e] /\ inbox'[e][j] = inbox[e][j]
      BY <1>6, <2>1, <2>2
    <3>2. QED BY <2>1, <2>2, <3>1 DEF IdsInv, Singles, InboxOnce
  <2>3. CASE d = c /\ i = n + 1 /\ inbox'[d][i].id = new
    <3>1. e = c /\ j = n + 1
      BY <1>6, <2>1, <2>3
    <3>2. QED BY <2>3, <3>1
  <2>4. QED BY <1>6, <2>2, <2>3
<1>8. \A id \in Nat : InInbox(id)' => InInbox(id) \/ id = new
  <2>1. ASSUME NEW id \in Nat, InInbox(id)' PROVE InInbox(id) \/ id = new
    <3>1. PICK d \in Conns : \E i \in DOMAIN inbox'[d] : inbox'[d][i].id = id
      BY <2>1 DEF InInbox
    <3>2. PICK i \in DOMAIN inbox'[d] : inbox'[d][i].id = id
      BY <3>1
    <3>3. QED BY <1>6, <3>2 DEF InInbox
  <2>2. QED BY <2>1
<1>9. \A id \in Nat : /\ Waiting(id)' <=> Waiting(id)
                      /\ \A part : Out(part, id)' <=> Out(part, id)
                      /\ \A t \in Threads : Carries(t, id)' <=> Carries(t, id)
  BY <1>1 DEF Waiting, Out, IsReply, Carries, SendingReply
<1>10. Singles' /\ NitzOnly'
  <2>1. PendingOnce' /\ OutOnce' /\ CarriedOnce' /\ NitzOnly'
    BY <1>1, <1>9, PendingKept, OutKept, CarriedKept, NitzKept DEF IdsInv, Singles
  <2>2. QED BY <1>7, <2>1 DEF Singles
<1>11. ASSUME NEW id \in Nat PROVE OnePlace(id)'
  <2>1. CASE id = new
    BY <1>1, <1>5, <1>9, <2>1 DEF Unused, OnePlace
  <2>2. CASE id # new
    BY <1>1, <1>8, <1>9, <2>2 DEF IdsInv, OnePlace
  <2>3. QED BY <2>1, <2>2
<1>12. Fresh'
  <2>1. ASSUME NEW id \in Nat, id > asked' PROVE Unused(id)'
    <3>1. id > asked /\ id # new
      BY <1>1, <1>2, <2>1 DEF new
    <3>2. QED BY <1>8, <1>9, <3>1 DEF IdsInv, Fresh, Unused
  <2>2. QED BY <2>1 DEF Fresh
<1>13. QED BY <1>10, <1>11, <1>12 DEF IdsInv

\* The first record of an inbox is taken out.
LEMMA HeadTaken ==
  ASSUME TypeOK, InboxOnce, NEW c \in Conns, inbox[c] # <<>>,
         inbox' = [inbox EXCEPT ![c] = Tail(@)], NEW head, head = Head(inbox[c]).id
  PROVE  /\ InboxOnce'
         /\ InInbox(head) /\ ~InInbox(head)'
         /\ \A id \in Nat : InInbox(id)' => InInbox(id)
<1>1. inbox[c] \in Seq(Records) /\ inbox \in [Conns -> Seq(Records)]
  BY TypeGroups DEF ClientsOK
<1>2. /\ Head(inbox[c]) = inbox[c][1] /\ 1 \in DOMAIN inbox[c]
      /\ \A i \in DOMAIN inbox'[c] : /\ i \in Nat /\ i + 1 \in DOMAIN inbox[c] /\ i + 1 # 1
                                    /\ inbox'[c][i] = inbox[c][i + 1]
      /\ \A d \in Conns : d # c => inbox'[d] = inbox[d]
  BY <1>1
<1> DEFINE from(d, i) == IF d = c THEN i + 1 ELSE i
<1>3. ASSUME NEW d \in Conns, NEW i \in DOMAIN inbox'[d]
      PROVE  /\ from(d, i) \in DOMAIN inbox[d] /\ inbox'[d][i] = inbox[d][from(d, i)]
             /\ d = c => from(d, i) # 1
  BY <1>2
<1>4. InboxOnce'
  <2>1. SUFFICES ASSUME NEW d \in Conns, NEW e \in Conns,
                        NEW i \in DOMAIN inbox'[d], NEW j \in DOMAIN inbox'[e],
                        inbox'[d][i].id = inbox'[e][j].id
                 PROVE  d = e /\ i = j
    BY DEF InboxOnce
  <2>2. d = e /\ from(d, i) = from(e, j)
    <3> HIDE DEF from
    <3>1. QED BY <1>3, <2>1 DEF InboxOnce
  <2>3. d = c => i \in Nat /\ j \in Nat
    BY <1>2, <2>2
  <2>4. QED BY <2>2, <2>3
<1>5. InInbox(head)
  BY <1>2 DEF InInbox
<1>6. ASSUME NEW id, InInbox(id)' PROVE InInbox(id) /\ id # head
  <2> HIDE DEF from
  <2>1. PICK d \in Conns : \E i \in DOMAIN inbox'[d] : inbox'[d][i].id = id
    BY <1>6 DEF InInbox
  <2>2. PICK i \in DOMAIN inbox'[d] : inbox'[d][i].id = id
    BY <2>1
  <2>3. inbox[d][from(d, i)].id = id /\ from(d, i) \in DOMAIN inbox[d] /\ (d = c => from(d, i) # 1)
    BY <1>3, <2>2
  <2>4. id # inbox[c][1].id
    BY <1>2, <2>3 DEF InboxOnce
  <2>5. QED BY <1>2, <2>3, <2>4 DEF InInbox
<1>7. QED BY <1>4, <1>5, <1>6

\* A RequestInfo is filled in: what was pending stays pending.
LEMMA EnqueuedIds ==
  ASSUME TypeOK, CellsInv, PendingOnce, NEW p \in Cells, NEW id, NEW conn, NEW local,
         Enqueue(p, id, conn, local), local \/ ~Waiting(id)
  PROVE  /\ PendingOnce'
         /\ \A k \in Nat : Waiting(k)' => Waiting(k) \/ (~local /\ k = id)
<1>1. p \notin s_pendingRequests /\ s_pendingRequests' = s_pendingRequests \cup {p}
  BY DEF Enqueue, CellsInv, CellsOwned
<1>2. info'[p].token = id /\ info'[p].local = local /\ \A q \in Cells : q # p => info'[q] = info[q]
  BY TypeGroups DEF Enqueue, RequestInfo, RequestsOK
<1>3. s_pendingRequests \subseteq Cells
  BY TypeGroups DEF RequestsOK
<1>4. \A q \in s_pendingRequests : q # p /\ info'[q] = info[q]
  BY <1>1, <1>2, <1>3
<1>5. ASSUME ~local PROVE \A q \in s_pendingRequests : ~info[q].local => info[q].token # id
  BY <1>5 DEF Waiting
<1>6. PendingOnce'
  BY <1>1, <1>2, <1>4, <1>5 DEF PendingOnce
<1>7. QED BY <1>1, <1>2, <1>4, <1>6 DEF Waiting

LEMMA RecordIds ==
  ASSUME TypeOK, CellsInv, IdsInv, NextRecord
  PROVE  IdsInv'
<1>1. PICK p \in Cells : ProcessCommandBuffer(p)
  BY DEF NextRecord
<1>2. /\ peer # None /\ inbox[peer] # <<>> /\ inbox' = [inbox EXCEPT ![peer] = Tail(@)]
      /\ UNCHANGED <<pc, msg, nitz, stream, asked>>
  BY DEF NextRecord, sending
<1>3. peer \in Conns
  BY <1>2, TypeGroups DEF SocketOK
<1>4. PICK head \in Nat : head = Head(inbox[peer]).id
  <2>1. inbox[peer] \in Seq(Records)
    BY <1>3, TypeGroups DEF ClientsOK
  <2>2. Head(inbox[peer]) \in Records
    BY <1>2, <2>1
  <2>3. QED BY <2>2 DEF Records
<1>5. /\ InboxOnce' /\ InInbox(head) /\ ~InInbox(head)'
      /\ \A id \in Nat : InInbox(id)' => InInbox(id)
  BY <1>2, <1>3, <1>4, HeadTaken DEF IdsInv, Singles
<1>6. NitzOnly' /\ \A t \in Threads : \A id : Carries(t, id)' <=> Carries(t, id)
  BY <1>2, NitzKept DEF IdsInv, Carries, SendingReply
<1>7. CASE UNCHANGED requests
  <2>1. PendingOnce' /\ \A id \in Nat : Waiting(id)' => Waiting(id)
    BY <1>7, PendingKept DEF IdsInv, Singles, requests
  <2>2. QED BY <1>2, <1>5, <1>6, <2>1, IdsShrink
<1>8. CASE Enqueue(p, head, peer, FALSE)
  <2>1. OnePlace(head) /\ ~Waiting(head)
    BY <1>5 DEF IdsInv, OnePlace
  <2>2. PendingOnce' /\ \A id \in Nat : Waiting(id)' => Waiting(id) \/ id = head
    BY <1>8, <2>1, EnqueuedIds DEF IdsInv, Singles
  <2>3. \A id \in Nat : \A part : Out(part, id)' <=> Out(part, id)
    BY <1>2 DEF Out, IsReply
  <2>4. Singles'
    BY <1>2, <1>5, <1>6, <2>2, OutKept, CarriedKept DEF IdsInv, Singles
  <2>5. ASSUME NEW id \in Nat PROVE OnePlace(id)'
    BY <1>2, <1>5, <1>6, <2>1, <2>2, <2>3 DEF IdsInv, OnePlace
  <2>6. Fresh'
    BY <1>2, <1>5, <1>6, <2>2, <2>3 DEF IdsInv, Fresh, Unused
  <2>7. QED BY <1>6, <2>4, <2>5, <2>6 DEF IdsInv
<1>9. QED BY <1>1, <1>4, <1>7, <1>8, Zenon DEF ProcessCommandBuffer

\* A step that leaves inboxes, requests and streams alone and starts at most a message that is
\* no reply.
LEMMA OtherIds ==
  ASSUME TypeOK, IdsInv, NEW t \in Threads, NEW m, pc[t] = "idle", StartSend(t, m),
         m.what # "reply", UNCHANGED <<stream, asked, inbox, s_pendingRequests, info, nitz>>
  PROVE  IdsInv'
<1>1. /\ pc'[t] = "send" /\ msg'[t] = m
      /\ \A u \in Threads : u # t => pc'[u] = pc[u] /\ msg'[u] = msg[u]
  BY TypeGroups DEF StartSend, ThreadsOK
<1>2. \A u \in Threads : \A id \in Nat :
        Carries(u, id)' => Carries(u, id) /\ (pc[u] = "body" => pc'[u] = "body")
  BY <1>1 DEF Carries, SendingReply
<1>3. NitzOnly'
  BY <1>1 DEF IdsInv, NitzOnly, nitz
<1>4. QED BY <1>2, <1>3, InboxAndPending, IdsShrink

\* A step that sends nothing: requests may be taken off the list.
LEMMA QuietIds ==
  ASSUME IdsInv, UNCHANGED <<stream, asked, inbox, pc, msg>>, NitzOnly',
         s_pendingRequests' \subseteq s_pendingRequests,
         \A p \in s_pendingRequests : info'[p].local = info[p].local /\ info'[p].token = info[p].token
  PROVE  IdsInv'
<1>1. \A u \in Threads : \A id \in Nat :
        Carries(u, id)' => Carries(u, id) /\ (pc[u] = "body" => pc'[u] = "body")
  BY DEF Carries, SendingReply
<1>2. /\ InboxOnce' /\ \A id \in Nat : InInbox(id)' => InInbox(id)
      /\ PendingOnce' /\ \A id \in Nat : Waiting(id)' => Waiting(id)
  BY InboxKept, PendingKept DEF IdsInv, Singles
<1>3. QED BY <1>1, <1>2, IdsShrink

\* The first completion takes the request off the list and carries its number to the client.
LEMMA CompleteIds ==
  ASSUME TypeOK, IdsInv, NEW t \in Threads, NEW p \in Cells, RIL_onRequestComplete(t, p)
  PROVE  IdsInv'
<1>1. /\ UNCHANGED <<stream, asked, inbox, info, nitz>> /\ pc[t] = "idle"
      /\ s_pendingRequests' \subseteq s_pendingRequests
  BY Zenon DEF RIL_onRequestComplete, MayComplete, Unlinked, clients
<1>2. CASE UNCHANGED <<pc, msg>>
  BY <1>1, <1>2, QuietIds, NitzKept DEF IdsInv
<1>3. CASE /\ p \in s_pendingRequests /\ s_pendingRequests' = Unlinked(p)
           /\ ~info[p].local
           /\ StartSend(t, Message("reply", info[p].token, info[p].conn))
  <2>1. PICK token \in Nat : token = info[p].token
    BY TypeGroups, Bounds DEF RequestsOK, RequestInfos
  <2>2. /\ pc'[t] = "send" /\ msg'[t].what = "reply" /\ msg'[t].id = token
        /\ \A u \in Threads : u # t => pc'[u] = pc[u] /\ msg'[u] = msg[u]
    BY <1>3, <2>1, TypeGroups DEF StartSend, Message, ThreadsOK
  <2>3. Waiting(token) /\ ~Waiting(token)'
    BY <1>1, <1>3, <2>1 DEF IdsInv, Singles, PendingOnce, Waiting, Unlinked
  <2>4. OnePlace(token)
    BY DEF IdsInv
  <2>5. InboxOnce' /\ \A id \in Nat : InInbox(id)' <=> InInbox(id)
    BY <1>1, InboxKept DEF IdsInv, Singles
  <2>6. PendingOnce' /\ \A id \in Nat : Waiting(id)' => Waiting(id)
    BY <1>1, PendingKept DEF IdsInv, Singles
  <2>7. OutOnce' /\ \A part, id : Out(part, id)' <=> Out(part, id)
    BY <1>1, OutKept DEF IdsInv, Singles
  <2>8. /\ \A id \in Nat : Carries(t, id)' <=> id = token
        /\ \A u \in Threads : u # t =>
             pc'[u] = pc[u] /\ \A id \in Nat : Carries(u, id)' <=> Carries(u, id)
    BY <2>2 DEF Carries, SendingReply
  <2>9. /\ \A u \in Threads : ~Carries(u, token)
        /\ ~InInbox(token) /\ ~Out("header", token) /\ ~Out("body", token)
    BY <2>3, <2>4 DEF OnePlace
  <2>10. CarriedOnce'
    BY <2>8, <2>9 DEF IdsInv, Singles, CarriedOnce
  <2>11. ASSUME NEW id \in Nat PROVE OnePlace(id)'
    <3>1. CASE id = token
      BY <2>3, <2>5, <2>7, <2>9, <3>1 DEF OnePlace
    <3>2. CASE id # token
      <4>1. \A u \in Threads : Carries(u, id)' => Carries(u, id) /\ pc'[u] = pc[u]
        BY <2>8, <3>2
      <4>2. QED BY <2>5, <2>6, <2>7, <4>1 DEF IdsInv, OnePlace
    <3>3. QED BY <3>1, <3>2
  <2>12. Fresh'
    <3>1. ASSUME NEW id \in Nat, id > asked' PROVE Unused(id)'
      <4>1. Unused(id)
        BY <1>1, <3>1 DEF IdsInv, Fresh
      <4>2. id # token
        BY <2>3, <4>1 DEF Unused
      <4>3. QED BY <2>5, <2>6, <2>7, <2>8, <4>1, <4>2 DEF Unused
    <3>2. QED BY <3>1 DEF Fresh
  <2>13. NitzOnly'
    BY <1>1, <2>2 DEF IdsInv, NitzOnly, nitz
  <2>14. QED BY <2>5, <2>6, <2>7, <2>10, <2>11, <2>12, <2>13 DEF IdsInv, Singles
<1>4. QED BY <1>2, <1>3, Zenon DEF RIL_onRequestComplete

LEMMA DebugIds ==
  ASSUME TypeOK, CellsInv, IdsInv, Debug
  PROVE  IdsInv'
<1>1. ASSUME NEW p \in Cells, DebugRequest(p) PROVE IdsInv'
  <2>1. /\ asked' = asked + 1 /\ Enqueue(p, asked + 1, 0, TRUE)
        /\ UNCHANGED <<stream, inbox, pc, msg, nitz>>
    BY <1>1 DEF DebugRequest, sending, clients
  <2>2. PendingOnce' /\ \A id \in Nat : Waiting(id)' => Waiting(id)
    BY <2>1, EnqueuedIds DEF IdsInv, Singles
  <2>3. /\ InboxOnce' /\ \A id \in Nat : InInbox(id)' <=> InInbox(id)
        /\ OutOnce' /\ \A part, id : Out(part, id)' <=> Out(part, id)
    BY <2>1, InboxKept, OutKept DEF IdsInv, Singles
  <2>4. \A t \in Threads : \A id : Carries(t, id)' <=> Carries(t, id)
    BY <2>1 DEF Carries, SendingReply
  <2>5. Singles' /\ NitzOnly'
    BY <2>1, <2>2, <2>3, <2>4, CarriedKept, NitzKept DEF IdsInv, Singles
  <2>6. ASSUME NEW id \in Nat PROVE OnePlace(id)'
    BY <2>1, <2>2, <2>3, <2>4 DEF IdsInv, OnePlace
  <2>7. Fresh'
    <3>1. \A id \in Nat : id > asked' => id > asked
      BY <2>1, TypeGroups DEF CountersOK
    <3>2. QED BY <2>2, <2>3, <2>4, <3>1 DEF IdsInv, Fresh, Unused
  <2>8. QED BY <2>5, <2>6, <2>7 DEF IdsInv
<1>2. CASE DebugClose
  <2>1. UNCHANGED <<stream, asked, inbox, pc, msg, s_pendingRequests, info, nitz>>
    BY <1>2 DEF DebugClose, sending, clients
  <2>2. QED BY <2>1, QuietIds, NitzKept DEF IdsInv
<1>3. QED BY <1>1, <1>2 DEF Debug

LEMMA EventLoopIds ==
  ASSUME TypeOK, CellsInv, IdsInv, EventLoop
  PROVE  IdsInv'
<1>1. ASSUME UNCHANGED <<stream, asked, inbox, pc, msg, s_pendingRequests, info, nitz>>
      PROVE  IdsInv'
  BY <1>1, QuietIds, NitzKept DEF IdsInv
<1>2. CASE WelcomeClient
  <2>1. Message("radio", 0, 0).what # "reply"
    BY DEF Message
  <2>2. QED BY <1>2, <2>1, LoopIsThread, OtherIds DEF WelcomeClient, At, requests, clients
<1>3. CASE SendLastNITZ
  <2>1. CASE UNCHANGED <<pc, msg>>
    BY <1>1, <1>3, <2>1 DEF SendLastNITZ, requests, clients
  <2>2. CASE nitz # None /\ StartSend(Loop, nitz)
    <3>1. nitz.what # "reply"
      BY <2>2 DEF IdsInv, NitzOnly
    <3>2. QED BY <1>3, <2>2, <3>1, LoopIsThread, OtherIds DEF SendLastNITZ, At, requests, clients
  <2>3. QED BY <1>3, <2>1, <2>2 DEF SendLastNITZ
<1>4. CASE FreeLastNITZ
  <2>1. /\ nitz' = None
        /\ UNCHANGED <<stream, asked, inbox, pc, msg, s_pendingRequests, info>>
    BY <1>4 DEF FreeLastNITZ, nitz, sending, requests, clients
  <2>2. NitzOnly'
    BY <2>1 DEF IdsInv, NitzOnly
  <2>3. QED BY <2>1, <2>2, QuietIds
<1>5. CASE CancelPending
  <2>1. /\ UNCHANGED <<stream, asked, inbox, pc, msg, s_pendingRequests, nitz>>
        /\ info' = [p \in Cells |-> Cancelled(info[p], p)]
    BY <1>5 DEF CancelPending, sending, clients
  <2>2. ASSUME NEW p \in s_pendingRequests
        PROVE  info'[p].local = info[p].local /\ info'[p].token = info[p].token
    <3>1. p \in Cells /\ info[p] \in RequestInfos
      BY TypeGroups DEF RequestsOK
    <3>2. QED BY <2>1, <3>1 DEF Cancelled, RequestInfos
  <2>3. QED BY <2>1, <2>2, QuietIds, NitzKept DEF IdsInv
<1>6. CASE AcceptClient \/ RejectClient \/ SelectFails \/ CommandsReady \/ OnRequestReturns
  BY <1>1, <1>6 DEF AcceptClient, RejectClient, SelectFails, CommandsReady, OnRequestReturns,
                    sending, requests, clients
<1>7. CASE NoMoreRecords \/ ReadFails \/ CloseCommand \/ ClearCommand
  BY <1>1, <1>7 DEF NoMoreRecords, ReadFails, CloseCommand, ClearCommand, sending, requests, clients
<1>8. QED BY <1>2, <1>3, <1>4, <1>5, <1>6, <1>7, RecordIds DEF EventLoop

LEMMA NextIds == TypeOK /\ CellsInv /\ IdsInv /\ [Next]_vars => IdsInv'
<1> SUFFICES ASSUME TypeOK, CellsInv, IdsInv, [Next]_vars PROVE IdsInv'
  OBVIOUS
<1>1. ASSUME UNCHANGED <<stream, asked, inbox, pc, msg, s_pendingRequests, info, nitz>>
      PROVE  IdsInv'
  BY <1>1, QuietIds, NitzKept DEF IdsInv
<1>2. ASSUME NEW t \in Threads, VendorCalls(t) PROVE IdsInv'
  <2>1. PICK what \in {"radio", "nitz"} : RIL_onUnsolicitedResponse(t, what)
    BY <1>2 DEF VendorCalls
  <2>2. Message(what, unsol + 1, 0).what # "reply"
    BY DEF Message
  <2>3. QED BY <2>1, <2>2, OtherIds DEF RIL_onUnsolicitedResponse, requests, clients
<1>3. ASSUME NEW p \in Cells, Completion(p) PROVE IdsInv'
  BY <1>3, ThreadsAssumption, CompleteIds DEF Completion
<1>4. CASE Client
  <2>1. CASE UNCHANGED <<stream, asked, inbox, pc, msg, s_pendingRequests, info, nitz>>
    BY <1>1, <2>1
  <2>2. QED BY <1>4, <2>1, ClientIds DEF Client, Connect, ClientHangsUp, sending, requests
<1>5. CASE UNCHANGED vars
  BY <1>1, <1>5 DEF vars, sending, requests, clients
<1>6. QED BY <1>2, <1>3, <1>4, <1>5, SendingIds, EventLoopIds, DebugIds DEF Next

\* However often vendor code completes a token, from whichever threads, and although the memory
\* of a RequestInfo is used again, the reply to a request is written at most once, header and
\* body (checkAndDequeueRequestInfo, RIL_onRequestComplete, sendResponseRaw).
THEOREM AnswersCorrect == Spec => []AnsweredOnce
<1>1. Init => CellsInv
  BY DEF Init, CellsInv, CellsOwned, EmptyHanded
<1>2. QED BY <1>1, InitIds, TypeCorrect, NextCells, NextIds, OnceAnswered, PTL DEF Spec

-----------------------------------------------------------------------------
(* The command socket does what RequestService promises                    *)

\* Nobody is served while the daemon listens or the number of the command socket is cleared,
\* and a connection that was not made has sent nothing.
SocketInv ==
  /\ s_fdCommand < 0 \/ listening \/ loop \in {"clear", "cancel"} => peer = None
  /\ \A c \in Conns : c > conns => inbox[c] = <<>>

LEMMA InitSocket == Init => SocketInv
BY DEF Init, SocketInv

LEMMA SocketKept ==
  ASSUME SocketInv, UNCHANGED <<loop, listening, s_fdCommand, conns, inbox>>, peer' \in {peer, None}
  PROVE  SocketInv'
BY DEF SocketInv

\* A step of the loop that goes to another handler.
LEMMA SocketMoved ==
  ASSUME SocketInv, UNCHANGED <<listening, s_fdCommand, conns, inbox>>, peer' \in {peer, None},
         loop' \notin {"clear", "cancel"}
  PROVE  SocketInv'
BY DEF SocketInv

LEMMA NextSocket == TypeOK /\ FramedInv /\ SocketInv /\ [Next]_vars => SocketInv'
<1> SUFFICES ASSUME TypeOK, FramedInv, SocketInv, [Next]_vars PROVE SocketInv'
  OBVIOUS
<1>1. ASSUME NEW t \in Threads, Sending(t) PROVE SocketInv'
  BY <1>1, SocketKept DEF Sending, CheckSocket, ReturnFromSend, LockWrite, WriteHeader, WriteBody,
                          WriteFails, StoreNITZ, events, socket, clients
<1>2. ASSUME NEW t \in Threads, VendorCalls(t) PROVE SocketInv'
  BY <1>2, SocketKept DEF VendorCalls, RIL_onUnsolicitedResponse, events, socket, clients
<1>3. ASSUME NEW p \in Cells, Completion(p) PROVE SocketInv'
  BY <1>3, SocketKept DEF Completion, RIL_onRequestComplete, events, socket, clients
<1>4. CASE Client
  <2>1. CASE Connect
    BY <2>1, TypeGroups DEF Connect, SocketInv, ClientsOK, Conns, events, socket
  <2>2. ASSUME NEW c \in Conns, NEW kind, ClientSends(c, kind) PROVE SocketInv'
    <3>1. /\ Connected(c) /\ UNCHANGED <<loop, listening, s_fdCommand, conns, peer>>
          /\ \A d \in Conns : d # c => inbox'[d] = inbox[d]
      BY <2>2 DEF ClientSends, events, socket
    <3>2. c <= conns
      BY <3>1, NoneAssumption DEF Connected, FramedInv, BacklogInLine, ToSet, Conns
    <3>3. QED BY <3>1, <3>2, TypeGroups DEF SocketInv, ClientsOK, Conns
  <2>3. ASSUME NEW c \in Conns, ClientHangsUp(c) PROVE SocketInv'
    BY <2>3, SocketKept DEF ClientHangsUp, events, socket
  <2>4. QED BY <1>4, <2>1, <2>2, <2>3 DEF Client
<1>5. CASE Debug
  <2>1. ASSUME NEW p \in Cells, DebugRequest(p) PROVE SocketInv'
    BY <2>1, SocketMoved DEF DebugRequest, socket, clients
  <2>2. CASE DebugClose
    BY <2>2 DEF DebugClose, SocketInv, clients
  <2>3. QED BY <1>5, <2>1, <2>2 DEF Debug
<1>6. CASE EventLoop
  <2>1. CASE AcceptClient
    <3>1. /\ ~listening' /\ s_fdCommand' = CommandFd /\ loop' = "accepted"
          /\ UNCHANGED <<conns, inbox>>
      BY <2>1 DEF AcceptClient
    <3>2. QED BY <3>1 DEF SocketInv, CommandFd
  <2>2. CASE RejectClient \/ WelcomeClient \/ SendLastNITZ \/ FreeLastNITZ \/ SelectFails
    BY <2>2, SocketMoved DEF RejectClient, WelcomeClient, SendLastNITZ, FreeLastNITZ, SelectFails,
                             socket, clients
  <2>3. CASE CommandsReady \/ OnRequestReturns \/ NoMoreRecords \/ ReadFails
    BY <2>3, SocketMoved DEF CommandsReady, OnRequestReturns, NoMoreRecords, ReadFails,
                             socket, clients
  <2>4. CASE CloseCommand \/ ClearCommand
    BY <2>4 DEF CloseCommand, ClearCommand, At, SocketInv, clients
  <2>5. CASE CancelPending
    BY <2>5 DEF CancelPending, At, SocketInv, socket, clients
  <2>6. CASE NextRecord
    <3>1. /\ At("read") /\ peer # None /\ UNCHANGED <<listening, s_fdCommand, conns, peer>>
          /\ inbox' = [inbox EXCEPT ![peer] = Tail(@)] /\ inbox[peer] # <<>>
          /\ loop' \in {loop, "vendor"}
      BY <2>6 DEF NextRecord, ProcessCommandBuffer, socket
    <3>2. QED BY <3>1, TypeGroups DEF SocketInv, At, ClientsOK, SocketOK
  <2>7. QED BY <1>6, <2>1, <2>2, <2>3, <2>4, <2>5, <2>6 DEF EventLoop
<1>7. CASE UNCHANGED vars
  BY <1>7, SocketKept DEF vars, events, socket, clients
<1>8. QED BY <1>1, <1>2, <1>3, <1>4, <1>5, <1>6, <1>7 DEF Next

ServiceStutter == UNCHANGED <<peer, backlog, Sent, Due, Replied>>
ServiceStep == Service!QNext \/ ServiceStutter

\* What is known of a state when its steps are mapped.
ServiceInv == RepliesInv /\ IdsInv /\ FramedInv /\ CellsInv /\ SocketInv

\* The numbers and connections of a request.
LEMMA DueIs ==
  \A id, c : Service!Request(id, c) \in Due
             <=> id \in 0..MaxRequests /\ c \in Conns /\ Awaited(id, c)
BY DEF Due, ClientRequests, Service!Request

LEMMA RepliedIs ==
  \A id, c : Service!Request(id, c) \in Replied
             <=> id \in 0..MaxRequests /\ c \in Conns /\ Told(id, c)
BY DEF Replied, ClientRequests, Service!Request

\* Two sets of requests are the same if they agree on each.
LEMMA SameDue ==
  ASSUME \A id \in 0..MaxRequests, c \in Conns : Awaited(id, c)' <=> Awaited(id, c)
  PROVE  Due' = Due
BY DEF Due, ClientRequests

LEMMA SameReplied ==
  ASSUME UNCHANGED stream
  PROVE  Replied' = Replied
BY DEF Replied, Told, ClientRequests

LEMMA SameSent ==
  ASSUME UNCHANGED <<peer, backlog, inbox>>
  PROVE  Sent' = Sent
BY DEF Sent, Open

\* Nothing is due when nobody is served.
LEMMA NothingDue ==
  ASSUME peer = None
  PROVE  Due = {}
<1>1. \A c \in Conns : c # peer
  BY NoneAssumption DEF Conns
<1>2. QED BY <1>1 DEF Due, Awaited, ClientRequests

\* A step that changes neither requests nor connections and starts or ends no reply.
LEMMA QuietService ==
  ASSUME UNCHANGED <<peer, backlog, inbox, stream, s_pendingRequests, info>>,
         \A t \in Threads : SendingReply(t)' \/ SendingReply(t) =>
           SendingReply(t)' /\ SendingReply(t) /\ msg'[t] = msg[t]
  PROVE  ServiceStutter
<1>1. ASSUME NEW id, NEW c PROVE Awaited(id, c)' <=> Awaited(id, c)
  <2> DEFINE m == Message("reply", id, c)
  <2>1. m.what = "reply"
    BY DEF Message
  <2> HIDE DEF m
  <2>2. \A t \in Threads : (pc'[t] \in {"send", "lock", "header", "body"} /\ msg'[t] = m)
                          <=> (pc[t] \in {"send", "lock", "header", "body"} /\ msg[t] = m)
    BY <2>1 DEF SendingReply
  <2>3. QED BY <2>2 DEF Awaited, m
<1>2. \A id, c : Awaited(id, c)' <=> Awaited(id, c)
  BY <1>1
<1>3. QED BY <1>2, SameDue, SameReplied, SameSent DEF ServiceStutter

\* The connection that is served ends.
LEMMA EndService ==
  ASSUME TypeOK, FramedInv, peer' = None, UNCHANGED <<backlog, inbox, stream>>
  PROVE  ServiceStep
<1>1. Due' = {} /\ Replied' = Replied
  <2>1. \A c \in Conns : c # peer'
    BY NoneAssumption DEF Conns
  <2>2. Due' = {}
    BY <2>1 DEF Due, Awaited, ClientRequests
  <2>3. QED BY <2>2, SameReplied
<1>2. CASE peer = None
  <2>1. Due = {} /\ Sent' = Sent
    BY <1>2, NothingDue, SameSent
  <2>2. QED BY <1>1, <1>2, <2>1 DEF ServiceStep, ServiceStutter
<1>3. CASE peer # None
  <2>1. peer \notin ToSet(backlog) /\ peer \in Conns
    BY <1>3, TypeGroups DEF FramedInv, BacklogInLine, ToSet, SocketOK
  <2>2. \A c \in Conns : Open(c)' <=> c \in ToSet(backlog)
    BY NoneAssumption DEF Open, Conns
  <2>3. Sent' = [Sent EXCEPT ![peer] = <<>>]
    BY <2>1, <2>2 DEF Sent, Open
  <2>4. Service!End
    BY <1>1, <1>3, <2>3 DEF Service!End
  <2>5. QED BY <2>4 DEF ServiceStep, Service!QNext
<1>4. QED BY <1>2, <1>3

LEMMA ArriveService ==
  ASSUME TypeOK, ServiceInv, Connect
  PROVE  ServiceStep
<1> DEFINE c == conns + 1
<1>1. /\ backlog' = Append(backlog, c)
      /\ UNCHANGED <<peer, inbox, stream, s_pendingRequests, info, pc, msg>>
      /\ c \in Conns /\ inbox[c] = <<>>
  BY TypeGroups, Bounds DEF Connect, ClientsOK, Conns, ServiceInv, SocketInv, socket, requests, sending
<1>2. backlog \in Seq(Conns) /\ conns \in Nat
  BY TypeGroups DEF ClientsOK
<1>3. c # peer /\ \A i \in DOMAIN backlog : backlog[i] # c
  <2>1. peer # None => peer \in Nat /\ peer <= conns
    BY TypeGroups DEF SocketOK, Conns, ServiceInv, FramedInv, BacklogInLine
  <2>2. c # None
    BY <1>1, NoneAssumption DEF Conns
  <2>3. \A i \in DOMAIN backlog : backlog[i] <= conns /\ backlog[i] \in Nat
    <3>1. \A i \in DOMAIN backlog : backlog[i] \in Conns
      BY <1>2
    <3>2. \A i \in DOMAIN backlog : backlog[i] <= conns
      BY DEF ServiceInv, FramedInv, BacklogInLine
    <3>3. QED BY <3>1, <3>2, Bounds DEF Conns
  <2>4. c # peer
    BY <1>2, <2>1, <2>2
  <2>5. \A i \in DOMAIN backlog : backlog[i] # c
    BY <1>2, <2>3
  <2>6. QED BY <2>4, <2>5
<1>4. \A d : d \in ToSet(backlog') <=> d \in ToSet(backlog) \/ d = c
  <2>1. /\ Len(backlog) \in Nat /\ DOMAIN backlog = 1..Len(backlog)
        /\ DOMAIN backlog' = 1..(Len(backlog) + 1)
        /\ backlog'[Len(backlog) + 1] = c
        /\ \A i \in 1..Len(backlog) : backlog'[i] = backlog[i]
    BY <1>1, <1>2
  <2>2. QED BY <2>1 DEF ToSet
<1> HIDE DEF c
<1>5. Sent' = Sent
  <2>1. ~Open(c)
    BY <1>3 DEF Open, ToSet
  <2>2. \A d \in Conns : (IF Open(d)' THEN inbox'[d] ELSE <<>>) = (IF Open(d) THEN inbox[d] ELSE <<>>)
    BY <1>1, <1>4, <2>1 DEF Open
  <2>3. QED BY <2>2 DEF Sent
<1>6. Due' = Due
  BY <1>1 DEF Due, Awaited
<1>7. Service!Arrive(c)
  BY <1>1, <1>3, <1>5, <1>6, SameReplied DEF Service!Arrive, Service!Here
<1>8. QED BY <1>1, <1>7 DEF ServiceStep, Service!QNext

LEMMA ServeService ==
  ASSUME TypeOK, ServiceInv, AcceptClient
  PROVE  ServiceStep
<1>1. /\ listening /\ backlog # <<>> /\ peer' = Head(backlog) /\ backlog' = Tail(backlog)
      /\ pc[Loop] = "idle" /\ UNCHANGED <<inbox, stream, s_pendingRequests, info, pc, msg>>
  BY DEF AcceptClient, At, requests, sending
<1>2. backlog \in Seq(Conns)
  BY TypeGroups DEF ClientsOK
<1>3. peer = None /\ Due = {}
  BY <1>1, NothingDue DEF ServiceInv, SocketInv
<1>4. Due' = {}
  <2>1. \A p \in s_pendingRequests : info[p].local \/ info[p].cancelled
    BY <1>1, TypeGroups DEF ServiceInv, RepliesInv, OneAtATime, Owing, RequestsOK
  <2>2. \A t \in Threads : ~SendingReply(t)
    BY <1>1 DEF ServiceInv, RepliesInv, RepliesUnderWay, SendingReply
  <2>3. ASSUME NEW id, NEW c PROVE ~Awaited(id, c)'
    BY <1>1, <2>1, <2>2 DEF Awaited, SendingReply, Message
  <2>4. QED BY <2>3 DEF Due, ClientRequests
<1>5. Sent' = Sent
  <2>1. /\ Len(backlog) \in Nat \ {0} /\ DOMAIN backlog = 1..Len(backlog)
        /\ Head(backlog) = backlog[1]
        /\ DOMAIN backlog' = 1..(Len(backlog) - 1)
        /\ \A i \in 1..(Len(backlog) - 1) : backlog'[i] = backlog[i + 1]
    BY <1>1, <1>2
  <2>2. \A i \in DOMAIN backlog : i = 1 \/ (i - 1 \in DOMAIN backlog' /\ backlog'[i - 1] = backlog[i])
    BY <2>1
  <2>3. \A i \in DOMAIN backlog' : i + 1 \in DOMAIN backlog
    BY <2>1
  <2>4. \A c \in Conns : Open(c)' <=> Open(c)
    BY <1>1, <1>3, <2>1, <2>2, <2>3, NoneAssumption DEF Open, ToSet, Conns
  <2>5. QED BY <1>1, <2>4 DEF Sent
<1>6. Service!Serve
  BY <1>1, <1>3, <1>4, <1>5, SameReplied DEF Service!Serve
<1>7. QED BY <1>6 DEF ServiceStep, Service!QNext

LEMMA AskService ==
  ASSUME TypeOK, ServiceInv, NEW c \in Conns, NEW kind \in {"request", "unsupported", "malformed"},
         ClientSends(c, kind)
  PROVE  ServiceStep
<1> DEFINE id == asked + 1
<1>1. /\ Connected(c) /\ id \in 0..MaxRequests
      /\ inbox' = [inbox EXCEPT ![c] = Append(@, [id |-> id, kind |-> kind])]
      /\ UNCHANGED <<peer, backlog, stream, s_pendingRequests, info, pc, msg>>
  BY TypeGroups, Bounds DEF ClientSends, CountersOK, socket, requests, sending
<1>2. Open(c) /\ c \in Service!Here
  BY <1>1 DEF Connected, Open, Service!Here, ToSet
<1>3. id \in Nat /\ Unused(id)
  BY TypeGroups DEF ServiceInv, IdsInv, Fresh, CountersOK
<1> HIDE DEF id
<1>4. ~Service!InUse(id)
  <2>1. ASSUME NEW d \in Conns, NEW i \in DOMAIN Sent[d] PROVE Sent[d][i].id # id
    <3>1. Sent[d] = inbox[d] \/ Sent[d] = <<>>
      BY DEF Sent
    <3>2. Sent[d] = inbox[d]
      BY <2>1, <3>1
    <3>3. QED BY <1>3, <2>1, <3>2 DEF Unused, InInbox
  <2>2. ASSUME NEW r \in Due PROVE r.id # id
    <3>1. SUFFICES ASSUME r.id = id PROVE FALSE
      OBVIOUS
    <3>2. Awaited(id, r.client)
      BY <2>2, <3>1 DEF Due
    <3>3. CASE \E p \in s_pendingRequests : ~info[p].local /\ info[p].token = id
      BY <1>3, <3>3 DEF Unused, Waiting
    <3>4. CASE \E t \in Threads : SendingReply(t) /\ msg[t].id = id
      BY <1>3, <3>4 DEF Unused, Carries
    <3>5. QED BY <3>2, <3>3, <3>4 DEF Awaited, SendingReply, Message
  <2>3. ASSUME NEW r \in Replied PROVE r.id # id
    <3>1. Told(r.id, r.client) /\ r.client \in Conns
      BY <2>3 DEF Replied, ClientRequests
    <3>2. Out("body", r.id)
      BY <3>1 DEF Told, Out, IsReply
    <3>3. QED BY <1>3, <3>2 DEF Unused
  <2>4. QED BY <2>1, <2>2, <2>3 DEF Service!InUse
<1>5. Sent' = [Sent EXCEPT ![c] = Append(@, [id |-> id, kind |-> kind])]
  <2>1. inbox \in [Conns -> Seq(Records)]
    BY TypeGroups DEF ClientsOK
  <2>2. Sent[c] = inbox[c] /\ \A d : Open(d)' <=> Open(d)
    BY <1>1, <1>2 DEF Sent, Open
  <2>3. QED BY <1>1, <1>2, <2>1, <2>2 DEF Sent
<1>6. Due' = Due
  BY <1>1 DEF Due, Awaited
<1>7. Service!Ask(c, id, kind)
  BY <1>1, <1>2, <1>4, <1>5, <1>6, SameReplied DEF Service!Ask
<1>8. QED BY <1>1, <1>7 DEF ServiceStep, Service!QNext

\* When two of the records that carry a request are the same.
LEMMA SameInfo ==
  \A x \in RequestInfos : \A id, c :
    x = [token |-> id, conn |-> c, local |-> FALSE, cancelled |-> FALSE]
    <=> x.token = id /\ x.conn = c /\ ~x.local /\ ~x.cancelled
<1>1. \A x \in RequestInfos :
        /\ x = [token |-> x.token, conn |-> x.conn, local |-> x.local, cancelled |-> x.cancelled]
        /\ x.local \in BOOLEAN /\ x.cancelled \in BOOLEAN
  BY DEF RequestInfos
<1>2. QED BY <1>1

LEMMA SameMessage ==
  \A id, c, k, d : Message("reply", id, c) = Message("reply", k, d) <=> id = k /\ c = d
BY DEF Message

\* What a RequestInfo that is filled in adds to what is awaited.
LEMMA EnqueuedService ==
  ASSUME TypeOK, ServiceInv, NEW p \in Cells, NEW id, NEW conn, NEW local \in BOOLEAN,
         Enqueue(p, id, conn, local), UNCHANGED <<peer, pc, msg>>
  PROVE  \A k, c : Awaited(k, c)' <=> Awaited(k, c) \/ (~local /\ k = id /\ c = conn /\ c = peer)
<1>1. p \notin s_pendingRequests /\ s_pendingRequests' = s_pendingRequests \cup {p}
  BY DEF Enqueue, ServiceInv, CellsInv, CellsOwned
<1>2. info'[p] = RequestInfo(id, conn, local) /\ \A q \in s_pendingRequests : info'[q] = info[q]
  <2>1. info \in [Cells -> RequestInfos] /\ s_pendingRequests \subseteq Cells
    BY TypeGroups DEF RequestsOK
  <2>2. QED BY <1>1, <2>1 DEF Enqueue
<1>3. ASSUME NEW k, NEW c PROVE Awaited(k, c)' <=> Awaited(k, c) \/ (~local /\ k = id /\ c = conn /\ c = peer)
  <2> DEFINE r == [token |-> k, conn |-> c, local |-> FALSE, cancelled |-> FALSE]
  <2>1. info'[p] = r <=> ~local /\ k = id /\ c = conn
    <3>1. info'[p] = [token |-> id, conn |-> conn, local |-> local, cancelled |-> FALSE]
      BY <1>2 DEF RequestInfo
    <3>2. (info'[p]).token = id /\ (info'[p]).conn = conn /\ (info'[p]).local = local
      BY <3>1
    <3>3. r.token = k /\ r.conn = c /\ r.local = FALSE
      OBVIOUS
    <3>4. info'[p] = r => ~local /\ k = id /\ c = conn
      BY <3>2, <3>3
    <3>5. ~local /\ k = id /\ c = conn => info'[p] = r
      <4>1. ~local => local = FALSE
        OBVIOUS
      <4>2. QED BY <3>1, <4>1
    <3>6. QED BY <3>4, <3>5
  <2> HIDE DEF r
  <2>2. (\E q \in s_pendingRequests' : info'[q] = r)
        <=> (\E q \in s_pendingRequests : info[q] = r) \/ (~local /\ k = id /\ c = conn)
    BY <1>1, <1>2, <2>1
  <2>3. QED BY <2>2 DEF Awaited, r
<1>4. QED BY <1>3

LEMMA TakeUpService ==
  ASSUME TypeOK, ServiceInv, NextRecord
  PROVE  ServiceStep
<1>1. PICK p \in Cells : ProcessCommandBuffer(p)
  BY DEF NextRecord
<1> DEFINE head == Head(inbox[peer])
<1>2. /\ peer # None /\ inbox[peer] # <<>> /\ inbox' = [inbox EXCEPT ![peer] = Tail(@)]
      /\ UNCHANGED <<peer, backlog, pc, msg, stream>>
  BY DEF NextRecord, socket, sending
<1>3. peer \in Conns /\ inbox \in [Conns -> Seq(Records)]
  BY <1>2, TypeGroups DEF SocketOK, ClientsOK
<1>4. head \in Records
  BY <1>2, <1>3
<1>5. head.id \in 0..MaxRequests
  BY <1>4, Bounds DEF Records
<1>6. Sent[peer] = inbox[peer] /\ Sent' = [Sent EXCEPT ![peer] = Tail(@)]
  <2>1. Open(peer) /\ \A d : Open(d)' <=> Open(d)
    BY <1>2 DEF Open
  <2>2. QED BY <1>2, <1>3, <2>1 DEF Sent
<1>7. Due' = Due \cup (IF head.kind \in {"unsupported"} THEN {} ELSE {Service!Request(head.id, peer)})
  <2>1. CASE head.kind = "unsupported"
    <3>1. UNCHANGED <<s_pendingRequests, info>>
      BY <1>1, <2>1 DEF ProcessCommandBuffer, requests
    <3>2. Due' = Due
      BY <1>2, <3>1 DEF Due, Awaited
    <3>3. QED BY <2>1, <3>2
  <2>2. CASE head.kind # "unsupported"
    <3>1. Enqueue(p, head.id, peer, FALSE)
      BY <1>1, <2>2 DEF ProcessCommandBuffer
    <3> HIDE DEF head
    <3>2. \A k, c : Awaited(k, c)'
                    <=> Awaited(k, c) \/ (~FALSE /\ k = head.id /\ c = peer /\ c = peer)
      BY <1>2, <3>1, EnqueuedService, Zenon
    <3>3. Due' = Due \cup {Service!Request(head.id, peer)}
      <4>1. ASSUME NEW r \in ClientRequests
            PROVE  r = Service!Request(head.id, peer) <=> r.id = head.id /\ r.client = peer
        <5>1. r = [id |-> r.id, client |-> r.client]
          BY <4>1 DEF ClientRequests
        <5>2. QED BY <5>1 DEF Service!Request
      <4>2. Service!Request(head.id, peer) \in ClientRequests
        BY <1>3, <1>5 DEF ClientRequests, Service!Request
      <4>3. QED BY <3>2, <4>1, <4>2 DEF Due
    <3>4. QED BY <2>2, <3>3
  <2>3. QED BY <2>1, <2>2
<1>8. Service!TakeUp
  BY <1>2, <1>6, <1>7, SameReplied DEF Service!TakeUp
<1>9. QED BY <1>8 DEF ServiceStep, Service!QNext

LEMMA DebugService ==
  ASSUME TypeOK, ServiceInv, Debug
  PROVE  ServiceStep
<1>1. ASSUME NEW p \in Cells, DebugRequest(p) PROVE ServiceStep
  <2>1. Enqueue(p, asked + 1, 0, TRUE) /\ UNCHANGED <<peer, backlog, inbox, stream, pc, msg>>
    BY <1>1 DEF DebugRequest, socket, sending, clients
  <2>2. \A k, c : Awaited(k, c)' <=> Awaited(k, c)
    BY <2>1, EnqueuedService
  <2>3. QED BY <2>1, <2>2, SameDue, SameSent, SameReplied DEF ServiceStep, ServiceStutter
<1>2. CASE DebugClose
  BY <1>2, EndService DEF DebugClose, ServiceInv, sending, clients
<1>3. QED BY <1>1, <1>2 DEF Debug

\* A completion takes the request from the list to the thread that will answer it.
LEMMA CompleteService ==
  ASSUME TypeOK, ServiceInv, NEW t \in Threads, NEW p \in Cells, RIL_onRequestComplete(t, p)
  PROVE  ServiceStep
<1>1. UNCHANGED <<peer, backlog, inbox, stream, info>> /\ pc[t] = "idle"
  BY DEF RIL_onRequestComplete, MayComplete, socket, clients
<1>2. info[p] \in RequestInfos
  BY TypeGroups DEF RequestsOK
<1>3. ASSUME \A id, c : Awaited(id, c)' <=> Awaited(id, c) PROVE ServiceStep
  BY <1>1, <1>3, SameDue, SameSent, SameReplied DEF ServiceStep, ServiceStutter
<1>4. CASE UNCHANGED <<s_pendingRequests, pc, msg>>
  BY <1>1, <1>3, <1>4 DEF Awaited
<1>5. CASE /\ s_pendingRequests' = Unlinked(p) /\ UNCHANGED <<pc, msg>>
           /\ info[p].local \/ info[p].cancelled
  <2>1. ASSUME NEW id, NEW c PROVE Awaited(id, c)' <=> Awaited(id, c)
    <3> DEFINE d == [token |-> id, conn |-> c, local |-> FALSE, cancelled |-> FALSE]
    <3>1. info[p] # d
      BY <1>2, <1>5, SameInfo
    <3> HIDE DEF d
    <3>2. (\E q \in s_pendingRequests' : info'[q] = d) <=> (\E q \in s_pendingRequests : info[q] = d)
      BY <1>1, <1>5, <3>1 DEF Unlinked
    <3>3. QED BY <1>1, <1>5, <3>2 DEF Awaited, d
  <2>2. QED BY <1>3, <2>1
<1>6. CASE /\ p \in s_pendingRequests /\ s_pendingRequests' = Unlinked(p)
           /\ ~info[p].local /\ ~info[p].cancelled
           /\ StartSend(t, Message("reply", info[p].token, info[p].conn))
  <2> DEFINE due(id, c) == [token |-> id, conn |-> c, local |-> FALSE, cancelled |-> FALSE]
  <2>1. /\ pc'[t] = "send" /\ msg'[t] = Message("reply", info[p].token, info[p].conn)
        /\ \A u \in Threads : u # t => pc'[u] = pc[u] /\ msg'[u] = msg[u]
    BY <1>6, TypeGroups DEF StartSend, ThreadsOK
  <2>2. \A id, c : info[p] = due(id, c) <=> msg'[t] = Message("reply", id, c)
    <3>1. ASSUME NEW id, NEW c
          PROVE  info[p] = due(id, c) <=> info[p].token = id /\ info[p].conn = c
      <4>1. info[p] = due(id, c)
            <=> info[p].token = id /\ info[p].conn = c /\ ~info[p].local /\ ~info[p].cancelled
        BY <1>2, SameInfo
      <4> HIDE DEF due
      <4>2. QED BY <1>6, <4>1
    <3>2. \A id, c : msg'[t] = Message("reply", id, c) <=> info[p].token = id /\ info[p].conn = c
      BY <2>1, SameMessage
    <3> HIDE DEF due
    <3>3. QED BY <3>1, <3>2
  <2>3. ASSUME NEW id, NEW c PROVE Awaited(id, c)' <=> Awaited(id, c)
    <3> DEFINE m == Message("reply", id, c)
    <3> DEFINE d == due(id, c)
    <3>1. info[p] = d <=> msg'[t] = m
      BY <2>2
    <3> HIDE DEF m, d, due
    <3>2. (\E q \in s_pendingRequests : info[q] = d)
          <=> (\E q \in s_pendingRequests' : info'[q] = d) \/ msg'[t] = m
      BY <1>1, <1>6, <3>1 DEF Unlinked
    <3>3. (\E u \in Threads : pc'[u] \in {"send", "lock", "header", "body"} /\ msg'[u] = m)
          <=> (\E u \in Threads : pc[u] \in {"send", "lock", "header", "body"} /\ msg[u] = m)
              \/ msg'[t] = m
      BY <1>1, <2>1
    <3>4. QED BY <1>1, <3>2, <3>3 DEF Awaited, m, d, due
  <2>4. QED BY <1>3, <2>3
<1>7. QED BY <1>4, <1>5, <1>6, Zenon DEF RIL_onRequestComplete

\* The end of a call of sendResponseRaw: the reply of the thread is no longer due.
LEMMA ReturnService ==
  ASSUME TypeOK, NEW t \in Threads, NEW sent \in BOOLEAN, ReturnFromSend(t, sent)
  PROVE  /\ UNCHANGED <<backlog, inbox, s_pendingRequests, info>>
         /\ ~SendingReply(t)'
         /\ \A u \in Threads : u # t => pc'[u] = pc[u] /\ msg'[u] = msg[u]
<1>1. pc'[t] \in {"idle", "store"} /\ \A u \in Threads : u # t => pc'[u] = pc[u] /\ msg'[u] = msg[u]
  BY ReturnedThread
<1>2. UNCHANGED <<backlog, inbox, s_pendingRequests, info>>
  BY DEF ReturnFromSend, clients
<1>3. QED BY <1>1, <1>2 DEF SendingReply

\* The body of a message is written: if it is a reply, its client has its answer.
LEMMA AnswerService ==
  ASSUME TypeOK, ServiceInv, NEW t \in Threads, WriteBody(t)
  PROVE  ServiceStep
<1>1. /\ pc[t] = "body" /\ CanWrite /\ Written(t, "body") /\ ReturnFromSend(t, TRUE)
      /\ UNCHANGED peer /\ peer # None
  BY DEF WriteBody, CanWrite
<1>2. /\ UNCHANGED <<backlog, inbox, s_pendingRequests, info>> /\ ~SendingReply(t)'
      /\ \A u \in Threads : u # t => pc'[u] = pc[u] /\ msg'[u] = msg[u]
  BY <1>1, ReturnService
<1>3. Sent' = Sent
  BY <1>1, <1>2, SameSent
<1> DEFINE x == [part |-> "body", msg |-> msg[t]]
<1>4. /\ peer \in Conns
      /\ \A c \in Conns : \A id : Told(id, c)'
           <=> Told(id, c) \/ (c = peer /\ msg[t].what = "reply" /\ msg[t].id = id)
  <2> DEFINE n == Len(stream[peer])
  <2>1. /\ peer \in Conns /\ n \in Nat /\ DOMAIN stream[peer] = 1..n
        /\ \A c \in Conns : c # peer => stream'[c] = stream[c]
        /\ DOMAIN stream'[peer] = 1..(n + 1)
        /\ \A i \in 1..n : stream'[peer][i] = stream[peer][i]
        /\ stream'[peer][n + 1] = x
    BY <1>1, WrittenTo
  <2>2. x.part = "body" /\ x.msg = msg[t]
    OBVIOUS
  <2> HIDE DEF n, x
  <2>3. ASSUME NEW c \in Conns, NEW id
        PROVE  Told(id, c)' <=> Told(id, c) \/ (c = peer /\ msg[t].what = "reply" /\ msg[t].id = id)
    <3>1. CASE c # peer
      BY <2>1, <3>1 DEF Told
    <3>2. CASE c = peer
      BY <2>1, <2>2, <3>2 DEF Told
    <3>3. QED BY <3>1, <3>2
  <2>4. QED BY <2>1, <2>3
<1>5. CASE msg[t].what # "reply"
  <2>1. Replied' = Replied
    BY <1>4, <1>5 DEF Replied, ClientRequests
  <2>2. ASSUME NEW id, NEW c PROVE Awaited(id, c)' <=> Awaited(id, c)
    <3> DEFINE m == Message("reply", id, c)
    <3>1. m.what = "reply"
      BY DEF Message
    <3> HIDE DEF m
    <3>2. \A u \in Threads : (pc'[u] \in {"send", "lock", "header", "body"} /\ msg'[u] = m)
                            <=> (pc[u] \in {"send", "lock", "header", "body"} /\ msg[u] = m)
      BY <1>2, <1>5, <3>1 DEF SendingReply
    <3>3. QED BY <1>1, <1>2, <3>2 DEF Awaited, m
  <2>3. QED BY <1>1, <1>2, <1>3, <2>1, <2>2, SameDue DEF ServiceStep, ServiceStutter
<1>6. CASE msg[t].what = "reply"
  <2>1. SendingReply(t)
    BY <1>1, <1>6 DEF SendingReply
  <2>2. t = Loop /\ msg[t].conn = peer /\ \A u \in Threads : u # t => ~SendingReply(u)
    BY <1>1, <2>1 DEF ServiceInv, RepliesInv, RepliesUnderWay
  <2>3. PICK id \in Nat : msg[t].id = id
    BY TypeGroups DEF ThreadsOK, Messages
  <2>4. Carries(t, id)
    BY <2>1, <2>3 DEF Carries
  <2>5. id \in 0..MaxRequests /\ ~Waiting(id)
    <3>1. OnePlace(id) /\ (id > asked => Unused(id))
      BY DEF ServiceInv, IdsInv, Fresh
    <3>2. ~Waiting(id) /\ ~(id > asked)
      BY <2>4, <3>1 DEF OnePlace, Unused
    <3>3. QED BY <3>2, TypeGroups, Bounds DEF CountersOK
  <2>6. msg[t] = Message("reply", id, peer)
    <3>1. msg[t] \in Messages
      BY TypeGroups DEF ThreadsOK
    <3>2. msg[t] = [what |-> msg[t].what, id |-> msg[t].id, conn |-> msg[t].conn]
      BY <3>1 DEF Messages
    <3>3. QED BY <1>6, <2>2, <2>3, <3>2 DEF Message
  <2>7. ASSUME NEW k, NEW c PROVE Awaited(k, c)' <=> Awaited(k, c) /\ ~(k = id /\ c = peer)
    <3> DEFINE m == Message("reply", k, c)
    <3> DEFINE d == [token |-> k, conn |-> c, local |-> FALSE, cancelled |-> FALSE]
    <3>1. m.what = "reply" /\ (m = msg[t] <=> k = id /\ c = peer)
      BY <2>6, SameMessage DEF Message
    <3>2. d.token = k /\ ~d.local
      OBVIOUS
    <3> HIDE DEF m, d
    <3>3. k = id => ~\E q \in s_pendingRequests : info[q] = d
      BY <2>5, <3>2 DEF Waiting
    <3>4. ~\E u \in Threads : pc'[u] \in {"send", "lock", "header", "body"} /\ msg'[u] = m
      BY <1>2, <2>2, <3>1 DEF SendingReply
    <3>5. \A u \in Threads : pc[u] \in {"send", "lock", "header", "body"} /\ msg[u] = m => u = t
      BY <2>2, <3>1 DEF SendingReply
    <3>6. QED BY <1>1, <1>2, <3>1, <3>3, <3>4, <3>5 DEF Awaited, m, d
  <2> DEFINE r == Service!Request(id, peer)
  <2>8. Awaited(id, peer)
    BY <1>1, <2>6 DEF Awaited
  <2>9. r \in Due /\ r.client = peer
    BY <1>4, <2>5, <2>8, DueIs DEF Service!Request
  <2>10. ASSUME NEW q \in ClientRequests PROVE q = r <=> q.id = id /\ q.client = peer
    <3>1. q = [id |-> q.id, client |-> q.client]
      BY <2>10 DEF ClientRequests
    <3>2. QED BY <3>1 DEF Service!Request
  <2>11. r \in ClientRequests
    BY <2>9 DEF Due
  <2> HIDE DEF r
  <2>12. Due' = Due \ {r}
    BY <2>7, <2>10 DEF Due
  <2>13. Replied' = Replied \cup {r}
    <3>1. \A q \in ClientRequests : Told(q.id, q.client)' <=> Told(q.id, q.client) \/ q = r
      <4>1. ASSUME NEW q \in ClientRequests
            PROVE  Told(q.id, q.client)' <=> Told(q.id, q.client) \/ q = r
        <5>1. q.client \in Conns
          BY DEF ClientRequests
        <5>2. QED BY <1>4, <1>6, <2>3, <2>10, <5>1
      <4>2. QED BY <4>1
    <3>2. QED BY <2>11, <3>1 DEF Replied
  <2>14. Service!Answer(r)
    BY <1>1, <1>2, <1>3, <2>9, <2>12, <2>13 DEF Service!Answer
  <2>15. QED BY <2>9, <2>14 DEF ServiceStep, Service!QNext
<1>7. QED BY <1>5, <1>6

LEMMA SendingService ==
  ASSUME TypeOK, ServiceInv, NEW t \in Threads, Sending(t)
  PROVE  ServiceStep
<1>1. CASE CheckSocket(t)
  <2>1. pc[t] = "send"
    BY <1>1 DEF CheckSocket
  <2>2. CASE pc' = [pc EXCEPT ![t] = "lock"] /\ UNCHANGED <<socket, requests, msg, stream, clients>>
    <3>1. pc'[t] = "lock" /\ \A u \in Threads : u # t => pc'[u] = pc[u]
      BY <2>2, TypeGroups DEF ThreadsOK
    <3>2. \A u \in Threads : SendingReply(u)' <=> SendingReply(u)
      BY <2>1, <2>2, <3>1 DEF SendingReply
    <3>3. QED BY <2>2, <3>2, QuietService DEF ServiceStep, socket, requests, clients
  <2>3. CASE s_fdCommand < 0 /\ ReturnFromSend(t, FALSE) /\ UNCHANGED <<peer, stream>>
    BY <2>3, ReturnService, EndService DEF ServiceInv, SocketInv
  <2>4. QED BY <1>1, <2>2, <2>3, Zenon DEF CheckSocket
<1>2. CASE LockWrite(t)
  <2>1. /\ pc[t] = "lock" /\ pc'[t] = "header" /\ \A u \in Threads : u # t => pc'[u] = pc[u]
        /\ UNCHANGED <<peer, backlog, inbox, stream, s_pendingRequests, info, msg>>
    BY <1>2, TypeGroups DEF LockWrite, ThreadsOK, socket, requests, clients
  <2>2. QED BY <2>1, QuietService DEF SendingReply, ServiceStep
<1>3. CASE WriteHeader(t)
  <2>1. /\ pc[t] = "header" /\ pc'[t] = "body" /\ \A u \in Threads : u # t => pc'[u] = pc[u]
        /\ UNCHANGED <<peer, backlog, inbox, s_pendingRequests, info, msg>>
        /\ CanWrite /\ Written(t, "header")
    BY <1>3, TypeGroups DEF WriteHeader, ThreadsOK, socket, requests, clients
  <2> DEFINE n == Len(stream[peer])
  <2>2. /\ peer \in Conns /\ n \in Nat /\ DOMAIN stream[peer] = 1..n
        /\ \A c \in Conns : c # peer => stream'[c] = stream[c]
        /\ DOMAIN stream'[peer] = 1..(n + 1)
        /\ \A i \in 1..n : stream'[peer][i] = stream[peer][i]
        /\ stream'[peer][n + 1].part = "header"
    <3>1. [part |-> "header", msg |-> msg[t]].part = "header"
      OBVIOUS
    <3>2. QED BY <2>1, <3>1, WrittenTo
  <2> HIDE DEF n
  <2>3. ASSUME NEW c \in Conns, NEW id PROVE Told(id, c)' <=> Told(id, c)
    <3>1. CASE c # peer
      BY <2>2, <3>1 DEF Told
    <3>2. CASE c = peer
      BY <2>2, <3>2 DEF Told
    <3>3. QED BY <3>1, <3>2
  <2>4. Replied' = Replied
    BY <2>3 DEF Replied, ClientRequests
  <2>5. \A u \in Threads : SendingReply(u)' <=> SendingReply(u)
    BY <2>1 DEF SendingReply
  <2>6. \A u \in Threads : \A m :
          (pc'[u] \in {"send", "lock", "header", "body"} /\ msg'[u] = m)
          <=> (pc[u] \in {"send", "lock", "header", "body"} /\ msg[u] = m)
    BY <2>1
  <2>7. \A id, c : Awaited(id, c)' <=> Awaited(id, c)
    BY <2>1, <2>6 DEF Awaited
  <2>8. QED BY <2>1, <2>4, <2>7, SameDue, SameSent DEF ServiceStep, ServiceStutter
<1>4. CASE WriteFails(t)
  BY <1>4, ReturnService, EndService DEF WriteFails, ServiceInv
<1>5. CASE StoreNITZ(t)
  <2>1. /\ pc[t] = "store" /\ pc'[t] = "idle"
        /\ \A u \in Threads : u # t => pc'[u] = pc[u] /\ msg'[u] = msg[u]
        /\ UNCHANGED <<peer, backlog, inbox, stream, s_pendingRequests, info>>
    BY <1>5, TypeGroups DEF StoreNITZ, ThreadsOK, socket, requests, clients
  <2>2. QED BY <2>1, QuietService DEF SendingReply, ServiceStep
<1>6. QED BY <1>1, <1>2, <1>3, <1>4, <1>5, AnswerService DEF Sending

LEMMA EventLoopService ==
  ASSUME TypeOK, ServiceInv, EventLoop
  PROVE  ServiceStep
<1>1. ASSUME UNCHANGED <<peer, backlog, inbox, stream, s_pendingRequests, info, pc, msg>>
      PROVE  ServiceStep
  BY <1>1, QuietService DEF SendingReply, ServiceStep
\* The loop starts a message that is no reply.
<1>2. ASSUME NEW m, m.what # "reply", pc[Loop] = "idle", StartSend(Loop, m),
             UNCHANGED <<peer, backlog, inbox, stream, s_pendingRequests, info>>
      PROVE  ServiceStep
  <2>1. /\ pc'[Loop] = "send" /\ msg'[Loop] = m
        /\ \A u \in Threads : u # Loop => pc'[u] = pc[u] /\ msg'[u] = msg[u]
    BY <1>2, LoopIsThread, TypeGroups DEF StartSend, ThreadsOK
  <2>2. QED BY <1>2, <2>1, QuietService DEF SendingReply, ServiceStep
<1>3. CASE WelcomeClient
  <2>1. Message("radio", 0, 0).what # "reply"
    BY DEF Message
  <2>2. QED BY <1>2, <1>3, <2>1 DEF WelcomeClient, At, socket, requests, clients
<1>4. CASE SendLastNITZ
  <2>1. CASE UNCHANGED <<pc, msg>>
    BY <1>1, <1>4, <2>1 DEF SendLastNITZ, socket, requests, clients
  <2>2. CASE nitz # None /\ StartSend(Loop, nitz)
    <3>1. nitz.what # "reply"
      BY <2>2 DEF ServiceInv, RepliesInv, NitzOnly
    <3>2. QED BY <1>2, <1>4, <2>2, <3>1 DEF SendLastNITZ, At, socket, requests, clients
  <2>3. QED BY <1>4, <2>1, <2>2 DEF SendLastNITZ
<1>5. CASE CloseCommand
  BY <1>5, EndService DEF CloseCommand, ServiceInv, requests, sending, clients
<1>6. CASE CancelPending
  <2>1. peer' = None /\ UNCHANGED <<backlog, inbox, stream>>
    BY <1>6 DEF CancelPending, At, ServiceInv, SocketInv, socket, sending, clients
  <2>2. QED BY <2>1, EndService DEF ServiceInv
<1>7. CASE RejectClient \/ FreeLastNITZ \/ SelectFails \/ CommandsReady
  BY <1>1, <1>7 DEF RejectClient, FreeLastNITZ, SelectFails, CommandsReady,
                    socket, requests, sending, clients
<1>8. CASE OnRequestReturns \/ NoMoreRecords \/ ReadFails \/ ClearCommand
  BY <1>1, <1>8 DEF OnRequestReturns, NoMoreRecords, ReadFails, ClearCommand,
                    socket, requests, sending, clients
<1>9. QED
  BY <1>3, <1>4, <1>5, <1>6, <1>7, <1>8, ServeService, TakeUpService DEF EventLoop

LEMMA NextService == TypeOK /\ ServiceInv /\ [Next]_vars => ServiceStep
<1> SUFFICES ASSUME TypeOK, ServiceInv, [Next]_vars PROVE ServiceStep
  OBVIOUS
<1>1. CASE Client
  <2>1. ASSUME NEW c \in Conns, ClientHangsUp(c) PROVE ServiceStep
    BY <2>1, QuietService DEF ClientHangsUp, SendingReply, ServiceStep, socket, requests, sending
  <2>2. QED BY <1>1, <2>1, ArriveService, AskService DEF Client
<1>2. ASSUME NEW t \in Threads, VendorCalls(t) PROVE ServiceStep
  <2>1. PICK what \in {"radio", "nitz"} : RIL_onUnsolicitedResponse(t, what)
    BY <1>2 DEF VendorCalls
  <2> DEFINE m == Message(what, unsol + 1, 0)
  <2>2. m.what # "reply"
    BY DEF Message
  <2>3. /\ pc[t] = "idle" /\ StartSend(t, m)
        /\ UNCHANGED <<peer, backlog, inbox, stream, s_pendingRequests, info>>
    BY <2>1 DEF RIL_onUnsolicitedResponse, socket, requests, clients
  <2> HIDE DEF m
  <2>4. /\ msg'[t] = m /\ \A u \in Threads : u # t => pc'[u] = pc[u] /\ msg'[u] = msg[u]
    BY <2>3, TypeGroups DEF StartSend, ThreadsOK
  <2>5. QED BY <2>2, <2>3, <2>4, QuietService DEF SendingReply, ServiceStep
<1>3. ASSUME NEW p \in Cells, Completion(p) PROVE ServiceStep
  BY <1>3, ThreadsAssumption, CompleteService DEF Completion
<1>4. CASE UNCHANGED vars
  BY <1>4, QuietService DEF vars, SendingReply, ServiceStep, socket, requests, sending, clients
<1>5. QED
  BY <1>1, <1>2, <1>3, <1>4, SendingService, EventLoopService, DebugService DEF Next

LEMMA InitService == Init => Service!QInit
<1> SUFFICES ASSUME Init PROVE Service!QInit
  OBVIOUS
<1>1. Sent = [c \in Conns |-> <<>>]
  BY DEF Init, Sent
<1>2. Due = {} /\ Replied = {}
  BY NothingDue DEF Init, Replied, Told, ClientRequests
<1>3. QED BY <1>1, <1>2 DEF Init, Service!QInit

\* The command socket, with its list of pending requests, its tokens, its cancellations, its
\* two writes and the descriptor number it uses again, does what module RequestService
\* promises, for any number of clients and requests, when vendor code completes requests on
\* the thread of the event loop (processCommandsCallback, RIL_onRequestComplete,
\* onCommandsSocketClosed, sendResponseRaw).
THEOREM RequestsImplemented ==
  ASSUME LoopCompletes
  PROVE  Spec => ImplementsRequests
<1>1. Init => RepliesInv /\ IdsInv /\ FramedInv /\ CellsInv /\ SocketInv
  <2>1. Init => CellsInv
    BY DEF Init, CellsInv, CellsOwned, EmptyHanded
  <2>2. QED BY <2>1, InitReplies, InitIds, InitFramed, InitSocket
<1>2. TypeOK /\ ServiceInv /\ [Next]_vars => ServiceInv'
  BY NextReplies, NextIds, NextFramed, NextCells, NextSocket DEF ServiceInv
<1>3. TypeOK /\ ServiceInv /\ [Next]_vars => [Service!QNext]_(Service!qvars)
  BY NextService DEF ServiceStep, ServiceStutter, Service!qvars
<1>4. Init => ServiceInv /\ Service!QInit
  BY <1>1, InitService DEF ServiceInv
<1>5. QED
  BY <1>2, <1>3, <1>4, TypeCorrect, PTL DEF Spec, ImplementsRequests, Service!QSpec
=============================================================================
