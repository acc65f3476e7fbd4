---------------------------- MODULE RequestService ----------------------------
(***************************************************************************)
(* What the command socket of the radio daemon promises to its clients,    *)
(* with no threads, tokens, descriptors or mutexes:                        *)
(*                                                                         *)
(*   - clients are served one at a time, in the order they come;           *)
(*   - the requests of the client that is served are taken up in the order *)
(*     it sent them; those that are not supported are dropped;             *)
(*   - a request that was taken up is answered at most once, to the client *)
(*     that sent it, and stays due until it is answered or that client's   *)
(*     connection ends; then nothing of it is left for the next client.    *)
(*                                                                         *)
(* RilRequests implements this specification (RilRequests!Service).        *)
(***************************************************************************)
EXTENDS Sequences

CONSTANTS Clients,      \* connections
          Ids,          \* the numbers of requests
          Kinds,        \* of requests
          Unsupported,  \* the kinds that are dropped
          None

VARIABLES serving,      \* the client that is served, or None
          line,         \* the clients that wait to be served
          sent,         \* sent[c]: the requests of c that were not taken up yet
          due,          \* the requests taken up and not answered
          answered      \* the requests that were answered

qvars == <<serving, line, sent, due, answered>>

Request(id, c) == [id |-> id, client |-> c]

QInit ==
  /\ serving = None
  /\ line = <<>>
  /\ sent = [c \in Clients |-> <<>>]
  /\ due = {}
  /\ answered = {}

Here == {line[i] : i \in DOMAIN line} \cup {serving}

InUse(id) ==
  \/ \E c \in Clients : \E i \in DOMAIN sent[c] : sent[c][i].id = id
  \/ \E r \in due \cup answered : r.id = id

Arrive(c) ==
  /\ c \notin Here
  /\ line' = Append(line, c)
  /\ UNCHANGED <<serving, sent, due, answered>>

Ask(c, id, kind) ==
  /\ c \in Here
  /\ ~InUse(id)
  /\ sent' = [sent EXCEPT ![c] = Append(@, [id |-> id, kind |-> kind])]
  /\ UNCHANGED <<serving, line, due, answered>>

Serve ==
  /\ serving = None /\ line # <<>>
  /\ serving' = Head(line)
  /\ line' = Tail(line)
  /\ UNCHANGED <<sent, due, answered>>

\* The next request of the client that is served.
TakeUp ==
  /\ serving # None /\ sent[serving] # <<>>
  /\ LET request == Head(sent[serving]) IN
       due' = due \cup (IF request.kind \in Unsupported THEN {} ELSE {Request(request.id, serving)})
  /\ sent' = [sent EXCEPT ![serving] = Tail(@)]
  /\ UNCHANGED <<serving, line, answered>>

Answer(r) ==
  /\ r \in due /\ r.client = serving
  /\ due' = due \ {r}
  /\ answered' = answered \cup {r}
  /\ UNCHANGED <<serving, line, sent>>

\* The connection ends, from either side: what was sent or due on it is void.
End ==
  /\ serving # None
  /\ serving' = None
  /\ sent' = [sent EXCEPT ![serving] = <<>>]
  /\ due' = {}
  /\ UNCHANGED <<line, answered>>

QNext ==
  \/ \E c \in Clients : Arrive(c) \/ \E id \in Ids, kind \in Kinds : Ask(c, id, kind)
  \/ Serve \/ TakeUp \/ End
  \/ \E r \in due : Answer(r)

QSpec == QInit /\ [][QNext]_qvars
=============================================================================
