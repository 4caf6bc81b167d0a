------------------------- MODULE RealtimeHubProofs -------------------------
(***************************************************************************)
(* Proofs about RealtimeHub, for any number of connections and projects    *)
(* and any buffer.                                                         *)
(*                                                                         *)
(* That a channel is never closed twice is not inductive by itself: a      *)
(* registration must find a channel that was never closed, which holds     *)
(* because a connection registers once and only members are removed; and   *)
(* Close must meet each client in one project only.  ClientsAlive and      *)
(* ChannelsNew say so.  What a browser receives is the beginning of its    *)
(* stream, which goes on in its writer's hand and its channel: StreamInv   *)
(* says that a stream has no gap, and ends with the latest update while    *)
(* the client is registered.                                               *)
(***************************************************************************)
EXTENDS RealtimeHub, SequenceTheorems, TLAPS

\* The hub's clients are those of their own project whose handler is between
\* registering and unregistering.
ClientsAlive ==
  \A p \in Project : \A c \in clients[p] :
    project[c] = p /\ handler[c] \in {"starting", "reading", "returning"}

\* Until a connection registers, nobody has closed its channel.
ChannelsNew ==
  \A c \in Client :
    handler[c] \in {"none", "authenticating", "queueing"} => closes[c] = 0

HubCounts ==
  /\ clients \in [Project -> SUBSET Client]
  /\ closes \in [Client -> Nat]
  /\ handler \in [Client -> {"none", "authenticating", "queueing", "starting",
                             "reading", "returning", "done"}]
  /\ project \in [Client -> Project \cup {None}]
  /\ \A c \in Client : handler[c] # "none" => project[c] \in Project

HubInv == HubCounts /\ ClientsAlive /\ ChannelsNew /\ NoPanic /\ ClosedIsEmpty

----------------------------------------------------------------------------

LEMMA HubInvInit == HubInit => HubInv
BY HubNoneAssumption
   DEF HubInit, HubInv, HubCounts, ClientsAlive, ChannelsNew, NoPanic, ClosedIsEmpty

\* The steps of a handler that leave the hub alone, before it could register.
LEMMA UpgradeStep ==
  ASSUME HubInv, NEW c \in Client, NEW p \in Project, Upgrade(c, p)
  PROVE  HubInv'
<1>1. /\ c \notin UNION {clients[q] : q \in Project}
      /\ handler' = [handler EXCEPT ![c] = "authenticating"]
      /\ project' = [project EXCEPT ![c] = p]
      /\ UNCHANGED <<closed, clients, closes>>
  BY DEF Upgrade, HubInv, ClientsAlive
<1>2. HubCounts'
  BY <1>1 DEF HubInv, HubCounts
<1>3. ClientsAlive'
  BY <1>1 DEF HubInv, HubCounts, ClientsAlive
<1>4. ChannelsNew'
  BY <1>1 DEF HubInv, HubCounts, ChannelsNew, Upgrade
<1>. QED
  BY <1>1, <1>2, <1>3, <1>4 DEF HubInv, NoPanic, ClosedIsEmpty

LEMMA AuthenticateStep ==
  ASSUME HubInv, NEW c \in Client, Reject(c) \/ Authenticate(c) \/ RegisterFails(c)
  PROVE  HubInv'
<1>1. PICK next \in {"queueing", "done"} : handler' = [handler EXCEPT ![c] = next]
  BY DEF Reject, Authenticate, RegisterFails
<1>2. /\ handler[c] \in {"authenticating", "queueing"}
      /\ UNCHANGED <<closed, clients, closes, project>>
  BY DEF Reject, Authenticate, RegisterFails
<1>3. HubCounts'
  BY <1>1, <1>2 DEF HubInv, HubCounts
<1>4. ClientsAlive'
  BY <1>1, <1>2 DEF HubInv, HubCounts, ClientsAlive
<1>5. ChannelsNew'
  BY <1>1, <1>2 DEF HubInv, HubCounts, ChannelsNew
<1>. QED
  BY <1>2, <1>3, <1>4, <1>5 DEF HubInv, NoPanic, ClosedIsEmpty

LEMMA RegisterStep ==
  ASSUME HubInv, NEW c \in Client, Register(c)
  PROVE  HubInv'
BY DEF HubInv, HubCounts, ClientsAlive, ChannelsNew, NoPanic, ClosedIsEmpty, Register

LEMMA ReadStep ==
  ASSUME HubInv, NEW c \in Client, StartWriter(c) \/ ReadFails(c)
  PROVE  HubInv'
BY DEF HubInv, HubCounts, ClientsAlive, ChannelsNew, NoPanic, ClosedIsEmpty,
       StartWriter, ReadFails

\* Removing clients closes the channels of those that were there, once.
LEMMA RemoveStep ==
  ASSUME HubInv, NEW p \in Project, NEW gone \in SUBSET Client, RemoveClients(p, gone)
  PROVE  /\ clients' \in [Project -> SUBSET Client]
         /\ closes' \in [Client -> Nat]
         /\ NoPanic'
         /\ \A q \in Project : clients'[q] \subseteq clients[q]
         /\ p \in Project => clients'[p] = clients[p] \ gone
         /\ \A c \in Client : c \notin clients[p] => closes'[c] = closes[c]
BY DEF HubInv, HubCounts, ClientsAlive, NoPanic, RemoveClients, Registered

LEMMA UnregisterStep ==
  ASSUME HubInv, NEW c \in Client, Unregister(c)
  PROVE  HubInv'
<1>1. project[c] \in Project
  BY DEF HubInv, HubCounts, Unregister
<1>2. RemoveClients(project[c], {c})
  BY DEF Unregister
<1>. QED
  BY <1>1, <1>2, RemoveStep
     DEF HubInv, HubCounts, ClientsAlive, ChannelsNew, ClosedIsEmpty, Unregister

LEMMA PublishStep ==
  ASSUME HubInv, NEW p \in Project, Publish(p)
  PROVE  HubInv'
<1>1. Full(p) \in SUBSET Client
  BY DEF Full, HubInv, HubCounts
<1>2. RemoveClients(p, Full(p)) /\ UNCHANGED <<closed, handler, project>>
  BY DEF Publish
<1>3. /\ clients' \in [Project -> SUBSET Client]
      /\ closes' \in [Client -> Nat]
      /\ NoPanic'
      /\ \A q \in Project : clients'[q] \subseteq clients[q]
      /\ \A c \in Client : c \notin clients[p] => closes'[c] = closes[c]
  BY <1>1, <1>2, RemoveStep
<1>4. HubCounts' /\ ClientsAlive'
  BY <1>2, <1>3 DEF HubInv, HubCounts, ClientsAlive
<1>5. ChannelsNew'
  BY <1>2, <1>3 DEF HubInv, HubCounts, ClientsAlive, ChannelsNew
<1>6. ClosedIsEmpty'
  BY DEF Publish, ClosedIsEmpty
<1>. QED
  BY <1>3, <1>4, <1>5, <1>6 DEF HubInv

LEMMA CloseStep == HubInv /\ Close => HubInv'
BY DEF HubInv, HubCounts, ClientsAlive, ChannelsNew, NoPanic, ClosedIsEmpty, Close

\* A writer closes the connection, never a channel.
LEMMA WriterStep ==
  ASSUME HubInv, NEW c \in Client, Writer(c)
  PROVE  HubInv'
<1>1. UNCHANGED <<closed, clients, handler, project, closes>>
  BY DEF Writer, Take, Write, WriteFails, PingFails, WriteClose, WriterReturns
<1>. QED
  BY <1>1 DEF HubInv, HubCounts, ClientsAlive, ChannelsNew, NoPanic, ClosedIsEmpty

LEMMA HubInvStep == HubInv /\ [HubNext]_hubVars => HubInv'
<1>. SUFFICES ASSUME HubInv, [HubNext]_hubVars PROVE HubInv'
  OBVIOUS
<1>1. ASSUME NEW c \in Client, Handler(c) PROVE HubInv'
  BY <1>1, UpgradeStep, AuthenticateStep, RegisterStep, ReadStep, UnregisterStep DEF Handler
<1>2. CASE UNCHANGED hubVars
  BY <1>2 DEF hubVars, HubInv, HubCounts, ClientsAlive, ChannelsNew, NoPanic, ClosedIsEmpty
<1>. QED BY <1>1, <1>2, PublishStep, CloseStep, WriterStep DEF HubNext

\* The invariant the properties below follow from.
THEOREM HubInvariance == HubSafety => []HubInv
BY HubInvInit, HubInvStep, PTL DEF HubSafety

\* removeLocked never closes a channel twice, and Publish never sends to a closed one:
\* neither panic can bring the API process down.
THEOREM NeverPanics == HubSafety => []NoPanic
<1>1. HubInv => NoPanic
  BY DEF HubInv
<1>. QED BY <1>1, HubInvariance, PTL

\* Once Close has run, no connection is registered any more: shutdown misses none.
THEOREM ClosedHubIsEmpty == HubSafety => []ClosedIsEmpty
<1>1. HubInv => ClosedIsEmpty
  BY DEF HubInv
<1>. QED BY <1>1, HubInvariance, PTL

----------------------------------------------------------------------------
(* What reaches a browser.  Its channel, its writer's hand and what it has *)
(* received make one stream, which is in line with the updates published   *)
(* until the writer gives up; what it has received stays so.               *)

Messages == [project : Project, n : Nat]

\* s begins like the ready message and the updates of p after number from.
InLine(s, p, from) ==
  \A i \in 1 .. Len(s) : s[i] = IF i = 1 THEN Ready(p) ELSE Message(p, from + i - 1)

Stream(c) == received[c] \o taken[c] \o send[c]

StreamTypes ==
  /\ published \in [Project -> Nat] /\ since \in [Client -> Nat]
  /\ send \in [Client -> Seq(Messages)]
  /\ taken \in [Client -> Seq(Messages)]
  /\ received \in [Client -> Seq(Messages)]
  /\ conn \in [Client -> {"open", "closed", "rejected"}]
  /\ writer \in [Client -> {"none", "waiting", "writing", "done"}]

\* Where a connection's goroutines are, and what that says of its stream.
Stages(c) ==
  /\ handler[c] = "none" => project[c] = None
  /\ handler[c] \in {"none", "authenticating"} =>
       send[c] = <<>> /\ received[c] = <<>>
  /\ handler[c] \in {"none", "authenticating", "queueing", "starting"} => writer[c] = "none"
  /\ handler[c] = "queueing" => send[c] = <<Ready(project[c])>> /\ received[c] = <<>>
  /\ writer[c] \in {"none", "waiting", "done"} => taken[c] = <<>>
  /\ writer[c] = "writing" => Len(taken[c]) = 1
  /\ writer[c] = "done" => conn[c] # "open"
  /\ conn[c] = "rejected" => handler[c] = "done" /\ writer[c] = "none"

\* What c has received is in line, and so is its stream; the stream of a client that is
\* registered is up to date.
Streaming(c) ==
  LET p == project[c]
  IN handler[c] \notin {"none", "authenticating", "queueing"} =>
       /\ InLine(received[c], p, since[c])
       /\ received[c] # <<>> => since[c] + Len(received[c]) - 1 <= published[p]
       /\ writer[c] # "done" /\ conn[c] # "rejected" =>
            /\ InLine(Stream(c), p, since[c])
            /\ Len(Stream(c)) >= 1
            /\ since[c] + Len(Stream(c)) - 1 <= published[p]
            /\ c \in clients[p] => since[c] + Len(Stream(c)) - 1 = published[p]

StreamInv == StreamTypes /\ \A c \in Client : Stages(c) /\ Streaming(c)

\* The three parts of a stream, one after the other.
LEMMA StreamParts ==
  ASSUME StreamTypes, NEW c \in Client
  PROVE  /\ received[c] \in Seq(Messages) /\ taken[c] \in Seq(Messages)
         /\ send[c] \in Seq(Messages) /\ Stream(c) \in Seq(Messages)
         /\ Len(Stream(c)) = Len(received[c]) + Len(taken[c]) + Len(send[c])
<1>1. /\ received[c] \in Seq(Messages) /\ taken[c] \in Seq(Messages)
      /\ send[c] \in Seq(Messages)
  BY DEF StreamTypes
<1>. HIDE DEF Messages
<1>. QED BY <1>1 DEF Stream

LEMMA StreamInvInit == HubInit => StreamInv
<1>. SUFFICES ASSUME HubInit PROVE StreamInv
  OBVIOUS
<1>1. StreamTypes
  BY DEF HubInit, StreamTypes, Messages
<1>2. \A c \in Client : Stages(c) /\ Streaming(c)
  BY DEF HubInit, Stages, Streaming
<1>. QED BY <1>1, <1>2 DEF StreamInv

\* Head and tail, and a message put into the hand.
LEMMA TakeParts ==
  ASSUME NEW S, NEW r \in Seq(S), NEW s \in Seq(S), s # <<>>
  PROVE  /\ r \o <<>> \o s = r \o <<Head(s)>> \o Tail(s)
         /\ <<Head(s)>> \in Seq(S) /\ Tail(s) \in Seq(S) /\ Len(<<Head(s)>>) = 1
OBVIOUS

\* A step that changes nothing of the other connections.
LEMMA StepOf ==
  ASSUME StreamInv, NEW c \in Client,
         StreamTypes', Stages(c)', Streaming(c)',
         published' = published,
         \A d \in Client \ {c} :
           /\ handler'[d] = handler[d] /\ project'[d] = project[d] /\ since'[d] = since[d]
           /\ writer'[d] = writer[d] /\ taken'[d] = taken[d] /\ send'[d] = send[d]
           /\ received'[d] = received[d] /\ conn'[d] = conn[d]
           /\ d \in clients'[project[d]] => d \in clients[project[d]]
  PROVE  StreamInv'
<1>1. ASSUME NEW d \in Client \ {c} PROVE Stages(d)' /\ Streaming(d)'
  <2>1. Stages(d)'
    BY DEF StreamInv, Stages
  <2>2. Stream(d)' = Stream(d)
    BY DEF Stream
  <2>3. Streaming(d)
    BY DEF StreamInv
  <2>4. /\ handler'[d] = handler[d] /\ project'[d] = project[d] /\ since'[d] = since[d]
        /\ writer'[d] = writer[d] /\ received'[d] = received[d] /\ conn'[d] = conn[d]
        /\ d \in clients'[project[d]] => d \in clients[project[d]]
    OBVIOUS
  <2>5. Streaming(d)'
    BY <2>2, <2>3, <2>4 DEF Streaming
  <2>. QED BY <2>1, <2>5
<1>. QED BY <1>1 DEF StreamInv

LEMMA TakeStep ==
  ASSUME HubInv, StreamInv, NEW c \in Client, Take(c)
  PROVE  StreamInv'
<1>1. /\ received[c] \in Seq(Messages) /\ send[c] \in Seq(Messages) /\ send[c] # <<>>
      /\ taken[c] = <<>> /\ writer[c] = "waiting" /\ Stages(c) /\ Streaming(c)
  BY StreamParts DEF StreamInv, Take, Stages
<1>. HIDE DEF Messages
<1>2. /\ <<Head(send[c])>> \in Seq(Messages) /\ Tail(send[c]) \in Seq(Messages)
      /\ Len(<<Head(send[c])>>) = 1
      /\ received[c] \o <<>> \o send[c] = received[c] \o <<Head(send[c])>> \o Tail(send[c])
  <2>. DEFINE r == received[c]
              s == send[c]
  <2>1. r \in Seq(Messages) /\ s \in Seq(Messages) /\ s # <<>>
    BY <1>1
  <2>. HIDE DEF r, s
  <2>2. /\ r \o <<>> \o s = r \o <<Head(s)>> \o Tail(s)
        /\ <<Head(s)>> \in Seq(Messages) /\ Tail(s) \in Seq(Messages)
        /\ Len(<<Head(s)>>) = 1
    BY <2>1, TakeParts
  <2>. QED BY <2>2 DEF r, s
<1>3. StreamTypes'
  BY <1>2 DEF Take, StreamInv, StreamTypes
<1>4. received'[c] = received[c] /\ taken'[c] = <<Head(send[c])>> /\ send'[c] = Tail(send[c])
      /\ writer'[c] = "writing"
  BY DEF Take, StreamInv, StreamTypes
<1>5. Stream(c)' = Stream(c)
  BY <1>1, <1>2, <1>4 DEF Stream
<1>6. UNCHANGED <<handler, clients, published, conn, project, received, since>>
  BY DEF Take
<1>7. Stages(c)'
  BY <1>1, <1>2, <1>4, <1>6 DEF Stages
<1>8. Streaming(c)'
  BY <1>1, <1>4, <1>5, <1>6 DEF Streaming
<1>9. \A d \in Client \ {c} : /\ writer'[d] = writer[d] /\ taken'[d] = taken[d]
                              /\ send'[d] = send[d]
  BY DEF Take, StreamInv, StreamTypes
<1>. QED BY <1>3, <1>6, <1>7, <1>8, <1>9, StepOf

\* The message in the hand goes to the end of what was received.
LEMMA WriteParts ==
  ASSUME NEW S, NEW r \in Seq(S), NEW t \in Seq(S), NEW s \in Seq(S), Len(t) = 1
  PROVE  /\ r \o t \in Seq(S) /\ Len(r \o t) = Len(r) + 1
         /\ (r \o t) \o <<>> \o s = r \o t \o s
         /\ \A i \in 1 .. Len(r) + 1 : (r \o t)[i] = (r \o t \o s)[i]
         /\ Len(r \o t \o s) \in Nat /\ Len(r \o t \o s) >= Len(r) + 1
<1>1. r \o t \in Seq(S) /\ Len(r \o t) = Len(r) + 1 /\ Len(r) \in Nat
  <2>1. r \o t \in Seq(S) /\ Len(r \o t) = Len(r) + Len(t)
    BY ConcatProperties, Zenon
  <2>2. Len(r) \in Nat
    OBVIOUS
  <2>. QED BY <2>1, <2>2
<1>. DEFINE u == r \o t
<1>2. u \o s \in Seq(S) /\ Len(u \o s) = Len(u) + Len(s) /\ Len(s) \in Nat
  BY <1>1, ConcatProperties, LenProperties
<1>3. \A i \in 1 .. Len(u) : u[i] = (u \o s)[i]
  BY <1>1, <1>2, ConcatProperties
<1>4. u \o <<>> = u
  BY <1>1, ConcatEmptySeq
<1>. QED BY <1>1, <1>2, <1>3, <1>4

\* The beginning of what is in line is in line.
LEMMA LineBegins ==
  ASSUME NEW u, NEW v, NEW p, NEW n, InLine(u, p, n),
         Len(u) \in Nat, Len(v) \in Nat, Len(v) <= Len(u),
         \A i \in 1 .. Len(v) : v[i] = u[i]
  PROVE  InLine(v, p, n)
BY DEF InLine

LEMMA WriteStep ==
  ASSUME HubInv, StreamInv, NEW c \in Client, Write(c)
  PROVE  StreamInv'
<1>1. /\ received[c] \in Seq(Messages) /\ taken[c] \in Seq(Messages)
      /\ send[c] \in Seq(Messages)
      /\ Len(taken[c]) = 1 /\ writer[c] = "writing" /\ conn[c] = "open"
      /\ Stages(c) /\ Streaming(c)
  BY StreamParts DEF StreamInv, Write, Stages
<1>2. /\ received[c] \o taken[c] \in Seq(Messages) /\ <<>> \in Seq(Messages)
      /\ Len(received[c] \o taken[c]) = Len(received[c]) + 1
      /\ (received[c] \o taken[c]) \o <<>> \o send[c] = received[c] \o taken[c] \o send[c]
      /\ \A i \in 1 .. Len(received[c]) + 1 :
           (received[c] \o taken[c])[i] = (received[c] \o taken[c] \o send[c])[i]
      /\ Len(received[c] \o taken[c] \o send[c]) \in Nat
      /\ Len(received[c] \o taken[c] \o send[c]) >= Len(received[c]) + 1
  <2>1. <<>> \in Seq(Messages)
    OBVIOUS
  <2>2. received[c] \in Seq(Messages) /\ taken[c] \in Seq(Messages) /\ send[c] \in Seq(Messages)
        /\ Len(taken[c]) = 1
    BY <1>1
  <2>. DEFINE r == received[c]
              t == taken[c]
              s == send[c]
  <2>3. /\ r \o t \in Seq(Messages) /\ Len(r \o t) = Len(r) + 1
        /\ (r \o t) \o <<>> \o s = r \o t \o s
        /\ \A i \in 1 .. Len(r) + 1 : (r \o t)[i] = (r \o t \o s)[i]
        /\ Len(r \o t \o s) \in Nat /\ Len(r \o t \o s) >= Len(r) + 1
    <3>. HIDE DEF Messages, r, t, s
    <3>1. r \in Seq(Messages) /\ t \in Seq(Messages) /\ s \in Seq(Messages) /\ Len(t) = 1
      BY <2>2, Zenon DEF r, t, s
    <3>. QED BY ONLY <3>1, WriteParts, Zenon
  <2>. QED BY <2>1, <2>3, Zenon
<1>. HIDE DEF Messages
<1>3. StreamTypes'
  BY <1>2 DEF Write, StreamInv, StreamTypes
<1>4. received'[c] = received[c] \o taken[c] /\ taken'[c] = <<>> /\ writer'[c] = "waiting"
  BY DEF Write, StreamInv, StreamTypes
<1>5. UNCHANGED <<handler, clients, published, conn, project, send, since>>
  BY DEF Write
<1>6. Stream(c)' = Stream(c)
  BY <1>2, <1>4, <1>5 DEF Stream
<1>7. handler[c] \notin {"none", "authenticating", "queueing", "starting"}
  BY <1>1 DEF Stages
<1>8. Stages(c)'
  BY <1>1, <1>4, <1>5, <1>7 DEF Stages
<1>9. Streaming(c)'
  <2>1. InLine(received[c] \o taken[c], project[c], since[c])
    <3>1. InLine(received[c] \o taken[c] \o send[c], project[c], since[c])
      BY <1>1, <1>7 DEF Streaming, Stream
    <3>2. Len(received[c]) \in Nat
      BY <1>1
    <3>3. Len(received[c] \o taken[c]) \in Nat
      BY <1>2, <3>2
    <3>4. \A i \in 1 .. Len(received[c] \o taken[c]) :
            (received[c] \o taken[c])[i] = (received[c] \o taken[c] \o send[c])[i]
      BY <1>2
    <3>5. Len(received[c] \o taken[c]) <= Len(received[c] \o taken[c] \o send[c])
      BY <1>2
    <3>. QED BY <1>2, <3>1, <3>3, <3>4, <3>5, LineBegins, Zenon
  <2>2. since[c] + Len(received[c] \o taken[c]) - 1 <= published[project[c]]
    <3>1. project[c] \in Project
      BY <1>7 DEF HubInv, HubCounts
    <3>2. published[project[c]] \in Nat /\ since[c] \in Nat
      BY <3>1 DEF StreamInv, StreamTypes
    <3>3. since[c] + Len(Stream(c)) - 1 <= published[project[c]]
      BY <1>1, <1>7 DEF Streaming
    <3>4. Len(Stream(c)) \in Nat /\ Len(received[c]) \in Nat
      BY <1>1, StreamParts DEF StreamInv
    <3>5. Len(received[c] \o taken[c]) = Len(received[c]) + 1 /\ Len(Stream(c)) >= Len(received[c]) + 1
      BY <1>2 DEF Stream
    <3>. QED BY <3>2, <3>3, <3>4, <3>5
  <2>. QED BY <1>1, <1>4, <1>5, <1>6, <1>7, <2>1, <2>2 DEF Streaming
<1>10. \A d \in Client \ {c} : /\ writer'[d] = writer[d] /\ taken'[d] = taken[d]
                               /\ received'[d] = received[d]
  BY DEF Write, StreamInv, StreamTypes
<1>. QED BY <1>3, <1>5, <1>8, <1>9, <1>10, StepOf

LEMMA WriterReturnsStep ==
  ASSUME HubInv, StreamInv, NEW c \in Client, writer[c] \in {"waiting", "writing"},
         WriterReturns(c)
  PROVE  StreamInv'
<1>1. Stages(c) /\ Streaming(c) /\ StreamTypes
  BY DEF StreamInv
<1>2. <<>> \in Seq(Messages)
  OBVIOUS
<1>. HIDE DEF Messages
<1>3. StreamTypes'
  BY <1>1, <1>2 DEF WriterReturns, StreamTypes
<1>4. writer'[c] = "done" /\ taken'[c] = <<>> /\ conn'[c] = "closed"
  BY <1>1 DEF WriterReturns, StreamTypes
<1>5. UNCHANGED <<handler, clients, published, project, send, since, received>>
  BY DEF WriterReturns
<1>6. handler[c] \notin {"none", "authenticating", "queueing", "starting"}
  BY <1>1 DEF Stages
<1>7. Stages(c)' /\ Streaming(c)'
  BY <1>1, <1>4, <1>5, <1>6 DEF Stages, Streaming
<1>8. \A d \in Client \ {c} : /\ writer'[d] = writer[d] /\ taken'[d] = taken[d]
                              /\ conn'[d] = conn[d]
  BY <1>1 DEF WriterReturns, StreamTypes
<1>. QED BY <1>3, <1>5, <1>7, <1>8, StepOf

\* Before it registers a connection has no stream to speak of.
LEMMA EarlyStep ==
  ASSUME HubInv, StreamInv, NEW c \in Client,
         (\E p \in Project : Upgrade(c, p)) \/ Reject(c) \/ RegisterFails(c)
  PROVE  StreamInv'
<1>1. /\ handler[c] \in {"none", "authenticating", "queueing"}
      /\ UNCHANGED <<clients, published, writer, taken, send, received, since>>
  BY DEF Upgrade, Reject, RegisterFails
<1>2. StreamTypes'
  BY DEF Upgrade, Reject, RegisterFails, StreamInv, StreamTypes
<1>3. \A d \in Client \ {c} : /\ handler'[d] = handler[d] /\ project'[d] = project[d]
                              /\ conn'[d] = conn[d]
  BY DEF Upgrade, Reject, RegisterFails, HubInv, HubCounts, StreamInv, StreamTypes
<1>4. Stages(c) /\ Streaming(c)
  BY DEF StreamInv
<1>5. CASE handler'[c] = "authenticating"
  <2>1. handler[c] = "none"
    BY <1>5, HubNoneAssumption
       DEF Upgrade, Reject, RegisterFails, HubInv, HubCounts, StreamInv, StreamTypes
  <2>2. conn' = conn
    BY <2>1 DEF Upgrade, Reject, RegisterFails
  <2>3. Stages(c)' /\ Streaming(c)'
    BY <1>1, <1>4, <1>5, <2>1, <2>2 DEF Stages, Streaming
  <2>. QED BY <1>1, <1>2, <1>3, <2>3, StepOf
<1>6. CASE handler'[c] = "done"
  <2>1. handler[c] \in {"authenticating", "queueing"} /\ project' = project
    BY <1>6 DEF Upgrade, Reject, RegisterFails, HubInv, HubCounts
  <2>2. c \notin clients'[project'[c]]
    BY <1>1, <2>1 DEF HubInv, HubCounts, ClientsAlive
  <2>3. conn'[c] = "rejected"
    BY <1>6, <2>1 DEF Upgrade, Reject, RegisterFails, HubInv, HubCounts, StreamInv, StreamTypes
  <2>4. Stages(c)'
    BY <1>1, <1>4, <1>6, <2>1, <2>3 DEF Stages
  <2>5. received[c] = <<>>
    BY <1>4, <2>1 DEF Stages
  <2>6. Streaming(c)'
    BY <1>1, <2>3, <2>5 DEF Streaming, InLine
  <2>. QED BY <1>1, <1>2, <1>3, <2>4, <2>6, StepOf
<1>. QED
  BY <1>5, <1>6 DEF Upgrade, Reject, RegisterFails, HubInv, HubCounts

LEMMA AuthenticateStream ==
  ASSUME HubInv, StreamInv, NEW c \in Client, Authenticate(c)
  PROVE  StreamInv'
<1>1. handler[c] = "authenticating" /\ project[c] \in Project /\ Stages(c) /\ StreamTypes
  BY DEF Authenticate, HubInv, HubCounts, StreamInv
<1>2. send[c] = <<>>
  BY <1>1 DEF Stages
<1>3. Ready(project[c]) \in Messages
  BY <1>1 DEF Ready, Message, Messages
<1>4. Append(<<>>, Ready(project[c])) = <<Ready(project[c])>>
  OBVIOUS
<1>5. <<Ready(project[c])>> \in Seq(Messages)
  BY <1>3
<1>6. send' = [send EXCEPT ![c] = <<Ready(project[c])>>]
  BY <1>2, <1>4 DEF Authenticate
<1>. HIDE DEF Messages
<1>7. UNCHANGED <<clients, published, writer, taken, conn, project, received, since>>
  BY DEF Authenticate
<1>8. StreamTypes'
  BY <1>1, <1>5, <1>6, <1>7 DEF StreamTypes
<1>9. handler'[c] = "queueing" /\ send'[c] = <<Ready(project[c])>>
  BY <1>1, <1>6 DEF Authenticate, HubInv, HubCounts, StreamTypes
<1>10. Stages(c)' /\ Streaming(c)'
  BY <1>1, <1>7, <1>9 DEF Stages, Streaming
<1>11. \A d \in Client \ {c} : handler'[d] = handler[d] /\ send'[d] = send[d]
  BY <1>1, <1>6 DEF Authenticate, HubInv, HubCounts, StreamTypes
<1>. QED BY <1>7, <1>8, <1>10, <1>11, StepOf

\* One message, and nothing in the hand, makes a stream of one.
LEMMA OneMessage == \A m : Len(<<>> \o <<>> \o <<m>>) = 1 /\ (<<>> \o <<>> \o <<m>>)[1] = m
OBVIOUS

LEMMA RegisterStream ==
  ASSUME HubInv, StreamInv, NEW c \in Client, Register(c)
  PROVE  StreamInv'
<1>1. /\ handler[c] = "queueing" /\ project[c] \in Project /\ Stages(c) /\ StreamTypes
      /\ published[project[c]] \in Nat
  BY DEF Register, HubInv, HubCounts, StreamInv, StreamTypes
<1>2. /\ send[c] = <<Ready(project[c])>> /\ received[c] = <<>> /\ writer[c] = "none"
      /\ taken[c] = <<>> /\ conn[c] # "rejected"
  BY <1>1 DEF Stages
<1>3. UNCHANGED <<published, writer, taken, conn, project, send, received>>
  BY DEF Register
<1>4. handler'[c] = "starting" /\ since'[c] = published[project[c]]
  BY <1>1 DEF Register, HubInv, HubCounts, StreamTypes
<1>5. StreamTypes'
  BY <1>1, <1>3 DEF Register, StreamTypes
<1>6. Stages(c)'
  BY <1>2, <1>3, <1>4 DEF Stages
<1>7. Len(Stream(c)) = 1 /\ Stream(c)[1] = Ready(project[c]) /\ Stream(c)' = Stream(c)
  BY <1>2, <1>3, OneMessage DEF Stream
<1>8. InLine(Stream(c), project[c], published[project[c]])
  BY <1>7 DEF InLine
<1>9. InLine(<<>>, project[c], published[project[c]])
  BY DEF InLine
<1>10. Streaming(c)'
  <2>1. InLine(received[c], project[c], since[c])' /\ (received[c] = <<>>)'
    BY <1>2, <1>3, <1>4, <1>9
  <2>2. InLine(Stream(c), project[c], since[c])'
    BY <1>3, <1>4, <1>7, <1>8
  <2>3. (Len(Stream(c)) = 1)' /\ (since[c] = published[project[c]])' /\ since'[c] \in Nat
    BY <1>1, <1>3, <1>4, <1>7
  <2>4. (Len(Stream(c)) >= 1)' /\ (since[c] + Len(Stream(c)) - 1 = published[project[c]])'
    BY <2>3
  <2>5. (since[c] + Len(Stream(c)) - 1 <= published[project[c]])'
    BY <2>3, <2>4
  <2>. QED BY <2>1, <2>2, <2>4, <2>5 DEF Streaming
<1>11. \A d \in Client \ {c} :
         /\ handler'[d] = handler[d] /\ since'[d] = since[d]
         /\ \A q \in Project : d \in clients'[q] => d \in clients[q]
  BY <1>1 DEF Register, HubInv, HubCounts, StreamTypes
<1>12. \A d \in Client \ {c} : d \in clients'[project[d]] => d \in clients[project[d]]
  <2>. SUFFICES ASSUME NEW d \in Client \ {c}, project[d] \notin Project,
                       d \in clients'[project[d]]
                PROVE  d \in clients[project[d]]
    BY <1>11
  <2>1. project[d] # project[c]
    BY <1>1
  <2>. QED BY <2>1 DEF Register, HubInv, HubCounts
<1>. QED BY <1>3, <1>5, <1>6, <1>10, <1>11, <1>12, StepOf

LEMMA StartWriterStream ==
  ASSUME HubInv, StreamInv, NEW c \in Client, StartWriter(c)
  PROVE  StreamInv'
<1>1. Stages(c) /\ Streaming(c) /\ StreamTypes
  BY DEF StreamInv
<1>2. /\ handler[c] = "starting" /\ handler'[c] = "reading" /\ writer'[c] = "waiting"
      /\ UNCHANGED <<clients, published, taken, conn, project, send, received, since>>
  BY <1>1 DEF StartWriter, HubInv, HubCounts, StreamTypes
<1>3. StreamTypes'
  BY <1>1 DEF StartWriter, StreamTypes
<1>4. writer[c] = "none" /\ taken[c] = <<>>
  BY <1>1, <1>2 DEF Stages
<1>5. Stages(c)'
  BY <1>1, <1>2, <1>4 DEF Stages
<1>6. Stream(c)' = Stream(c)
  BY <1>2 DEF Stream
<1>7. Streaming(c)'
  BY <1>1, <1>2, <1>4, <1>6 DEF Streaming
<1>8. \A d \in Client \ {c} : handler'[d] = handler[d] /\ writer'[d] = writer[d]
  BY <1>1 DEF StartWriter, StreamTypes, HubInv, HubCounts
<1>. QED BY <1>2, <1>3, <1>5, <1>7, <1>8, StepOf

LEMMA ReadFailsStream ==
  ASSUME HubInv, StreamInv, NEW c \in Client, ReadFails(c)
  PROVE  StreamInv'
<1>1. Stages(c) /\ Streaming(c) /\ StreamTypes
  BY DEF StreamInv
<1>2. /\ handler[c] = "reading" /\ handler'[c] = "returning" /\ conn'[c] = "closed"
      /\ UNCHANGED <<clients, published, writer, taken, project, send, received, since>>
  BY <1>1 DEF ReadFails, HubInv, HubCounts, StreamTypes
<1>3. StreamTypes'
  BY <1>1 DEF ReadFails, StreamTypes
<1>4. conn[c] # "rejected"
  BY <1>1, <1>2 DEF Stages
<1>5. Stages(c)'
  BY <1>1, <1>2, <1>4 DEF Stages
<1>6. Stream(c)' = Stream(c)
  BY <1>2 DEF Stream
<1>7. Streaming(c)'
  BY <1>1, <1>2, <1>4, <1>6 DEF Streaming
<1>8. \A d \in Client \ {c} : handler'[d] = handler[d] /\ conn'[d] = conn[d]
  BY <1>1 DEF ReadFails, StreamTypes, HubInv, HubCounts
<1>. QED BY <1>2, <1>3, <1>5, <1>7, <1>8, StepOf

LEMMA UnregisterStream ==
  ASSUME HubInv, StreamInv, NEW c \in Client, Unregister(c)
  PROVE  StreamInv'
<1>1. Stages(c) /\ Streaming(c) /\ StreamTypes /\ project[c] \in Project
  BY DEF StreamInv, Unregister, HubInv, HubCounts
<1>2. /\ handler[c] = "returning" /\ handler'[c] = "done"
      /\ UNCHANGED <<published, writer, taken, conn, project, send, received, since>>
      /\ clients' = [clients EXCEPT ![project[c]] = @ \ {c}]
  BY <1>1 DEF Unregister, RemoveClients, HubInv, HubCounts
<1>3. StreamTypes'
  BY <1>1, <1>2 DEF StreamTypes
<1>4. Stages(c)'
  BY <1>1, <1>2 DEF Stages
<1>5. Stream(c)' = Stream(c) /\ c \notin clients'[project'[c]]
  BY <1>1, <1>2 DEF Stream, HubInv, HubCounts
<1>6. Streaming(c)'
  BY <1>1, <1>2, <1>5 DEF Streaming
<1>7. \A d \in Client \ {c} : /\ handler'[d] = handler[d]
                              /\ d \in clients'[project[d]] => d \in clients[project[d]]
  BY <1>1, <1>2 DEF Unregister, HubInv, HubCounts
<1>. QED BY <1>2, <1>3, <1>4, <1>6, <1>7, StepOf

LEMMA CloseStream == HubInv /\ StreamInv /\ Close => StreamInv'
<1>. SUFFICES ASSUME HubInv, StreamInv, Close PROVE StreamInv'
  OBVIOUS
<1>1. UNCHANGED <<published, handler, writer, taken, conn, project, send, received, since>>
  BY DEF Close
<1>2. StreamTypes'
  BY <1>1 DEF StreamInv, StreamTypes
<1>3. ASSUME NEW c \in Client PROVE Stages(c)' /\ Streaming(c)'
  <2>1. Stages(c) /\ Streaming(c)
    BY DEF StreamInv
  <2>2. Stages(c)'
    BY <1>1, <2>1 DEF Stages
  <2>3. Stream(c)' = Stream(c)
    BY <1>1 DEF Stream
  <2>4. CASE handler[c] \in {"none", "authenticating", "queueing"}
    BY <1>1, <2>2, <2>4 DEF Streaming
  <2>5. CASE handler[c] \notin {"none", "authenticating", "queueing"}
    <3>1. project[c] \in Project
      BY <2>5 DEF HubInv, HubCounts
    <3>2. c \notin clients'[project'[c]]
      BY <1>1, <3>1 DEF Close
    <3>. QED BY <1>1, <2>1, <2>2, <2>3, <3>2 DEF Streaming
  <2>. QED BY <2>4, <2>5
<1>. QED BY <1>2, <1>3 DEF StreamInv

\* One more message at the end of a stream that is up to date.
LEMMA LineGrows ==
  ASSUME NEW r \in Seq(Messages), NEW h \in Seq(Messages), NEW s \in Seq(Messages),
         NEW p \in Project, NEW from \in Nat, NEW m \in Messages,
         InLine(r \o h \o s, p, from), Len(r \o h \o s) >= 1,
         m = Message(p, from + Len(r \o h \o s))
  PROVE  /\ InLine(r \o h \o Append(s, m), p, from)
         /\ Len(r \o h \o Append(s, m)) = Len(r \o h \o s) + 1
<1>. DEFINE u == r \o h
            x == u \o s
            y == u \o Append(s, m)
<1>. HIDE DEF Messages
<1>1. u \in Seq(Messages)
  BY ConcatProperties
<1>2. Append(s, m) \in Seq(Messages) /\ Len(Append(s, m)) = Len(s) + 1
      /\ (\A i \in 1 .. Len(s) : Append(s, m)[i] = s[i]) /\ Append(s, m)[Len(s) + 1] = m
  BY AppendProperties
<1>3. Len(u) \in Nat /\ Len(s) \in Nat
  BY <1>1
<1>4. /\ x \in Seq(Messages) /\ Len(x) = Len(u) + Len(s)
      /\ \A i \in 1 .. Len(u) + Len(s) : x[i] = IF i <= Len(u) THEN u[i] ELSE s[i - Len(u)]
  BY <1>1, ConcatProperties, Zenon
<1>5. /\ Len(y) = Len(u) + Len(Append(s, m))
      /\ \A i \in 1 .. Len(u) + Len(Append(s, m)) :
           y[i] = IF i <= Len(u) THEN u[i] ELSE Append(s, m)[i - Len(u)]
  <2>. DEFINE a == Append(s, m)
  <2>1. a \in Seq(Messages)
    BY <1>2
  <2>. HIDE DEF u, a
  <2>2. /\ Len(u \o a) = Len(u) + Len(a)
        /\ \A i \in 1 .. Len(u) + Len(a) :
             (u \o a)[i] = IF i <= Len(u) THEN u[i] ELSE a[i - Len(u)]
    BY <1>1, <2>1, ConcatProperties, Zenon
  <2>. QED BY <2>2 DEF a
<1>. HIDE DEF u, x, y
<1>6. Len(y) = Len(x) + 1 /\ Len(x) \in Nat
  BY <1>2, <1>3, <1>4, <1>5
<1>7. \A i \in 1 .. Len(x) : y[i] = x[i]
  <2>. SUFFICES ASSUME NEW i \in 1 .. Len(x) PROVE y[i] = x[i]
    OBVIOUS
  <2>1. y[i] = IF i <= Len(u) THEN u[i] ELSE Append(s, m)[i - Len(u)]
    BY <1>2, <1>3, <1>4, <1>5
  <2>2. x[i] = IF i <= Len(u) THEN u[i] ELSE s[i - Len(u)]
    BY <1>4
  <2>3. i > Len(u) => i - Len(u) \in 1 .. Len(s)
    BY <1>3, <1>4
  <2>. QED BY <1>2, <1>3, <2>1, <2>2, <2>3
<1>8. y[Len(x) + 1] = m
  <2>1. Len(x) + 1 \in 1 .. Len(u) + Len(Append(s, m)) /\ ~(Len(x) + 1 <= Len(u))
        /\ Len(x) + 1 - Len(u) = Len(s) + 1
    BY <1>2, <1>3, <1>4
  <2>. QED BY <1>2, <1>5, <2>1
<1>9. InLine(x, p, from) /\ Len(x) >= 1 /\ m = Message(p, from + Len(x))
  BY DEF x, u
<1>10. InLine(y, p, from)
  <2>. SUFFICES ASSUME NEW i \in 1 .. Len(y)
                PROVE  y[i] = IF i = 1 THEN Ready(p) ELSE Message(p, from + i - 1)
    BY DEF InLine
  <2>1. CASE i <= Len(x)
    BY <1>6, <1>7, <1>9, <2>1 DEF InLine
  <2>2. CASE i > Len(x)
    <3>1. i = Len(x) + 1 /\ i # 1 /\ from + i - 1 = from + Len(x)
      BY <1>6, <1>9, <2>2
    <3>. QED BY <1>8, <1>9, <3>1
  <2>. QED BY <1>6, <2>1, <2>2
<1>. QED BY <1>6, <1>10 DEF x, y, u

LEMMA PublishStream ==
  ASSUME HubInv, StreamInv, NEW p \in Project, Publish(p)
  PROVE  StreamInv'
<1>. DEFINE m == Message(p, published[p] + 1)
<1>1. StreamTypes /\ \A d \in Client : Stages(d) /\ Streaming(d)
  BY DEF StreamInv
<1>2. published[p] \in Nat /\ m \in Messages
  BY <1>1 DEF StreamTypes, Message, Messages
<1>3. /\ UNCHANGED <<handler, writer, taken, project, received, since>>
      /\ published' = [published EXCEPT ![p] = @ + 1]
      /\ send' = [d \in Client |-> IF d \in clients[p] /\ Len(send[d]) < SendBuffer
                                   THEN Append(send[d], m) ELSE send[d]]
      /\ conn' = [d \in Client |-> IF d \in Full(p) THEN "closed" ELSE conn[d]]
      /\ clients' = [clients EXCEPT ![p] = @ \ Full(p)]
  BY DEF Publish, RemoveClients
<1>. HIDE DEF Messages, m
<1>4. \A d \in Client : Append(send[d], m) \in Seq(Messages)
  BY <1>1, <1>2, AppendProperties DEF StreamTypes
<1>5. StreamTypes'
  BY <1>1, <1>2, <1>3, <1>4 DEF StreamTypes
<1>6. ASSUME NEW d \in Client PROVE Stages(d)' /\ Streaming(d)'
  <2>1. d \in clients[p] =>
          /\ handler[d] \in {"starting", "reading", "returning"} /\ project[d] = p
    BY DEF HubInv, ClientsAlive
  <2>2. conn'[d] = IF d \in Full(p) THEN "closed" ELSE conn[d]
    BY <1>3
  <2>3. send'[d] = IF d \in clients[p] /\ Len(send[d]) < SendBuffer
                  THEN Append(send[d], m) ELSE send[d]
    BY <1>3
  <2>4. Full(p) \subseteq clients[p]
    BY DEF Full
  <2>5. Stages(d)'
    BY <1>1, <1>3, <2>1, <2>2, <2>3, <2>4 DEF Stages
  <2>6. CASE handler[d] \in {"none", "authenticating", "queueing"}
    BY <1>3, <2>5, <2>6 DEF Streaming
  <2>7. CASE handler[d] \notin {"none", "authenticating", "queueing"}
    <3>1. /\ project[d] \in Project /\ published[project[d]] \in Nat /\ since[d] \in Nat
          /\ published'[project[d]] = IF project[d] = p THEN published[p] + 1
                                      ELSE published[project[d]]
      BY <1>1, <1>3, <2>7 DEF HubInv, HubCounts, StreamTypes
    <3>2. Len(received[d]) \in Nat /\ Len(Stream(d)) \in Nat
      BY <1>1, StreamParts DEF StreamTypes
    <3>3. /\ InLine(received[d], project[d], since[d])
          /\ received[d] # <<>> => since[d] + Len(received[d]) - 1 <= published'[project[d]]
      <4>1. /\ InLine(received[d], project[d], since[d])
            /\ received[d] # <<>> => since[d] + Len(received[d]) - 1 <= published[project[d]]
        BY <1>1, <2>7 DEF Streaming
      <4>. QED BY <1>2, <3>1, <3>2, <4>1
    <3>4. ASSUME writer[d] # "done", conn'[d] # "rejected"
          PROVE  /\ InLine(Stream(d)', project[d], since[d])
                 /\ Len(Stream(d)') >= 1
                 /\ since[d] + Len(Stream(d)') - 1 <= published'[project[d]]
                 /\ d \in clients'[project[d]] =>
                      since[d] + Len(Stream(d)') - 1 = published'[project[d]]
      <4>1. conn[d] # "rejected"
        BY <1>1, <2>1, <2>2, <2>4, <3>4 DEF Stages
      <4>2. /\ InLine(Stream(d), project[d], since[d])
            /\ Len(Stream(d)) >= 1
            /\ since[d] + Len(Stream(d)) - 1 <= published[project[d]]
            /\ d \in clients[project[d]] =>
                 since[d] + Len(Stream(d)) - 1 = published[project[d]]
        BY <1>1, <2>7, <3>4, <4>1 DEF Streaming
      <4>3. CASE d \in clients[p] /\ Len(send[d]) < SendBuffer
        <5>1. /\ received[d] \in Seq(Messages) /\ taken[d] \in Seq(Messages)
              /\ send[d] \in Seq(Messages)
          BY <1>1 DEF StreamTypes
        <5>2. m = Message(p, since[d] + Len(Stream(d))) /\ project[d] = p
          BY <1>2, <2>1, <3>1, <3>2, <4>2, <4>3 DEF m
        <5>3. Stream(d)' = received[d] \o taken[d] \o Append(send[d], m)
          BY <1>3, <2>3, <4>3 DEF Stream
        <5>4. InLine(Stream(d)', p, since[d]) /\ Len(Stream(d)') = Len(Stream(d)) + 1
          <6>1. /\ InLine(received[d] \o taken[d] \o send[d], p, since[d])
                /\ Len(received[d] \o taken[d] \o send[d]) >= 1
                /\ m = Message(p, since[d] + Len(received[d] \o taken[d] \o send[d]))
            BY <4>2, <5>2 DEF Stream
          <6>2. /\ InLine(received[d] \o taken[d] \o Append(send[d], m), p, since[d])
                /\ Len(received[d] \o taken[d] \o Append(send[d], m))
                     = Len(received[d] \o taken[d] \o send[d]) + 1
            <7>. DEFINE r == received[d]
                        h == taken[d]
                        s == send[d]
                        from == since[d]
            <7>1. /\ r \in Seq(Messages) /\ h \in Seq(Messages) /\ s \in Seq(Messages)
                  /\ from \in Nat /\ m \in Messages
              BY <1>2, <3>1, <5>1, Zenon
            <7>2. /\ InLine(r \o h \o s, p, from) /\ Len(r \o h \o s) >= 1
                  /\ m = Message(p, from + Len(r \o h \o s))
              BY <6>1, Zenon
            <7>. HIDE DEF r, h, s, from
            <7>3. /\ InLine(r \o h \o Append(s, m), p, from)
                  /\ Len(r \o h \o Append(s, m)) = Len(r \o h \o s) + 1
              BY <7>1, <7>2, LineGrows
            <7>. QED BY <7>3 DEF r, h, s, from
          <6>. QED BY <5>3, <6>2 DEF Stream
        <5>. QED BY <1>2, <3>1, <3>2, <4>2, <4>3, <5>2, <5>4
      <4>4. CASE ~(d \in clients[p] /\ Len(send[d]) < SendBuffer)
        <5>1. Stream(d)' = Stream(d)
          BY <1>3, <2>3, <4>4 DEF Stream
        <5>2. d \in clients'[project[d]] => project[d] # p /\ d \in clients[project[d]]
          <6>1. d \in clients[p] => d \in Full(p)
            <7>1. Len(send[d]) \in Nat
              BY <1>1 DEF StreamTypes
            <7>. QED BY <4>4, <7>1, BufferAssumption DEF Full
          <6>. QED BY <1>3, <3>1, <6>1 DEF HubInv, HubCounts
        <5>. QED BY <1>2, <3>1, <3>2, <4>2, <5>1, <5>2
      <4>. QED BY <4>3, <4>4
    <3>5. Streaming(d)'
      BY <1>3, <2>7, <3>3, <3>4 DEF Streaming
    <3>. QED BY <2>5, <3>5
  <2>. QED BY <2>6, <2>7
<1>. QED BY <1>5, <1>6 DEF StreamInv

LEMMA StreamInvStep == HubInv /\ StreamInv /\ [HubNext]_hubVars => StreamInv'
<1>. SUFFICES ASSUME HubInv, StreamInv, [HubNext]_hubVars PROVE StreamInv'
  OBVIOUS
<1>1. ASSUME NEW c \in Client, Handler(c) PROVE StreamInv'
  BY <1>1, EarlyStep, AuthenticateStream, RegisterStream, StartWriterStream,
     ReadFailsStream, UnregisterStream DEF Handler
<1>2. ASSUME NEW c \in Client, Writer(c) PROVE StreamInv'
  BY <1>2, TakeStep, WriteStep, WriterReturnsStep DEF Writer, WriteFails, PingFails, WriteClose
<1>3. CASE UNCHANGED hubVars
  BY <1>3 DEF hubVars, StreamInv, StreamTypes, Stages, Streaming, Stream
<1>. QED BY <1>1, <1>2, <1>3, PublishStream, CloseStream DEF HubNext

\* The invariant the next two theorems follow from.
THEOREM StreamInvariance == HubSafety => [](HubInv /\ StreamInv)
<1>1. HubInit => HubInv /\ StreamInv
  BY HubInvInit, StreamInvInit
<1>2. HubInv /\ StreamInv /\ [HubNext]_hubVars => (HubInv /\ StreamInv)'
  BY HubInvStep, StreamInvStep
<1>. QED BY <1>1, <1>2, PTL DEF HubSafety

\* A sequence in line is the run of the updates up to its last.
LEMMA LineIsRun ==
  ASSUME NEW s \in Seq(Messages), NEW p \in Project, NEW from \in Nat,
         InLine(s, p, from), Len(s) >= 1
  PROVE  s = Run(p, from, from + Len(s) - 1)
<1>. DEFINE n == Len(s) - 1
            rest == [i \in 1 .. from + n - from |-> Message(p, from + i)]
            run == <<Ready(p)>> \o rest
<1>1. n \in Nat /\ from + n - from = n /\ from + Len(s) - 1 = from + n
  OBVIOUS
<1>2. rest \in Seq(Messages) /\ Len(rest) = n
  BY <1>1 DEF Message, Messages
<1>3. <<Ready(p)>> \in Seq(Messages) /\ Len(<<Ready(p)>>) = 1 /\ <<Ready(p)>>[1] = Ready(p)
  BY DEF Ready, Message, Messages
<1>. HIDE DEF Messages, n
<1>4. rest = [i \in 1 .. n |-> Message(p, from + i)]
  BY <1>1
<1>. HIDE DEF rest
<1>5. /\ run \in Seq(Messages) /\ Len(run) = 1 + n
      /\ \A i \in 1 .. 1 + n : run[i] = IF i <= 1 THEN <<Ready(p)>>[i] ELSE rest[i - 1]
  BY <1>2, <1>3, ConcatProperties
<1>6. Len(s) = 1 + n
  BY <1>1 DEF n
<1>7. ASSUME NEW i \in 1 .. Len(s) PROVE s[i] = run[i]
  <2>1. s[i] = IF i = 1 THEN Ready(p) ELSE Message(p, from + i - 1)
    BY DEF InLine
  <2>2. CASE i = 1
    BY <1>1, <1>3, <1>5, <2>1, <2>2
  <2>3. CASE i # 1
    <3>1. i - 1 \in 1 .. n /\ ~(i <= 1) /\ i \in 1 .. 1 + n /\ from + (i - 1) = from + i - 1
      BY <1>1, <1>6, <2>3
    <3>. QED BY <1>4, <1>5, <2>1, <2>3, <3>1
  <2>. QED BY <2>2, <2>3
<1>. HIDE DEF run
<1>8. s = run
  BY <1>5, <1>6, <1>7, SeqEqual
<1>. QED BY <1>1, <1>8 DEF run, rest, Run

\* While a client is registered and its connection open, all that was published for its
\* project since is received, in its writer's hand, or in its channel.
THEOREM NothingIsDropped == HubSafety => []NothingDropped
<1>1. HubInv /\ StreamInv => NothingDropped
  <2>. SUFFICES ASSUME HubInv, StreamInv, NEW p \in Project, NEW c \in clients[p],
                       conn[c] = "open"
                PROVE  Stream(c) = Run(p, since[c], published[p])
    BY DEF NothingDropped, Stream
  <2>1. c \in Client /\ Stages(c) /\ Streaming(c) /\ StreamTypes
    BY DEF HubInv, HubCounts, StreamInv
  <2>2. /\ project[c] = p /\ handler[c] \notin {"none", "authenticating", "queueing"}
        /\ writer[c] # "done"
    BY <2>1 DEF HubInv, ClientsAlive, Stages
  <2>3. InLine(Stream(c), p, since[c]) /\ Len(Stream(c)) >= 1
        /\ since[c] + Len(Stream(c)) - 1 = published[p]
    BY <2>1, <2>2 DEF Streaming
  <2>4. Stream(c) \in Seq(Messages) /\ since[c] \in Nat
    BY <2>1, StreamParts DEF StreamTypes
  <2>. HIDE DEF Messages
  <2>. QED BY <2>3, <2>4, LineIsRun
<1>. QED BY <1>1, StreamInvariance, PTL

\* What a browser has received is "realtime.ready" and the updates of its project from
\* its registration on, in order and without a gap, for any buffer.
THEOREM OrderReceived == HubSafety => []ReceivedInOrder
<1>1. HubInv /\ StreamInv => ReceivedInOrder
  <2>. SUFFICES ASSUME HubInv, StreamInv, NEW c \in Client, received[c] # <<>>
                PROVE  IsPrefix(received[c], Run(project[c], since[c], published[project[c]]))
    BY DEF ReceivedInOrder
  <2>1. Stages(c) /\ Streaming(c) /\ StreamTypes
    BY DEF StreamInv
  <2>2. handler[c] \notin {"none", "authenticating", "queueing"} /\ project[c] \in Project
    BY <2>1 DEF Stages, HubInv, HubCounts
  <2>. DEFINE r == received[c]
              p == project[c]
              n == published[project[c]]
              run == Run(p, since[c], n)
  <2>3. r \in Seq(Messages) /\ since[c] \in Nat /\ n \in Nat /\ Len(r) \in Nat /\ Len(r) >= 1
    BY <2>1, <2>2 DEF StreamTypes
  <2>4. InLine(r, p, since[c]) /\ since[c] + Len(r) - 1 <= n
    BY <2>1, <2>2 DEF Streaming
  <2>5. run \in Seq(Messages) /\ Len(run) = n - since[c] + 1
        /\ InLine(run, p, since[c])
    <3>1. <<Ready(p)>> \in Seq(Messages) /\ Len(<<Ready(p)>>) = 1
          /\ <<Ready(p)>>[1] = Ready(p)
      BY <2>2 DEF Ready, Message, Messages
    <3>. DEFINE rest == [i \in 1 .. n - since[c] |-> Message(p, since[c] + i)]
    <3>2. rest \in Seq(Messages) /\ Len(rest) = n - since[c]
      <4>. DEFINE k == n - since[c]
      <4>1. k \in Nat
        BY <2>3, <2>4
      <4>2. \A i \in 1 .. k : Message(p, since[c] + i) \in Messages
        BY <2>2, <2>3, <4>1 DEF Message, Messages
      <4>. HIDE DEF k, Messages
      <4>3. [i \in 1 .. k |-> Message(p, since[c] + i)] \in Seq(Messages)
        BY <4>1, <4>2
      <4>4. Len([i \in 1 .. k |-> Message(p, since[c] + i)]) = k
        BY <4>1
      <4>. QED BY <4>3, <4>4 DEF k
    <3>3. \A i \in 1 .. n - since[c] : rest[i] = Message(p, since[c] + i)
      OBVIOUS
    <3>. HIDE DEF Messages, rest
    <3>4. /\ <<Ready(p)>> \o rest \in Seq(Messages)
          /\ Len(<<Ready(p)>> \o rest) = 1 + Len(rest)
          /\ \A i \in 1 .. 1 + Len(rest) :
               (<<Ready(p)>> \o rest)[i] = IF i <= 1 THEN <<Ready(p)>>[i] ELSE rest[i - 1]
      BY <3>1, <3>2, ConcatProperties
    <3>5. run = <<Ready(p)>> \o rest
      BY DEF Run, rest
    <3>. HIDE DEF run
    <3>6. ASSUME NEW i \in 1 .. Len(run)
          PROVE  run[i] = IF i = 1 THEN Ready(p) ELSE Message(p, since[c] + i - 1)
      <4>1. CASE i = 1
        BY <2>3, <3>1, <3>2, <3>4, <3>5, <4>1
      <4>2. CASE i # 1
        <5>1. i - 1 \in 1 .. n - since[c] /\ ~(i <= 1) /\ i \in 1 .. 1 + Len(rest)
              /\ since[c] + (i - 1) = since[c] + i - 1
          BY <2>3, <2>4, <3>2, <3>4, <3>5, <4>2
        <5>. QED BY <3>3, <3>4, <3>5, <4>2, <5>1
      <4>. QED BY <4>1, <4>2
    <3>. QED BY <2>3, <2>4, <3>2, <3>4, <3>5, <3>6 DEF InLine
  <2>. HIDE DEF run, r
  <2>6. Len(r) <= Len(run) /\ \A i \in 1 .. Len(r) : r[i] = run[i]
    BY <2>3, <2>4, <2>5 DEF InLine
  <2>7. SubSeq(r, 1, Len(r)) = SubSeq(run, 1, Len(r))
    BY <2>6 
  <2>. QED BY <2>6, <2>7 DEF IsPrefix, r, run
<1>. QED BY <1>1, StreamInvariance, PTL

----------------------------------------------------------------------------
(* Types, and the room in a channel.                                       *)

RoomKept == closed \in BOOLEAN /\ \A c \in Client : Len(send[c]) <= SendBuffer

LEMMA RoomKeptStep == HubInv /\ StreamInv /\ RoomKept /\ [HubNext]_hubVars => RoomKept'
<1>. SUFFICES ASSUME HubInv, StreamInv, RoomKept, [HubNext]_hubVars PROVE RoomKept'
  OBVIOUS
<1>1. send \in [Client -> Seq(Messages)]
  BY DEF StreamInv, StreamTypes
<1>2. ASSUME UNCHANGED closed, NEW c \in Client, \A d \in Client \ {c} : send'[d] = send[d],
             Len(send'[c]) <= SendBuffer
      PROVE  RoomKept'
  BY <1>2 DEF RoomKept
<1>3. ASSUME NEW c \in Client, Authenticate(c) PROVE RoomKept'
  <2>1. /\ send' = [send EXCEPT ![c] = Append(@, Ready(project[c]))] /\ UNCHANGED closed
        /\ send[c] = <<>>
    BY <1>3 DEF Authenticate, StreamInv, Stages
  <2>2. send'[c] = <<Ready(project[c])>>
    BY <1>1, <2>1
  <2>3. Len(send'[c]) = 1
    BY <2>2
  <2>. QED BY <1>1, <1>2, <2>1, <2>3, BufferAssumption
<1>4. ASSUME NEW c \in Client, Take(c) PROVE RoomKept'
  <2>1. send' = [send EXCEPT ![c] = Tail(@)] /\ UNCHANGED closed /\ send[c] # <<>>
    BY <1>4 DEF Take
  <2>2. Len(send'[c]) = Len(send[c]) - 1 /\ Len(send[c]) \in Nat
    BY <1>1, <2>1
  <2>3. Len(send'[c]) <= SendBuffer
    BY <2>2, BufferAssumption DEF RoomKept
  <2>. QED BY <1>1, <1>2, <2>1, <2>3
<1>5. ASSUME NEW p \in Project, Publish(p) PROVE RoomKept'
  <2>. DEFINE m == Message(p, published[p] + 1)
  <2>1. /\ UNCHANGED closed
        /\ send' = [d \in Client |-> IF d \in clients[p] /\ Len(send[d]) < SendBuffer
                                     THEN Append(send[d], m) ELSE send[d]]
    BY <1>5 DEF Publish
  <2>2. m \in Messages
    BY DEF StreamInv, StreamTypes, Message, Messages
  <2>. HIDE DEF m
  <2>3. \A d \in Client : Len(send[d]) \in Nat /\ Len(Append(send[d], m)) = Len(send[d]) + 1
    BY <1>1, <2>2, AppendProperties, LenProperties
  <2>. QED BY <2>1, <2>3, BufferAssumption DEF RoomKept
<1>6. CASE UNCHANGED send /\ closed' \in BOOLEAN
  BY <1>6 DEF RoomKept
<1>7. \/ \E c \in Client : Authenticate(c) \/ Take(c)
      \/ \E p \in Project : Publish(p)
      \/ UNCHANGED send /\ closed' \in BOOLEAN
  BY DEF RoomKept, hubVars, HubNext, Handler, Writer, Upgrade, Reject, Register, RegisterFails,
         StartWriter, ReadFails, Unregister, Write, WriteFails, PingFails, WriteClose,
         WriterReturns, Close
<1>. QED BY <1>3, <1>4, <1>5, <1>6, <1>7

\* The hub's maps and channels are as declared: a channel never holds more than its
\* capacity, so no send under the mutex can block.
THEOREM HubTypeCorrect == HubSafety => []HubTypeOK
<1>1. HubInit => RoomKept
  <2>. SUFFICES ASSUME HubInit PROVE RoomKept
    OBVIOUS
  <2>1. \A c \in Client : Len(send[c]) = 0
    BY EmptySeq DEF HubInit
  <2>2. \A c \in Client : Len(send[c]) <= SendBuffer
    BY <2>1, BufferAssumption
  <2>3. closed \in BOOLEAN
    BY DEF HubInit
  <2>. QED BY <2>2, <2>3 DEF RoomKept
<1>2. HubInv /\ StreamInv /\ RoomKept => HubTypeOK
  <2>. SUFFICES ASSUME HubInv, StreamInv, RoomKept PROVE HubTypeOK
    OBVIOUS
  <2>1. ASSUME NEW c \in Client
        PROVE  /\ project[c] = None <=> handler[c] = "none"
               /\ Len(taken[c]) = (IF writer[c] = "writing" THEN 1 ELSE 0)
               /\ Len(send[c]) <= SendBuffer
               /\ \A i \in 1 .. Len(send[c]) : send[c][i] \in Messages
               /\ \A i \in 1 .. Len(received[c]) : received[c][i] \in Messages
               /\ closes[c] \in Nat /\ since[c] \in Nat
    <3>1. Stages(c) /\ StreamTypes
      BY DEF StreamInv
    <3>2. project[c] = None <=> handler[c] = "none"
      BY <3>1, HubNoneAssumption DEF Stages, HubInv, HubCounts
    <3>3. Len(taken[c]) = (IF writer[c] = "writing" THEN 1 ELSE 0)
      BY <3>1 DEF Stages, StreamTypes
    <3>4. send[c] \in Seq(Messages) /\ received[c] \in Seq(Messages)
      BY <3>1 DEF StreamTypes
    <3>5. /\ \A i \in 1 .. Len(send[c]) : send[c][i] \in Messages
          /\ \A i \in 1 .. Len(received[c]) : received[c][i] \in Messages
      BY <3>4, ElementOfSeq
    <3>. QED BY <3>1, <3>2, <3>3, <3>5 DEF RoomKept, HubInv, HubCounts, StreamTypes
  <2>2. /\ clients \in [Project -> SUBSET Client] /\ published \in [Project -> Nat]
        /\ handler \in [Client -> {"none", "authenticating", "queueing", "starting",
                                   "reading", "returning", "done"}]
        /\ writer \in [Client -> {"none", "waiting", "writing", "done"}]
        /\ conn \in [Client -> {"open", "closed", "rejected"}]
        /\ project \in [Client -> Project \cup {None}]
        /\ closed \in BOOLEAN
    BY DEF HubInv, HubCounts, StreamInv, StreamTypes, RoomKept
  <2>. QED BY <2>1, <2>2 DEF HubTypeOK, Messages
<1>. QED BY <1>1, <1>2, RoomKeptStep, StreamInvariance, PTL DEF HubSafety
=============================================================================
