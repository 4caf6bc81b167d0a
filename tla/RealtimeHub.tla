---------------------------- MODULE RealtimeHub ----------------------------
(***************************************************************************)
(* The in-process hub that forwards issue updates to browsers              *)
(* (internal/websocket.go).  A connection has two goroutines: its HTTP     *)
(* handler, which authenticates, registers and then reads until an error,  *)
(* and its writer, which drains the client's buffered channel.  Publish    *)
(* never waits: it drops a client whose buffer is full.  Close stops the   *)
(* hub at shutdown.  The hub's methods run under its mutex, so each is one *)
(* step; taking a message from a channel and writing it are two.           *)
(***************************************************************************)
EXTENDS Integers, Sequences, SequencesExt

CONSTANTS
  Client,      \* WebSocket connections, one realtimeClient each
  Project,     \* projects that are subscribed to
  SendBuffer,  \* realtimeSendBuffer, the capacity of a client's channel
  MaxUpdates,  \* bound: updates published per project
  None         \* no project

ASSUME BufferAssumption == SendBuffer \in Nat \ {0}
ASSUME HubBoundAssumption == MaxUpdates \in Nat
ASSUME HubNoneAssumption == None \notin Project

VARIABLES
  closed,     \* hub.closed
  clients,    \* hub.clients: for each project the registered clients
  published,  \* published[p]: how many updates of p were published (history)
  handler,    \* handler[c]: where the handler goroutine of c is
  writer,     \* writer[c]: where the writer goroutine of c is
  taken,      \* taken[c]: the message c's writer has in hand, if any
  conn,       \* conn[c]: whether the server has closed the connection, and how
  project,    \* project[c]: the project c subscribes to
  send,       \* send[c]: the messages in c's channel
  closes,     \* closes[c]: how often c's channel was closed; twice is a panic
  received,   \* received[c]: the messages written to the connection
  since       \* since[c]: published[project[c]] when c was registered (history)

hubVars == <<closed, clients, published, handler, writer, taken, conn, project,
             send, closes, received, since>>

\* Update n of project p; number 0 is the "realtime.ready" message.
Message(p, n) == [project |-> p, n |-> n]

Ready(p) == Message(p, 0)

HubTypeOK ==
  /\ closed \in BOOLEAN
  /\ clients \in [Project -> SUBSET Client]
  /\ published \in [Project -> Nat]
  /\ handler \in [Client -> {"none", "authenticating", "queueing", "starting",
                          "reading", "returning", "done"}]
  /\ writer \in [Client -> {"none", "waiting", "writing", "done"}]
  /\ conn \in [Client -> {"open", "closed", "rejected"}]
  /\ project \in [Client -> Project \cup {None}]
  /\ \A c \in Client :
       /\ project[c] = None <=> handler[c] = "none"
       /\ Len(taken[c]) = (IF writer[c] = "writing" THEN 1 ELSE 0)
       /\ Len(send[c]) <= SendBuffer
       /\ \A i \in 1 .. Len(send[c]) : send[c][i] \in [project : Project, n : Nat]
       /\ \A i \in 1 .. Len(received[c]) : received[c][i] \in [project : Project, n : Nat]
       /\ closes[c] \in Nat /\ since[c] \in Nat

HubInit ==
  /\ closed = FALSE
  /\ clients = [p \in Project |-> {}]
  /\ published = [p \in Project |-> 0]
  /\ handler = [c \in Client |-> "none"]
  /\ writer = [c \in Client |-> "none"]
  /\ taken = [c \in Client |-> <<>>]
  /\ conn = [c \in Client |-> "open"]
  /\ project = [c \in Client |-> None]
  /\ send = [c \in Client |-> <<>>]
  /\ closes = [c \in Client |-> 0]
  /\ received = [c \in Client |-> <<>>]
  /\ since = [c \in Client |-> 0]

----------------------------------------------------------------------------
(* The hub.                                                                *)

\* Mutant: a client is removed, and its channel closed, though it was already.
Registered_Unchecked(p, gone) == gone

\* Those of the clients in gone that are in the map: removeLocked does nothing to others.
Registered(p, gone) == gone \cap clients[p]

\* removeLocked, for each client in gone.
RemoveClients(p, gone) ==
  /\ clients' = [clients EXCEPT ![p] = @ \ gone]
  /\ closes' = [c \in Client |-> IF c \in Registered(p, gone) THEN closes[c] + 1 ELSE closes[c]]

\* Mutant: updates that find the buffer full are dropped, the client kept.
Full_Never(p) == {}

Full(p) == {c \in clients[p] : Len(send[c]) >= SendBuffer}

\* Mutant: every client gets the update.
Publish_ToAll(p) ==
  LET message == Message(p, published[p] + 1)
      all == UNION {clients[q] : q \in Project}
  IN /\ published[p] < MaxUpdates /\ ~closed
     /\ published' = [published EXCEPT ![p] = @ + 1]
     /\ send' = [c \in Client |-> IF c \in all /\ Len(send[c]) < SendBuffer
                                  THEN Append(send[c], message) ELSE send[c]]
     /\ RemoveClients(p, Full(p))
     /\ conn' = [c \in Client |-> IF c \in Full(p) THEN "closed" ELSE conn[c]]
     /\ UNCHANGED <<closed, handler, writer, taken, project, received, since>>

\* A client that has no room is removed and its connection closed.
Publish(p) ==
  LET message == Message(p, published[p] + 1)
  IN /\ published[p] < MaxUpdates /\ ~closed
     /\ published' = [published EXCEPT ![p] = @ + 1]
     /\ send' = [c \in Client |-> IF c \in clients[p] /\ Len(send[c]) < SendBuffer
                                  THEN Append(send[c], message) ELSE send[c]]
     /\ RemoveClients(p, Full(p))
     /\ conn' = [c \in Client |-> IF c \in Full(p) THEN "closed" ELSE conn[c]]
     /\ UNCHANGED <<closed, handler, writer, taken, project, received, since>>

\* Close the hub: every channel is closed, the connections by their writers.
Close ==
  /\ ~closed
  /\ closed' = TRUE
  /\ clients' = [p \in Project |-> {}]
  /\ closes' = [c \in Client |->
                 IF \E p \in Project : c \in clients[p] THEN closes[c] + 1 ELSE closes[c]]
  /\ UNCHANGED <<published, handler, writer, taken, conn, project, send, received, since>>

----------------------------------------------------------------------------
(* The handler goroutine of connection c.                                  *)

\* Mutant: the project of the request is not kept.
Upgrade_NoProject(c, p) ==
  /\ handler[c] = "none"
  /\ handler' = [handler EXCEPT ![c] = "authenticating"]
  /\ UNCHANGED <<closed, clients, published, writer, taken, conn, project, send, closes,
                 received, since>>

Upgrade(c, p) ==
  /\ handler[c] = "none"
  /\ handler' = [handler EXCEPT ![c] = "authenticating"]
  /\ project' = [project EXCEPT ![c] = p]
  /\ UNCHANGED <<closed, clients, published, writer, taken, conn, send, closes, received,
                 since>>

\* The first message is late, is no session's token, or the project is not the
\* user's: close code 1008.
Reject(c) ==
  /\ handler[c] = "authenticating"
  /\ handler' = [handler EXCEPT ![c] = "done"]
  /\ conn' = [conn EXCEPT ![c] = "rejected"]
  /\ UNCHANGED <<closed, clients, published, writer, taken, project, send, closes,
                 received, since>>

\* Session and project are in order: the ready message goes into the new channel.
Authenticate(c) ==
  /\ handler[c] = "authenticating"
  /\ handler' = [handler EXCEPT ![c] = "queueing"]
  /\ send' = [send EXCEPT ![c] = Append(@, Ready(project[c]))]
  /\ UNCHANGED <<closed, clients, published, writer, taken, conn, project, closes,
                 received, since>>

\* Mutant: a hub that is closed still registers.
Register_Closed(c) ==
  LET p == project[c]
  IN /\ handler[c] = "queueing"
     /\ handler' = [handler EXCEPT ![c] = "starting"]
     /\ clients' = [clients EXCEPT ![p] = @ \cup {c}]
     /\ since' = [since EXCEPT ![c] = published[p]]
     /\ UNCHANGED <<closed, published, writer, taken, conn, project, send, closes,
                    received>>

Register(c) ==
  LET p == project[c]
  IN /\ handler[c] = "queueing" /\ ~closed
     /\ handler' = [handler EXCEPT ![c] = "starting"]
     /\ clients' = [clients EXCEPT ![p] = @ \cup {c}]
     /\ since' = [since EXCEPT ![c] = published[p]]
     /\ UNCHANGED <<closed, published, writer, taken, conn, project, send, closes,
                    received>>

\* The writer is started and readMessages entered; the hub may have removed the
\* client and closed its channel by now.
StartWriter(c) ==
  /\ handler[c] = "starting"
  /\ handler' = [handler EXCEPT ![c] = "reading"]
  /\ writer' = [writer EXCEPT ![c] = "waiting"]
  /\ UNCHANGED <<closed, clients, published, taken, conn, project, send, closes,
                 received, since>>

\* "server shutting down", with close code 1008 too.
RegisterFails(c) ==
  /\ handler[c] = "queueing" /\ closed
  /\ handler' = [handler EXCEPT ![c] = "done"]
  /\ conn' = [conn EXCEPT ![c] = "rejected"]
  /\ UNCHANGED <<closed, clients, published, writer, taken, project, send, closes,
                 received, since>>

\* ReadMessage fails: the browser left, no pong came in time, or the connection
\* was closed by the writer or by Publish.  readMessages closes it and returns.
ReadFails(c) ==
  /\ handler[c] = "reading"
  /\ handler' = [handler EXCEPT ![c] = "returning"]
  /\ conn' = [conn EXCEPT ![c] = "closed"]
  /\ UNCHANGED <<closed, clients, published, writer, taken, project, send, closes,
                 received, since>>

\* The deferred unregister.
Unregister(c) ==
  /\ handler[c] = "returning"
  /\ handler' = [handler EXCEPT ![c] = "done"]
  /\ RemoveClients(project[c], {c})
  /\ UNCHANGED <<closed, published, writer, taken, conn, project, send, received, since>>

----------------------------------------------------------------------------
(* The writer goroutine of connection c.                                   *)

\* The select takes the next message; a closed channel still yields what it holds.
Take(c) ==
  /\ writer[c] = "waiting" /\ send[c] # <<>>
  /\ writer' = [writer EXCEPT ![c] = "writing"]
  /\ taken' = [taken EXCEPT ![c] = <<Head(send[c])>>]
  /\ send' = [send EXCEPT ![c] = Tail(@)]
  /\ UNCHANGED <<closed, clients, published, handler, conn, project, closes, received,
                 since>>

Write(c) ==
  /\ writer[c] = "writing" /\ conn[c] = "open"
  /\ writer' = [writer EXCEPT ![c] = "waiting"]
  /\ received' = [received EXCEPT ![c] = @ \o taken[c]]
  /\ taken' = [taken EXCEPT ![c] = <<>>]
  /\ UNCHANGED <<closed, clients, published, handler, conn, project, send, closes, since>>

\* The writer returns and its deferred Close closes the connection.
WriterReturns(c) ==
  /\ writer' = [writer EXCEPT ![c] = "done"]
  /\ taken' = [taken EXCEPT ![c] = <<>>]
  /\ conn' = [conn EXCEPT ![c] = "closed"]
  /\ UNCHANGED <<closed, clients, published, handler, project, send, closes, received,
                 since>>

\* Mutant: the writer stops without closing the connection.
WriteFails_LeaveOpen(c) ==
  /\ writer[c] = "writing"
  /\ writer' = [writer EXCEPT ![c] = "done"]
  /\ taken' = [taken EXCEPT ![c] = <<>>]
  /\ UNCHANGED <<closed, clients, published, handler, conn, project, send, closes,
                 received, since>>

\* The write misses its deadline, or the connection is closed.
WriteFails(c) == writer[c] = "writing" /\ WriterReturns(c)

PingFails(c) == writer[c] = "waiting" /\ WriterReturns(c)

\* Mutant: the close frame is sent and the connection left to the browser.
WriteClose_LeaveOpen(c) ==
  /\ writer[c] = "waiting" /\ send[c] = <<>> /\ closes[c] > 0
  /\ writer' = [writer EXCEPT ![c] = "done"]
  /\ UNCHANGED <<closed, clients, published, handler, taken, conn, project, send, closes,
                 received, since>>

\* The channel is closed and drained: a close frame, then the connection is closed.
WriteClose(c) ==
  writer[c] = "waiting" /\ send[c] = <<>> /\ closes[c] > 0 /\ WriterReturns(c)

----------------------------------------------------------------------------

Handler(c) ==
  \/ \E p \in Project : Upgrade(c, p)
  \/ Reject(c) \/ Authenticate(c) \/ Register(c) \/ RegisterFails(c)
  \/ StartWriter(c) \/ ReadFails(c) \/ Unregister(c)

Writer(c) == Take(c) \/ Write(c) \/ WriteFails(c) \/ PingFails(c) \/ WriteClose(c)

HubNext ==
  \/ Close
  \/ \E p \in Project : Publish(p)
  \/ \E c \in Client : Handler(c) \/ Writer(c)

HubSafety == HubInit /\ [][HubNext]_hubVars

\* Goroutines that can go on do: the deadlines of the first read and of every write
\* see to that.  A read of a closed connection fails, and the next ping on it; on an
\* open one they need not.  Nothing need be published and the hub need not close.
HubFairness ==
  \A c \in Client :
    /\ WF_hubVars(Reject(c) \/ Authenticate(c))
    /\ WF_hubVars(Register(c) \/ RegisterFails(c))
    /\ WF_hubVars(StartWriter(c))
    /\ WF_hubVars(conn[c] = "closed" /\ ReadFails(c))
    /\ WF_hubVars(Unregister(c))
    /\ WF_hubVars(Take(c) \/ WriteClose(c) \/ (conn[c] = "closed" /\ PingFails(c)))
    /\ WF_hubVars(Write(c) \/ WriteFails(c))

HubSpec == HubSafety /\ HubFairness

----------------------------------------------------------------------------
(* Properties.                                                             *)

\* No channel is closed twice, and no client the hub may still send to has a closed
\* one: neither panic can happen, whatever Publish, Close, and the two goroutines of
\* a connection do to each other.
NoPanic ==
  /\ \A c \in Client : closes[c] <= 1
  /\ \A p \in Project : \A c \in clients[p] : closes[c] = 0

\* The update numbers from one to another, after the ready message.
Run(p, from, to) == <<Ready(p)>> \o [i \in 1 .. to - from |-> Message(p, from + i)]

\* A browser reads "realtime.ready" and then the updates of its own project from its
\* registration on, each once, in order, without a gap: a slow browser loses its
\* connection, never an update in the middle.
ReceivedInOrder ==
  \A c \in Client : received[c] # <<>> =>
    IsPrefix(received[c], Run(project[c], since[c], published[project[c]]))

\* While a client is registered and its connection open, what it has not received is
\* in its channel or in its writer's hand, however the two goroutines and Publish meet.
NothingDropped ==
  \A p \in Project : \A c \in clients[p] :
    conn[c] = "open" =>
      received[c] \o taken[c] \o send[c] = Run(p, since[c], published[p])

\* A hub that was closed keeps no client: registering races with Close.
ClosedIsEmpty == closed => \A p \in Project : clients[p] = {}

\* A connection that is closed at either end is cleaned up: both goroutines end and
\* the hub forgets the client.
NoLeak ==
  \A c \in Client :
    conn[c] # "open" \/ closes[c] > 0 ~>
      /\ handler[c] = "done" /\ writer[c] \in {"none", "done"}
      /\ \A p \in Project : c \notin clients[p]

\* A published update reaches every client registered for its project, unless the
\* connection ends.
Delivered ==
  \A c \in Client : \A n \in 1 .. MaxUpdates :
    (\E p \in Project : c \in clients[p] /\ published[p] >= n /\ since[c] < n)
      ~> \/ conn[c] # "open"
         \/ \E i \in 1 .. Len(received[c]) : received[c][i].n = n

\* Once the hub is closed every connection ends, those being set up included.
ShutdownEndsConnections ==
  closed ~> \A c \in Client : handler[c] \in {"none", "done"} /\ writer[c] \in {"none", "done"}
=============================================================================
