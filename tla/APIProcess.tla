----------------------------- MODULE APIProcess -----------------------------
(***************************************************************************)
(* The API process (cmd/api/main.go) from its start to its exit: its main  *)
(* goroutine, the goroutine that forwards PostgreSQL's notifications to    *)
(* the hub (forwardIssueUpdates and internal/database/issue_updates.go),   *)
(* the hub and its connections (RealtimeHub), and, before all this, the    *)
(* opening of the database together with other processes (Migrations).    *)
(***************************************************************************)
EXTENDS Migrations, RealtimeHub

CONSTANTS
  Api,       \* this process, one of Process
  MaxLosses  \* bound: how often opening or waiting for the listener fails

ASSUME ApiAssumption == Api \in Process
ASSUME LossesAssumption == MaxLosses \in Nat

VARIABLES
  main,       \* where the main goroutine is
  signalled,  \* the process got a signal, or stop was called: ctx is done
  listener,   \* where forwardIssueUpdates is
  queue,      \* notifications the listener's connection has been sent
  heard,      \* heard: the notification Wait returned, if any
  losses,     \* how often the listener failed
  committed,  \* committed[p]: events of p that workers have committed (history)
  missed,     \* missed[p]: committed[p] when the listener began to listen (history)
  feed        \* feed[p]: the commits of p the hub has published (history)

ownVars == <<main, signalled, listener, queue, heard, losses, committed, missed, feed>>
apiVars == <<hubVars, migrationVars, ownVars>>

ApiInit ==
  /\ HubInit /\ MigrationInit
  /\ main = "opening" /\ signalled = FALSE
  /\ listener = "none" /\ queue = <<>> /\ heard = <<>> /\ losses = 0
  /\ committed = [p \in Project |-> 0]
  /\ missed = [p \in Project |-> 0]
  /\ feed = [p \in Project |-> <<>>]

Listening == listener \in {"waiting", "publishing"}

----------------------------------------------------------------------------
(* Outside: other processes.                                               *)

\* A worker commits an event of p: its pg_notify takes effect with the commit, and
\* reaches the connections that listen at that moment.
EventCommitted(p) ==
  /\ committed[p] < MaxUpdates
  /\ committed' = [committed EXCEPT ![p] = @ + 1]
  /\ queue' = IF Listening THEN Append(queue, Message(p, committed[p] + 1)) ELSE queue
  /\ UNCHANGED <<hubVars, migrationVars, main, signalled, listener, heard, losses,
                 missed, feed>>

\* SIGINT or SIGTERM; one that comes earlier makes Open fail (Cut).
Signal ==
  /\ main \notin {"opening", "exited"} /\ ~signalled
  /\ signalled' = TRUE
  /\ UNCHANGED <<hubVars, migrationVars, main, listener, queue, heard, losses, committed,
                 missed, feed>>

----------------------------------------------------------------------------
(* The goroutine forwardIssueUpdates.                                      *)

\* A connection of the pool, and LISTEN on it.
OpenListener ==
  /\ listener = "opening" /\ ~signalled /\ main # "closing pool"
  /\ listener' = "waiting"
  /\ missed' = committed
  /\ UNCHANGED <<hubVars, migrationVars, main, signalled, queue, heard, losses, committed,
                 feed>>

\* Where the loop goes after an error.
AfterError == IF signalled THEN "done" ELSE "delaying"

\* Database trouble, of which there is only so much.
OpenFails ==
  /\ listener = "opening" /\ losses < MaxLosses
  /\ losses' = losses + 1
  /\ listener' = AfterError
  /\ UNCHANGED <<hubVars, migrationVars, main, signalled, queue, heard, committed, missed,
                 feed>>

\* ctx is done, or the pool is closed: there is no connection.
OpenRefused ==
  /\ listener = "opening" /\ (signalled \/ main = "closing pool")
  /\ listener' = AfterError
  /\ UNCHANGED <<hubVars, migrationVars, main, signalled, queue, heard, losses, committed,
                 missed, feed>>

\* Mutant: what has queued up is taken for one signal.
Wait_Latest ==
  /\ listener = "waiting" /\ queue # <<>>
  /\ heard' = <<Last(queue)>>
  /\ queue' = <<>>
  /\ listener' = "publishing"
  /\ UNCHANGED <<hubVars, migrationVars, main, signalled, losses, committed, missed, feed>>

\* Mutant: a notification stays in the queue when it is returned.
Wait_Keeps ==
  /\ listener = "waiting" /\ queue # <<>>
  /\ heard' = <<Head(queue)>>
  /\ listener' = "publishing"
  /\ UNCHANGED <<hubVars, migrationVars, main, signalled, queue, losses, committed, missed,
                 feed>>

Wait ==
  /\ listener = "waiting" /\ queue # <<>>
  /\ heard' = <<Head(queue)>>
  /\ queue' = Tail(queue)
  /\ listener' = "publishing"
  /\ UNCHANGED <<hubVars, migrationVars, main, signalled, losses, committed, missed, feed>>

\* hub.Publish, which does nothing once the hub is closed.  The loop goes on waiting
\* unless ctx is done.
PublishUpdate ==
  /\ listener = "publishing"
  /\ listener' = IF signalled THEN "closing" ELSE "waiting"
  /\ heard' = <<>> /\ queue' = IF signalled THEN <<>> ELSE queue
  /\ \/ closed /\ UNCHANGED <<hubVars, feed>>
     \/ \E p \in Project :
          /\ heard[1].project = p
          /\ Publish(p)
          /\ feed' = [feed EXCEPT ![p] = Append(@, heard[1].n)]
  /\ UNCHANGED <<migrationVars, main, signalled, losses, committed, missed>>

\* The connection is lost, and with it what it would have received.
WaitFails ==
  /\ listener = "waiting" /\ losses < MaxLosses
  /\ losses' = losses + 1
  /\ listener' = "closing" /\ queue' = <<>>
  /\ UNCHANGED <<hubVars, migrationVars, main, signalled, heard, committed, missed, feed>>

\* Mutant: waiting does not end with ctx.
WaitCancelled_Never == FALSE /\ UNCHANGED apiVars

WaitCancelled ==
  /\ listener = "waiting" /\ signalled
  /\ listener' = "closing" /\ queue' = <<>>
  /\ UNCHANGED <<hubVars, migrationVars, main, signalled, heard, losses, committed, missed,
                 feed>>

\* Mutant: the listener returns when its connection is lost.
CloseListener_Returns ==
  /\ listener = "closing"
  /\ listener' = "done"
  /\ UNCHANGED <<hubVars, migrationVars, main, signalled, queue, heard, losses, committed,
                 missed, feed>>

\* UNLISTEN with a deadline of a second; the connection goes back to the pool.
CloseListener ==
  /\ listener = "closing"
  /\ listener' = AfterError
  /\ UNCHANGED <<hubVars, migrationVars, main, signalled, queue, heard, losses, committed,
                 missed, feed>>

\* The timer of a second, or ctx.
DelayOver ==
  /\ listener = "delaying"
  /\ listener' = IF signalled THEN "done" ELSE "opening"
  /\ UNCHANGED <<hubVars, migrationVars, main, signalled, queue, heard, losses, committed,
                 missed, feed>>

Listener ==
  \/ OpenListener \/ OpenFails \/ OpenRefused
  \/ Wait \/ PublishUpdate \/ WaitFails \/ WaitCancelled
  \/ CloseListener \/ DelayOver

----------------------------------------------------------------------------
(* The main goroutine.                                                     *)

\* The database is open: the listener and the server are started.
Serve ==
  /\ main = "opening" /\ opening[Api] = "ready"
  /\ main' = "serving" /\ listener' = "opening"
  /\ UNCHANGED <<hubVars, migrationVars, signalled, queue, heard, losses, committed,
                 missed, feed>>

\* hub.Close, which does nothing the second time.
CloseHub == Close \/ (closed /\ UNCHANGED hubVars)

\* ctx is done: stop and hub.Close, then server.Shutdown is called.
Stop ==
  /\ main = "serving" /\ signalled
  /\ main' = "shutting down" /\ CloseHub
  /\ UNCHANGED <<migrationVars, signalled, listener, queue, heard, losses, committed,
                 missed, feed>>

\* Shutdown returns within ten seconds, with the server closed one way or the other.
Shutdown ==
  /\ main = "shutting down"
  /\ main' = "returning"
  /\ UNCHANGED <<hubVars, migrationVars, signalled, listener, queue, heard, losses,
                 committed, missed, feed>>

\* ListenAndServe fails, and run returns: ctx is not done.
ServeFails ==
  /\ main = "serving"
  /\ main' = "returning"
  /\ UNCHANGED <<hubVars, migrationVars, signalled, listener, queue, heard, losses,
                 committed, missed, feed>>

\* The deferred calls, the last one first: hub.Close, then pool.Close is called.
CloseHubAgain ==
  /\ main = "returning"
  /\ main' = "closing pool" /\ CloseHub
  /\ UNCHANGED <<migrationVars, signalled, listener, queue, heard, losses, committed,
                 missed, feed>>

\* The listener's connection is one of the pool.
HoldsConnection == listener \in {"waiting", "publishing", "closing"}

\* pool.Close waits until all connections are returned; then stop, and the process is
\* gone, its connections with it.
Exit ==
  /\ main = "closing pool" /\ ~HoldsConnection
  /\ main' = "exited" /\ signalled' = TRUE
  /\ listener' = "done" /\ queue' = <<>> /\ heard' = <<>>
  /\ UNCHANGED <<hubVars, migrationVars, losses, committed, missed, feed>>

Main == Serve \/ Stop \/ Shutdown \/ ServeFails \/ CloseHubAgain \/ Exit

----------------------------------------------------------------------------

\* A step of the processes that open the database, of which this is one.
Opening ==
  /\ \E p \in Process : Open(p)
  /\ UNCHANGED <<hubVars, ownVars>>

\* The goroutines of a connection run until the process exits.
Running == main \notin {"opening", "exited"}

InProcess(Step) == Running /\ Step /\ UNCHANGED <<migrationVars, ownVars>>

ApiNext ==
  \/ Opening
  \/ \E p \in Project : EventCommitted(p)
  \/ Signal \/ Listener \/ Main
  \/ \E c \in Client : InProcess(Handler(c)) \/ InProcess(Writer(c))

ApiSafety == ApiInit /\ [][ApiNext]_apiVars

\* Calls with a deadline return, timers run out, and a database that fails only so
\* often lets the listener in.  Nothing need be committed, signalled, or go wrong.
ApiFairness ==
  /\ WF_apiVars(OpenListener) /\ WF_apiVars(OpenRefused)
  /\ WF_apiVars(Wait) /\ WF_apiVars(PublishUpdate) /\ WF_apiVars(WaitCancelled)
  /\ WF_apiVars(CloseListener) /\ WF_apiVars(DelayOver)
  /\ WF_apiVars(Serve) /\ WF_apiVars(Stop) /\ WF_apiVars(Shutdown)
  /\ WF_apiVars(CloseHubAgain) /\ WF_apiVars(Exit)

\* As HubFairness in RealtimeHub, while the process runs.
ConnectionFairness ==
  \A c \in Client :
    /\ WF_apiVars(InProcess(Reject(c) \/ Authenticate(c)))
    /\ WF_apiVars(InProcess(Register(c) \/ RegisterFails(c)))
    /\ WF_apiVars(InProcess(StartWriter(c)))
    /\ WF_apiVars(InProcess(conn[c] = "closed" /\ ReadFails(c)))
    /\ WF_apiVars(InProcess(Unregister(c)))
    /\ WF_apiVars(InProcess(Take(c) \/ WriteClose(c) \/ (conn[c] = "closed" /\ PingFails(c))))
    /\ WF_apiVars(InProcess(Write(c) \/ WriteFails(c)))

ApiSpec == ApiSafety /\ ApiFairness /\ ConnectionFairness

----------------------------------------------------------------------------
(* Properties.                                                             *)

\* What was sent to the listener and is not published yet, first what it has in hand.
Handed == heard \o queue

\* The commits of p among it.
Underway(p) == {m.n : m \in {m \in Range(Handed) : m.project = p}}

\* While the listener listens, every event committed since it began to has been
\* published, in order and once, or is on its way to the hub: what is lost is lost
\* only while nobody listens.
HeardInFull ==
  Listening /\ ~closed =>
    \A p \in Project :
      /\ {n \in Range(feed[p]) : n > missed[p]} \cup Underway(p)
           = missed[p] + 1 .. committed[p]
      /\ \A i, j \in 1 .. Len(feed[p]) : i < j => feed[p][i] < feed[p][j]
      /\ \A m \in Range(feed[p]), n \in Underway(p) : m < n
      /\ \A i, j \in 1 .. Len(Handed) :
           i < j /\ Handed[i].project = p /\ Handed[j].project = p =>
             Handed[i].n < Handed[j].n

\* The events c was told of: the first message is "realtime.ready".
Told(c) ==
  LET updates == SubSeq(received[c], 2, Len(received[c]))
  IN [i \in 1 .. Len(updates) |-> feed[project[c]][updates[i].n]]

Feed == INSTANCE UpdateFeed WITH
  Browser <- Client, Subject <- Project, Nothing <- None,
  happened <- committed, watches <- project, told <- [c \in Client |-> Told(c)]

\* From a worker's commit through NOTIFY, listener, hub, channel and socket a browser
\* is told of committed events of its project only, each at most once and in order,
\* whatever is lost, closed or started again in between.
ImplementsFeed == Feed!Spec

\* A commit that the listener hears of reaches every browser registered for its project,
\* unless the browser's connection ends, or the listener's, or the process stops.
HeardReachesBrowser ==
  \A c \in Client : \A p \in Project : \A n \in 1 .. MaxUpdates :
    (n \in Underway(p) /\ c \in clients[p])
      ~> \/ \E i \in 1 .. Len(Told(c)) : Told(c)[i] = n
         \/ conn[c] # "open" \/ ~Listening \/ closed

\* A listener that has lost its connection, or could not get one, listens again, unless
\* the process is stopping.
ListensAgain ==
  listener \in {"opening", "closing", "delaying"}
    ~> listener = "waiting" \/ signalled \/ closed

\* A signal ends the process, wherever main, the listener and the connections are.
SignalEndsProcess == signalled ~> main = "exited"
=============================================================================
