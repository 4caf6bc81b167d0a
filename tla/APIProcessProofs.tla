-------------------------- MODULE APIProcessProofs --------------------------
(***************************************************************************)
(* Proofs about the whole API process, for any number of connections,      *)
(* projects, processes and migration files.                                *)
(*                                                                         *)
(* The process does nothing to the hub, or to the database it opens, that  *)
(* RealtimeHub and Migrations do not allow: what is proved of them holds   *)
(* here.  With that it implements UpdateFeed: notifications are queued in  *)
(* the order of their commits and later than all that was published        *)
(* (FeedInv), and a browser's stream is in line with what was published.   *)
(***************************************************************************)
EXTENDS APIProcess, RealtimeHubProofs, MigrationsProofs

\* A step of the process is a step of its hub, or none of the hub's business.
LEMMA StepOfHub == ApiNext => HubNext \/ UNCHANGED hubVars
<1>. SUFFICES ASSUME ApiNext PROVE HubNext \/ UNCHANGED hubVars
  OBVIOUS
<1>1. CASE Opening
  BY <1>1 DEF Opening
<1>2. ASSUME NEW p \in Project, EventCommitted(p) PROVE UNCHANGED hubVars
  BY <1>2 DEF EventCommitted
<1>3. CASE Signal
  BY <1>3 DEF Signal
<1>4. CASE Listener
  <2>1. CASE PublishUpdate
    BY <2>1 DEF PublishUpdate, HubNext
  <2>. QED
    BY <1>4, <2>1 DEF Listener, OpenListener, OpenFails, OpenRefused, Wait, WaitFails,
                      WaitCancelled, CloseListener, DelayOver
<1>5. CASE Main
  BY <1>5 DEF Main, Serve, Stop, Shutdown, ServeFails, CloseHubAgain, Exit, CloseHub, HubNext
<1>6. ASSUME NEW c \in Client, InProcess(Handler(c)) \/ InProcess(Writer(c)) PROVE HubNext
  BY <1>6 DEF InProcess, HubNext
<1>. QED BY <1>1, <1>2, <1>3, <1>4, <1>5, <1>6 DEF ApiNext

LEMMA StepOfMigrations == ApiNext => MigrationNext \/ UNCHANGED migrationVars
<1>. SUFFICES ASSUME ApiNext PROVE MigrationNext \/ UNCHANGED migrationVars
  OBVIOUS
<1>1. CASE Opening
  BY <1>1 DEF Opening, MigrationNext
<1>2. ASSUME NEW p \in Project, EventCommitted(p) PROVE UNCHANGED migrationVars
  BY <1>2 DEF EventCommitted
<1>3. CASE Signal
  BY <1>3 DEF Signal
<1>4. CASE Listener
  BY <1>4 DEF Listener, PublishUpdate, OpenListener, OpenFails, OpenRefused, Wait, WaitFails,
              WaitCancelled, CloseListener, DelayOver
<1>5. CASE Main
  BY <1>5 DEF Main, Serve, Stop, Shutdown, ServeFails, CloseHubAgain, Exit
<1>6. ASSUME NEW c \in Client, InProcess(Handler(c)) \/ InProcess(Writer(c))
      PROVE  UNCHANGED migrationVars
  BY <1>6 DEF InProcess
<1>. QED BY <1>1, <1>2, <1>3, <1>4, <1>5, <1>6 DEF ApiNext

\* The hub inside the process behaves as RealtimeHub says: all that is proved of it
\* there holds while migrations, the listener, main and signals go on around it.
THEOREM HubInside == ApiSafety => HubSafety
<1>1. ApiInit => HubInit
  BY DEF ApiInit
<1>2. [ApiNext]_apiVars => [HubNext]_hubVars
  BY StepOfHub DEF apiVars
<1>. QED BY <1>1, <1>2, PTL DEF ApiSafety, HubSafety

\* So does the database: other processes open it at the same time, and the API's own
\* later steps leave it alone.
THEOREM MigrationsInside == ApiSafety => MigrationSpec
<1>1. ApiInit => MigrationInit
  BY DEF ApiInit
<1>2. [ApiNext]_apiVars => [MigrationNext]_migrationVars
  BY StepOfMigrations DEF apiVars
<1>. QED BY <1>1, <1>2, PTL DEF ApiSafety, MigrationSpec

\* The API serves, and its listener listens, only when the schema is complete.
ServesMigrated == main # "opening" => Len(schema) = Files

\* run returns before the server and the listener are started when Open fails.
THEOREM ServesOnlyMigrated == ApiSafety => []ServesMigrated
<1>. DEFINE Served == main # "opening" => opening[Api] = "ready"
<1>1. ApiInit => Served
  BY DEF ApiInit
<1>2. MigrationInv /\ Served /\ [ApiNext]_apiVars => Served'
  <2>. SUFFICES ASSUME MigrationInv, Served, [ApiNext]_apiVars PROVE Served'
    OBVIOUS
  <2>1. CASE Opening
    <3>1. main' = main
      BY <2>1 DEF Opening, ownVars
    <3>2. opening[Api] = "ready" => opening'[Api] = "ready"
      BY <2>1, ApiAssumption
         DEF Opening, Open, BeginMigrations, Migrate, LockMigrations, SkipFile, ApplyFile,
             RecordFile, CommitMigrations, Cut, MigrationInv, MigrationTypeOK
    <3>. QED BY <3>1, <3>2
  <2>2. CASE main' = main /\ UNCHANGED migrationVars
    BY <2>2 DEF migrationVars
  <2>3. CASE Main
    BY <2>3 DEF Main, Serve, Stop, Shutdown, ServeFails, CloseHubAgain, Exit, migrationVars
  <2>4. Opening \/ Main \/ (main' = main /\ UNCHANGED migrationVars)
    BY DEF apiVars, ownVars, ApiNext, EventCommitted, Signal, InProcess, Listener,
           PublishUpdate, OpenListener, OpenFails, OpenRefused, Wait, WaitFails,
           WaitCancelled, CloseListener, DelayOver
  <2>. QED BY <2>1, <2>2, <2>3, <2>4
<1>3. MigrationInv /\ Served => ServesMigrated
  BY ApiAssumption DEF MigrationInv, MigratedInOrder, ServesMigrated
<1>. QED
  BY <1>1, <1>2, <1>3, MigrationsInside, MigrationInvariance, PTL DEF ApiSafety
----------------------------------------------------------------------------
(* What the hub is given.                                                  *)

\* Commit n of p is later than every commit of p that was published.
Later(p, n) == \A i \in 1 .. Len(feed[p]) : feed[p][i] < n

FeedTypes ==
  /\ committed \in [Project -> Nat] /\ published \in [Project -> Nat]
  /\ feed \in [Project -> Seq(Nat)]
  /\ queue \in Seq(Messages) /\ heard \in Seq(Messages)

\* The published updates of a project are commits of it, in order.
FeedInOrder ==
  \A p \in Project :
    /\ Len(feed[p]) = published[p]
    /\ \A i \in 1 .. Len(feed[p]) : feed[p][i] \in 1 .. committed[p]
    /\ \A i, j \in 1 .. Len(feed[p]) : i < j => feed[p][i] < feed[p][j]

\* So are those in the listener's queue, which come later.
QueueInOrder ==
  /\ \A i \in 1 .. Len(queue) :
       /\ queue[i].n \in 1 .. committed[queue[i].project]
       /\ Later(queue[i].project, queue[i].n)
  /\ \A i, j \in 1 .. Len(queue) :
       i < j /\ queue[i].project = queue[j].project => queue[i].n < queue[j].n
  /\ ~Listening => queue = <<>>

\* And the one the listener has in hand comes in between.
HeardInOrder ==
  /\ listener # "publishing" => heard = <<>>
  /\ listener = "publishing" =>
       /\ Len(heard) = 1
       /\ heard[1].n \in 1 .. committed[heard[1].project]
       /\ Later(heard[1].project, heard[1].n)
       /\ \A i \in 1 .. Len(queue) :
            queue[i].project = heard[1].project => heard[1].n < queue[i].n

FeedInv == FeedTypes /\ FeedInOrder /\ QueueInOrder /\ HeardInOrder

\* The listener is started when the database is open.
StartedLate == main = "opening" => listener = "none"

LEMMA FeedInvInit == ApiInit => FeedInv
<1>. SUFFICES ASSUME ApiInit PROVE FeedInv
  OBVIOUS
<1>1. FeedTypes
  BY DEF ApiInit, HubInit, FeedTypes, Messages
<1>. QED
  BY <1>1 DEF ApiInit, HubInit, FeedInv, FeedInOrder, QueueInOrder, HeardInOrder

\* A notification is queued behind the others.
LEMMA CommittedStep ==
  ASSUME FeedInv, NEW p \in Project, EventCommitted(p)
  PROVE  FeedInv'
<1>. DEFINE m == Message(p, committed[p] + 1)
<1>1. FeedTypes /\ FeedInOrder /\ QueueInOrder /\ HeardInOrder
  BY DEF FeedInv
<1>2. /\ m \in Messages /\ m.project = p /\ m.n = committed[p] + 1
      /\ committed[p] \in Nat
  BY <1>1 DEF FeedTypes, Message, Messages
<1>3. /\ UNCHANGED <<published, feed, listener, heard>>
      /\ committed' = [committed EXCEPT ![p] = @ + 1]
      /\ queue' = IF Listening THEN Append(queue, m) ELSE queue
  BY DEF EventCommitted, hubVars
<1>. HIDE DEF m
<1>4. queue \in Seq(Messages) /\ queue' \in Seq(Messages)
  BY <1>1, <1>2, <1>3, AppendProperties DEF FeedTypes
<1>5. FeedTypes'
  BY <1>1, <1>3, <1>4 DEF FeedTypes
<1>6. \A q \in Project : committed[q] \in Nat /\ committed'[q] \in Nat
                         /\ committed[q] <= committed'[q]
  BY <1>1, <1>3 DEF FeedTypes
<1>7. FeedInOrder'
  BY <1>1, <1>3, <1>6 DEF FeedInOrder, FeedTypes
<1>8. \A q, n : Later(q, n)' = Later(q, n)
  BY <1>3 DEF Later
<1>9. Later(p, m.n) /\ m.n \in 1 .. committed'[p]
  <2>1. \A i \in 1 .. Len(feed[p]) : feed[p][i] \in 1 .. committed[p]
    BY <1>1 DEF FeedInOrder
  <2>. QED BY <1>1, <1>2, <1>3, <2>1 DEF Later, FeedTypes
<1>10. \A i \in 1 .. Len(queue) :
         /\ queue[i].project \in Project
         /\ queue[i].n \in 1 .. committed[queue[i].project]
         /\ queue[i].n \in 1 .. committed'[queue[i].project]
         /\ Later(queue[i].project, queue[i].n)
         /\ queue[i].project = p => queue[i].n < m.n
  <2>1. \A i \in 1 .. Len(queue) : queue[i] \in Messages
    BY <1>4
  <2>2. \A i \in 1 .. Len(queue) : queue[i].project \in Project
    BY <2>1 DEF Messages
  <2>. QED BY <1>1, <1>2, <1>6, <2>2 DEF QueueInOrder
<1>11. CASE Listening
  <2>1. /\ Len(queue') = Len(queue) + 1 /\ Len(queue) \in Nat
        /\ \A i \in 1 .. Len(queue) : queue'[i] = queue[i]
        /\ queue'[Len(queue) + 1] = m
    BY <1>2, <1>3, <1>4, <1>11, AppendProperties
  <2>2. QueueInOrder'
    <3>1. ASSUME NEW i \in 1 .. Len(queue')
          PROVE  /\ queue'[i].n \in 1 .. committed'[queue'[i].project]
                 /\ (Later(queue[i].project, queue[i].n))'
      <4>1. CASE i \in 1 .. Len(queue)
        BY <1>8, <1>10, <2>1, <4>1
      <4>2. CASE i = Len(queue) + 1
        BY <1>2, <1>8, <1>9, <2>1, <4>2
      <4>. QED BY <2>1, <4>1, <4>2
    <3>2. ASSUME NEW i \in 1 .. Len(queue'), NEW j \in 1 .. Len(queue'), i < j,
                 queue'[i].project = queue'[j].project
          PROVE  queue'[i].n < queue'[j].n
      <4>1. i \in 1 .. Len(queue)
        BY <2>1, <3>2
      <4>2. CASE j \in 1 .. Len(queue)
        BY <1>1, <2>1, <3>2, <4>1, <4>2 DEF QueueInOrder
      <4>3. CASE j = Len(queue) + 1
        BY <1>2, <1>10, <2>1, <3>2, <4>1, <4>3
      <4>. QED BY <2>1, <4>2, <4>3
    <3>3. Listening'
      BY <1>3, <1>11 DEF Listening
    <3>. QED BY <3>1, <3>2, <3>3 DEF QueueInOrder
  <2>3. HeardInOrder'
    <3>. SUFFICES ASSUME listener = "publishing"
                  PROVE  /\ heard[1].n \in 1 .. committed'[heard[1].project]
                         /\ \A i \in 1 .. Len(queue') :
                              queue'[i].project = heard[1].project => heard[1].n < queue'[i].n
      BY <1>1, <1>3, <1>8 DEF HeardInOrder
    <3>1. heard[1] \in Messages /\ heard[1].n \in 1 .. committed[heard[1].project]
      <4>1. heard \in Seq(Messages) /\ Len(heard) = 1
        BY <1>1 DEF HeardInOrder, FeedTypes
      <4>2. heard[1] \in Messages
        BY <4>1
      <4>. QED BY <1>1, <4>2 DEF HeardInOrder
    <3>2. heard[1].project \in Project /\ heard[1].n \in Nat
      BY <3>1 DEF Messages
    <3>3. heard[1].n \in 1 .. committed'[heard[1].project]
      BY <1>6, <3>1, <3>2
    <3>4. heard[1].project = p => heard[1].n < m.n
      BY <1>2, <3>1, <3>2
    <3>5. \A i \in 1 .. Len(queue) :
            queue[i].project = heard[1].project => heard[1].n < queue[i].n
      BY <1>1 DEF HeardInOrder
    <3>. QED BY <1>2, <2>1, <3>3, <3>4, <3>5
  <2>. QED BY <1>5, <1>7, <2>2, <2>3 DEF FeedInv
<1>12. CASE ~Listening
  <2>1. queue = <<>> /\ queue' = <<>> /\ listener # "publishing" /\ ~Listening'
    BY <1>1, <1>3, <1>12 DEF QueueInOrder, Listening
  <2>. QED BY <1>1, <1>3, <1>5, <1>7, <2>1 DEF FeedInv, QueueInOrder, HeardInOrder
<1>. QED BY <1>11, <1>12

\* The head of the queue is taken into the hand.
LEMMA WaitStep == FeedInv /\ Wait => FeedInv'
<1>. SUFFICES ASSUME FeedInv, Wait PROVE FeedInv'
  OBVIOUS
<1>1. FeedTypes /\ FeedInOrder /\ QueueInOrder
  BY DEF FeedInv
<1>2. /\ UNCHANGED <<committed, published, feed>>
      /\ queue # <<>> /\ listener' = "publishing"
      /\ heard' = <<Head(queue)>> /\ queue' = Tail(queue)
  BY DEF Wait, hubVars
<1>3. queue \in Seq(Messages)
  BY <1>1 DEF FeedTypes
<1>. HIDE DEF Messages
<1>4. /\ Head(queue) = queue[1] /\ queue[1] \in Messages /\ Len(queue) \in Nat
      /\ Len(queue) >= 1
      /\ Tail(queue) \in Seq(Messages) /\ Len(Tail(queue)) = Len(queue) - 1
      /\ \A i \in 1 .. Len(queue) - 1 : Tail(queue)[i] = queue[i + 1]
  BY <1>2, <1>3
<1>5. heard' \in Seq(Messages) /\ Len(heard') = 1 /\ heard'[1] = queue[1]
  BY <1>2, <1>4
<1>6. FeedTypes'
  BY <1>1, <1>2, <1>4, <1>5 DEF FeedTypes
<1>7. FeedInOrder' /\ \A q, n : Later(q, n)' = Later(q, n)
  BY <1>1, <1>2 DEF FeedInOrder, Later
<1>8. \A i \in 1 .. Len(queue') : i + 1 \in 1 .. Len(queue) /\ queue'[i] = queue[i + 1]
  BY <1>2, <1>4
<1>9. QueueInOrder'
  BY <1>1, <1>2, <1>4, <1>7, <1>8 DEF QueueInOrder, Listening
<1>10. HeardInOrder'
  BY <1>1, <1>2, <1>4, <1>5, <1>7, <1>8 DEF QueueInOrder, HeardInOrder
<1>. QED BY <1>6, <1>7, <1>9, <1>10 DEF FeedInv

\* The hub publishes what the listener has in hand, which is later than all it published.
LEMMA PublishUpdateStep == FeedInv /\ PublishUpdate => FeedInv'
<1>. SUFFICES ASSUME FeedInv, PublishUpdate PROVE FeedInv'
  OBVIOUS
<1>1. FeedTypes /\ FeedInOrder /\ QueueInOrder /\ HeardInOrder
  BY DEF FeedInv
<1>2. /\ listener = "publishing" /\ listener' # "publishing" /\ heard' = <<>>
      /\ UNCHANGED committed
      /\ queue' = <<>> \/ (queue' = queue /\ Listening')
  BY DEF PublishUpdate, Listening
<1>3. HeardInOrder' /\ heard' \in Seq(Messages)
  BY <1>2 DEF HeardInOrder
<1>4. CASE UNCHANGED <<published, feed>>
  <2>1. FeedTypes' /\ FeedInOrder'
    BY <1>1, <1>2, <1>3, <1>4 DEF FeedTypes, FeedInOrder
  <2>2. QueueInOrder'
    BY <1>1, <1>2, <1>4 DEF QueueInOrder, Later
  <2>. QED BY <1>3, <2>1, <2>2 DEF FeedInv
<1>5. ASSUME NEW p \in Project, heard[1].project = p, Publish(p),
             feed' = [feed EXCEPT ![p] = Append(@, heard[1].n)]
      PROVE  FeedInv'
  <2>. DEFINE n == heard[1].n
  <2>1. /\ Len(heard) = 1 /\ n \in 1 .. committed[p] /\ Later(p, n)
        /\ \A i \in 1 .. Len(queue) : queue[i].project = p => n < queue[i].n
    BY <1>1, <1>2, <1>5 DEF HeardInOrder
  <2>2. /\ published' = [published EXCEPT ![p] = @ + 1]
        /\ published[p] \in Nat /\ committed[p] \in Nat /\ feed[p] \in Seq(Nat)
        /\ Len(feed[p]) = published[p]
    BY <1>1, <1>5 DEF Publish, FeedTypes, FeedInOrder
  <2>. HIDE DEF n
  <2>3. n \in Nat /\ feed'[p] = Append(feed[p], n)
    BY <1>1, <1>5, <2>1, <2>2 DEF FeedTypes, n
  <2>4. /\ feed'[p] \in Seq(Nat) /\ Len(feed'[p]) = Len(feed[p]) + 1
        /\ \A i \in 1 .. Len(feed[p]) : feed'[p][i] = feed[p][i]
        /\ feed'[p][Len(feed[p]) + 1] = n
    BY <2>2, <2>3, AppendProperties
  <2>5. \A q \in Project : q # p => feed'[q] = feed[q] /\ published'[q] = published[q]
    BY <1>1, <1>5, <2>2 DEF FeedTypes
  <2>6. published'[p] = published[p] + 1
    BY <1>1, <2>2 DEF FeedTypes
  <2>7. FeedTypes'
    <3>1. feed' \in [Project -> Seq(Nat)]
      BY <1>1, <1>5, <2>3, <2>4 DEF FeedTypes, n
    <3>2. published' \in [Project -> Nat]
      BY <1>1, <2>2 DEF FeedTypes
    <3>. QED BY <1>1, <1>2, <1>3, <3>1, <3>2 DEF FeedTypes
  <2>8. ASSUME NEW i \in 1 .. Len(feed'[p]) PROVE feed'[p][i] \in 1 .. committed[p]
    <3>1. CASE i \in 1 .. Len(feed[p])
      BY <1>1, <2>4, <3>1 DEF FeedInOrder
    <3>2. CASE i = Len(feed[p]) + 1
      BY <2>1, <2>4, <3>2
    <3>. QED BY <2>2, <2>4, <3>1, <3>2
  <2>9. ASSUME NEW i \in 1 .. Len(feed'[p]), NEW j \in 1 .. Len(feed'[p]), i < j
        PROVE  feed'[p][i] < feed'[p][j]
    <3>1. i \in 1 .. Len(feed[p])
      BY <2>2, <2>4, <2>9
    <3>2. CASE j \in 1 .. Len(feed[p])
      BY <1>1, <2>4, <2>9, <3>1, <3>2 DEF FeedInOrder
    <3>3. CASE j = Len(feed[p]) + 1
      BY <2>1, <2>4, <3>1, <3>3 DEF Later
    <3>. QED BY <2>2, <2>4, <3>2, <3>3
  <2>10. FeedInOrder'
    BY <1>1, <1>2, <2>2, <2>4, <2>5, <2>6, <2>8, <2>9 DEF FeedInOrder
  <2>11. ASSUME queue' = queue, NEW i \in 1 .. Len(queue)
         PROVE  (Later(queue[i].project, queue[i].n))'
    <3>1. queue[i] \in Messages
      BY <1>1 DEF FeedTypes
    <3>2. queue[i].project \in Project /\ queue[i].n \in Nat
      BY <3>1 DEF Messages
    <3>3. Later(queue[i].project, queue[i].n)
      BY <1>1 DEF QueueInOrder
    <3>4. CASE queue[i].project = p
      <4>1. \A k \in 1 .. Len(feed'[p]) : feed'[p][k] < queue[i].n
        <5>. SUFFICES ASSUME NEW k \in 1 .. Len(feed'[p])
                      PROVE  feed'[p][k] < queue[i].n
          OBVIOUS
        <5>1. CASE k \in 1 .. Len(feed[p])
          BY <2>4, <3>3, <3>4, <5>1 DEF Later
        <5>2. CASE k = Len(feed[p]) + 1
          BY <2>1, <2>4, <3>4, <5>2
        <5>. QED BY <2>2, <2>4, <5>1, <5>2
      <4>. QED BY <2>11, <3>4, <4>1 DEF Later
    <3>5. CASE queue[i].project # p
      BY <2>11, <2>5, <3>2, <3>3, <3>5 DEF Later
    <3>. QED BY <3>4, <3>5
  <2>12. QueueInOrder'
    BY <1>1, <1>2, <2>11 DEF QueueInOrder
  <2>. QED BY <1>3, <2>7, <2>10, <2>12 DEF FeedInv
<1>. QED BY <1>4, <1>5 DEF PublishUpdate, hubVars

\* What is on its way stays as it is, or is lost with the listener's connection.
LEMMA QuietStep ==
  ASSUME FeedInv, UNCHANGED <<committed, published, feed>>,
         \/ UNCHANGED <<listener, queue, heard>>
         \/ /\ listener' # "publishing" /\ heard' = <<>>
            /\ queue' = <<>>
  PROVE  FeedInv'
<1>1. FeedTypes /\ FeedInOrder /\ QueueInOrder /\ HeardInOrder
  BY DEF FeedInv
<1>2. FeedInOrder' /\ FeedTypes'
  <2>1. queue' \in Seq(Messages) /\ heard' \in Seq(Messages)
    <3>1. queue \in Seq(Messages) /\ heard \in Seq(Messages) /\ <<>> \in Seq(Messages)
      BY <1>1 DEF FeedTypes
    <3>2. (queue' = queue /\ heard' = heard) \/ (queue' = <<>> /\ heard' = <<>>)
      OBVIOUS
    <3>. QED BY <3>1, <3>2, Zenon
  <2>2. FeedTypes'
    BY <1>1, <2>1 DEF FeedTypes
  <2>3. FeedInOrder'
    BY <1>1 DEF FeedInOrder
  <2>. QED BY <2>2, <2>3
<1>3. CASE UNCHANGED <<listener, queue, heard>>
  BY <1>1, <1>2, <1>3 DEF FeedInv, QueueInOrder, HeardInOrder, Later, Listening
<1>4. CASE listener' # "publishing" /\ heard' = <<>> /\ queue' = <<>>
  BY <1>2, <1>4 DEF FeedInv, QueueInOrder, HeardInOrder
<1>. QED BY <1>3, <1>4

LEMMA StartedLateStep == StartedLate /\ [ApiNext]_apiVars => StartedLate'
<1>. SUFFICES ASSUME StartedLate, [ApiNext]_apiVars PROVE StartedLate'
  OBVIOUS
<1>1. CASE Listener
  <2>1. main' = main /\ listener # "none"
    BY <1>1 DEF Listener, OpenListener, OpenFails, OpenRefused, Wait, PublishUpdate,
                WaitFails, WaitCancelled, CloseListener, DelayOver
  <2>. QED BY <2>1 DEF StartedLate
<1>2. CASE Main
  BY <1>2 DEF Main, Serve, Stop, Shutdown, ServeFails, CloseHubAgain, Exit, StartedLate
<1>3. CASE ~Listener /\ ~Main
  BY <1>3 DEF apiVars, ownVars, ApiNext, Opening, EventCommitted, Signal, InProcess,
              StartedLate
<1>. QED BY <1>1, <1>2, <1>3

LEMMA FeedInvStep == StartedLate /\ FeedInv /\ [ApiNext]_apiVars => FeedInv'
<1>. SUFFICES ASSUME StartedLate, FeedInv, [ApiNext]_apiVars PROVE FeedInv'
  OBVIOUS
<1>1. (listener # "publishing" => heard = <<>>) /\ (~Listening => queue = <<>>)
  BY DEF FeedInv, HeardInOrder, QueueInOrder
<1>2. CASE Opening
  BY <1>2, QuietStep DEF Opening, hubVars, ownVars
<1>3. CASE Signal
  BY <1>3, QuietStep DEF Signal, hubVars
<1>4. CASE OpenListener \/ OpenFails \/ OpenRefused \/ CloseListener \/ DelayOver
  BY <1>1, <1>4, QuietStep
     DEF OpenListener, OpenFails, OpenRefused, CloseListener, DelayOver, AfterError,
         Listening, hubVars
<1>5. CASE WaitFails \/ WaitCancelled
  BY <1>1, <1>5, QuietStep DEF WaitFails, WaitCancelled, hubVars
<1>6. CASE Serve
  BY <1>1, <1>6, QuietStep DEF Serve, StartedLate, Listening, hubVars
<1>7. CASE Stop \/ Shutdown \/ ServeFails \/ CloseHubAgain \/ Exit
  BY <1>7, QuietStep
     DEF Stop, Shutdown, ServeFails, CloseHubAgain, Exit, CloseHub, Close, hubVars
<1>8. ASSUME NEW c \in Client, InProcess(Handler(c)) \/ InProcess(Writer(c)) PROVE FeedInv'
  <2>1. published' = published
    BY <1>8 DEF InProcess, Handler, Writer, Upgrade, Reject, Authenticate, Register,
                RegisterFails, StartWriter, ReadFails, Unregister, Take, Write, WriteFails,
                PingFails, WriteClose, WriterReturns
  <2>. QED BY <1>8, <2>1, QuietStep DEF InProcess, ownVars
<1>9. CASE UNCHANGED apiVars
  BY <1>9, QuietStep DEF apiVars, hubVars, ownVars
<1>. QED
  BY <1>2, <1>3, <1>4, <1>5, <1>6, <1>7, <1>8, <1>9, CommittedStep, WaitStep,
     PublishUpdateStep
     DEF ApiNext, Listener, Main

\* Whatever the listener loses, what it gives the hub is in the order of the commits.
THEOREM FeedInvariance == ApiSafety => [](StartedLate /\ FeedInv)
<1>1. ApiInit => StartedLate
  BY DEF ApiInit, StartedLate
<1>. QED BY <1>1, FeedInvInit, StartedLateStep, FeedInvStep, PTL DEF ApiSafety

----------------------------------------------------------------------------
(* What the listener hears.                                                *)

\* Commit n of p was published, or is in the listener's hand, or in its queue.
Known(p, n) ==
  \/ \E i \in 1 .. Len(feed[p]) : feed[p][i] = n
  \/ \E i \in 1 .. Len(heard) : heard[i] = Message(p, n)
  \/ \E i \in 1 .. Len(queue) : queue[i] = Message(p, n)

\* All that comes to the listener was committed after it began to listen.
HandedLate ==
  /\ \A i \in 1 .. Len(heard) : heard[i].n > missed[heard[i].project]
  /\ \A i \in 1 .. Len(queue) : queue[i].n > missed[queue[i].project]

\* And every such commit does come: the inductive half of HeardInFull.
FullInv ==
  /\ missed \in [Project -> Nat]
  /\ \A p \in Project : missed[p] <= committed[p]
  /\ Listening => HandedLate
  /\ Listening /\ ~closed =>
       \A p \in Project : \A n \in missed[p] + 1 .. committed[p] : Known(p, n)

LEMMA FullInvInit == ApiInit => FullInv
BY DEF ApiInit, FullInv, Listening

LEMMA HandedTypes ==
  ASSUME FeedInv
  PROVE  /\ heard \in Seq(Messages) /\ queue \in Seq(Messages)
         /\ Len(heard) \in Nat /\ Len(queue) \in Nat
         /\ \A i \in 1 .. Len(heard) : heard[i] \in Messages
         /\ \A i \in 1 .. Len(queue) : queue[i] \in Messages
         /\ \A p \in Project : /\ committed[p] \in Nat
                               /\ feed[p] \in Seq(Nat) /\ Len(feed[p]) \in Nat
         /\ \A m \in Messages : m.project \in Project /\ m.n \in Nat
         /\ \A m \in Messages : m = Message(m.project, m.n)
<1>1. heard \in Seq(Messages) /\ queue \in Seq(Messages)
      /\ committed \in [Project -> Nat] /\ feed \in [Project -> Seq(Nat)]
  BY DEF FeedInv, FeedTypes
<1>2. \A m \in Messages : m.project \in Project /\ m.n \in Nat /\ m = Message(m.project, m.n)
  BY DEF Messages, Message
<1>3. \A p \in Project : feed[p] \in Seq(Nat)
  BY <1>1
<1>. QED BY <1>1, <1>2, <1>3, LenProperties, ElementOfSeq

\* A commit while the listener listens is queued, and is later than what it missed.
LEMMA CommittedFull ==
  ASSUME FeedInv, FullInv, NEW p \in Project, EventCommitted(p)
  PROVE  FullInv'
<1>. DEFINE m == Message(p, committed[p] + 1)
<1>1. /\ UNCHANGED <<closed, feed, listener, heard, missed>>
      /\ committed' = [committed EXCEPT ![p] = @ + 1]
      /\ queue' = IF Listening THEN Append(queue, m) ELSE queue
      /\ committed \in [Project -> Nat]
  BY DEF EventCommitted, hubVars, FeedInv, FeedTypes
<1>2. m \in Messages /\ m.project = p /\ m.n = committed[p] + 1 /\ committed[p] \in Nat
  BY <1>1 DEF Message, Messages
<1>. HIDE DEF m
<1>3. /\ missed \in [Project -> Nat]
      /\ \A q \in Project : missed[q] <= committed[q]
  BY DEF FullInv
<1>4. ASSUME NEW q \in Project PROVE missed'[q] <= committed'[q]
  <2>1. missed[q] \in Nat /\ committed[q] \in Nat /\ missed[q] <= committed[q]
    BY <1>1, <1>3
  <2>2. committed'[q] = IF q = p THEN committed[q] + 1 ELSE committed[q]
    BY <1>1
  <2>. QED BY <1>1, <2>1, <2>2
<1>5. CASE ~Listening
  BY <1>1, <1>3, <1>4, <1>5 DEF FullInv, Listening
<1>6. CASE Listening
  <2>1. /\ Len(queue') = Len(queue) + 1 /\ Len(queue) \in Nat
        /\ \A i \in 1 .. Len(queue) : queue'[i] = queue[i]
        /\ queue'[Len(queue) + 1] = m
    BY <1>1, <1>2, <1>6, HandedTypes, AppendProperties
  <2>2. HandedLate'
    <3>1. m.n > missed[m.project]
      BY <1>2, <1>3
    <3>2. HandedLate
      BY <1>6 DEF FullInv
    <3>3. ASSUME NEW i \in 1 .. Len(queue') PROVE queue'[i].n > missed[queue'[i].project]
      <4>1. CASE i \in 1 .. Len(queue)
        BY <2>1, <3>2, <4>1 DEF HandedLate
      <4>2. CASE i = Len(queue) + 1
        BY <2>1, <3>1, <4>2
      <4>. QED BY <2>1, <4>1, <4>2
    <3>. QED BY <1>1, <3>2, <3>3 DEF HandedLate
  <2>3. ASSUME ~closed, NEW q \in Project, NEW n \in missed[q] + 1 .. committed'[q]
        PROVE  Known(q, n)'
    <3>1. CASE n \in missed[q] + 1 .. committed[q]
      <4>1. Known(q, n)
        BY <1>6, <2>3, <3>1 DEF FullInv
      <4>2. \A i \in 1 .. Len(queue) : i \in 1 .. Len(queue')
        BY <2>1
      <4>. QED BY <1>1, <2>1, <4>1, <4>2 DEF Known
    <3>2. CASE n \notin missed[q] + 1 .. committed[q]
      <4>1. q = p /\ n = committed[p] + 1
        BY <1>1, <1>2, <1>3, <2>3, <3>2
      <4>2. Len(queue) + 1 \in 1 .. Len(queue')
        BY <2>1
      <4>. QED BY <2>1, <4>1, <4>2 DEF Known, m
    <3>. QED BY <3>1, <3>2
  <2>. QED BY <1>1, <1>3, <1>4, <1>6, <2>2, <2>3 DEF FullInv, Listening
<1>. QED BY <1>5, <1>6

\* What Wait takes off the queue is in hand.
LEMMA WaitFull == FeedInv /\ FullInv /\ Wait => FullInv'
<1>. SUFFICES ASSUME FeedInv, FullInv, Wait PROVE FullInv'
  OBVIOUS
<1>1. /\ UNCHANGED <<closed, committed, missed, feed>>
      /\ listener = "waiting" /\ queue # <<>> /\ listener' = "publishing"
      /\ heard' = <<Head(queue)>> /\ queue' = Tail(queue)
      /\ heard = <<>>
  BY DEF Wait, hubVars, FeedInv, HeardInOrder
<1>2. /\ Head(queue) = queue[1] /\ Len(queue) \in Nat /\ Len(queue) >= 1
      /\ Len(Tail(queue)) = Len(queue) - 1
      /\ \A i \in 1 .. Len(queue) - 1 : Tail(queue)[i] = queue[i + 1]
  <2>1. queue \in Seq(Messages)
    BY HandedTypes
  <2>. HIDE DEF Messages
  <2>. QED BY <1>1, <2>1
<1>3. Len(heard') = 1 /\ heard'[1] = queue[1] /\ Len(heard) = 0
  BY <1>1, <1>2
<1>4. \A i \in 1 .. Len(queue') : i + 1 \in 1 .. Len(queue) /\ queue'[i] = queue[i + 1]
  BY <1>1, <1>2
<1>5. Listening /\ Listening'
  BY <1>1 DEF Listening
<1>6. HandedLate'
  <2>1. HandedLate
    BY <1>5 DEF FullInv
  <2>2. 1 \in 1 .. Len(queue)
    BY <1>2
  <2>. QED BY <1>1, <1>3, <1>4, <2>1, <2>2 DEF HandedLate
<1>7. ASSUME NEW p \in Project, NEW n, Known(p, n) PROVE Known(p, n)'
  <2>1. CASE \E i \in 1 .. Len(feed[p]) : feed[p][i] = n
    BY <1>1, <2>1 DEF Known
  <2>2. ASSUME NEW i \in 1 .. Len(queue), queue[i] = Message(p, n) PROVE Known(p, n)'
    <3>1. CASE i = 1
      <4>1. 1 \in 1 .. Len(heard') /\ heard'[1] = Message(p, n)
        BY <1>3, <2>2, <3>1
      <4>. QED BY <4>1 DEF Known
    <3>2. CASE i # 1
      <4>1. i - 1 \in 1 .. Len(queue') /\ queue'[i - 1] = queue[i]
        BY <1>1, <1>2, <3>2
      <4>. QED BY <2>2, <4>1 DEF Known
    <3>. QED BY <3>1, <3>2
  <2>. QED BY <1>3, <1>7, <2>1, <2>2 DEF Known
<1>. QED BY <1>1, <1>5, <1>6, <1>7 DEF FullInv

\* What is in hand is published, unless the hub is closed or the listener stops.
LEMMA PublishFull == FeedInv /\ FullInv /\ PublishUpdate => FullInv'
<1>. SUFFICES ASSUME FeedInv, FullInv, PublishUpdate PROVE FullInv'
  OBVIOUS
<1>1. /\ UNCHANGED <<committed, missed>> /\ heard' = <<>> /\ listener = "publishing"
      /\ Listening
  BY DEF PublishUpdate, Listening
<1>2. missed' \in [Project -> Nat] /\ \A p \in Project : missed'[p] <= committed'[p]
  BY <1>1 DEF FullInv
<1>3. CASE ~Listening'
  BY <1>2, <1>3 DEF FullInv
<1>4. CASE Listening'
  <2>1. queue' = queue /\ Len(heard') = 0
    BY <1>1, <1>4 DEF PublishUpdate, Listening
  <2>2. HandedLate'
    BY <1>1, <2>1 DEF FullInv, HandedLate
  <2>3. CASE closed /\ UNCHANGED hubVars
    BY <1>2, <2>2, <2>3 DEF FullInv, hubVars
  <2>4. ASSUME NEW p \in Project, heard[1].project = p, Publish(p),
               feed' = [feed EXCEPT ![p] = Append(@, heard[1].n)]
        PROVE  FullInv'
    <3>1. ~closed /\ Len(heard) = 1 /\ 1 \in 1 .. Len(heard)
      <4>1. ~closed
        BY <2>4 DEF Publish
      <4>2. Len(heard) = 1
        BY <1>1 DEF FeedInv, HeardInOrder
      <4>. QED BY <4>1, <4>2
    <3>2. /\ heard[1] \in Messages /\ heard[1].n \in Nat /\ feed[p] \in Seq(Nat)
          /\ Len(feed[p]) \in Nat
      BY <3>1, HandedTypes
    <3>3. feed'[p] = Append(feed[p], heard[1].n)
          /\ \A q \in Project : q # p => feed'[q] = feed[q]
      BY <2>4 DEF FeedInv, FeedTypes
    <3>4. /\ Len(feed'[p]) = Len(feed[p]) + 1
          /\ \A i \in 1 .. Len(feed[p]) : feed'[p][i] = feed[p][i]
          /\ feed'[p][Len(feed[p]) + 1] = heard[1].n
      BY <3>2, <3>3, AppendProperties
    <3>5. ASSUME NEW q \in Project, NEW n, Known(q, n) PROVE Known(q, n)'
      <4>1. ASSUME NEW i \in 1 .. Len(feed[q]), feed[q][i] = n PROVE Known(q, n)'
        <5>1. i \in 1 .. Len(feed'[q]) /\ feed'[q][i] = n
          <6>1. CASE q = p
            BY <3>2, <3>4, <4>1, <6>1
          <6>2. CASE q # p
            BY <3>3, <4>1, <6>2
          <6>. QED BY <6>1, <6>2
        <5>. QED BY <5>1 DEF Known
      <4>2. ASSUME NEW i \in 1 .. Len(heard), heard[i] = Message(q, n) PROVE Known(q, n)'
        <5>1. heard[1] = Message(q, n)
          BY <3>1, <4>2
        <5>2. q = p /\ heard[1].n = n
          BY <2>4, <5>1 DEF Message
        <5>3. Len(feed[p]) + 1 \in 1 .. Len(feed'[p])
          BY <3>2, <3>4
        <5>. QED BY <3>4, <5>2, <5>3 DEF Known
      <4>3. CASE \E i \in 1 .. Len(queue) : queue[i] = Message(q, n)
        BY <2>1, <4>3 DEF Known
      <4>. QED BY <3>5, <4>1, <4>2, <4>3 DEF Known
    <3>6. \A q \in Project : \A n \in missed[q] + 1 .. committed[q] : Known(q, n)
      BY <1>1, <3>1 DEF FullInv
    <3>. QED BY <1>1, <1>2, <2>2, <3>5, <3>6 DEF FullInv
  <2>. QED BY <2>3, <2>4 DEF PublishUpdate
<1>. QED BY <1>3, <1>4

\* A listener that begins to listen has missed all that was committed before.
LEMMA OpenFull == FeedInv /\ OpenListener => FullInv'
<1>. SUFFICES ASSUME FeedInv, OpenListener PROVE FullInv'
  OBVIOUS
<1>1. /\ missed' = committed /\ UNCHANGED <<committed, queue, heard>>
      /\ queue = <<>> /\ heard = <<>> /\ committed \in [Project -> Nat]
  BY DEF OpenListener, FeedInv, FeedTypes, QueueInOrder, HeardInOrder, Listening
<1>2. Len(queue') = 0 /\ Len(heard') = 0
  BY <1>1
<1>3. HandedLate'
  BY <1>2 DEF HandedLate
<1>4. /\ \A p \in Project : missed'[p] <= committed'[p]
      /\ \A p \in Project : \A n \in missed'[p] + 1 .. committed'[p] : FALSE
  BY <1>1
<1>. QED BY <1>1, <1>3, <1>4 DEF FullInv

\* Other steps leave what is heard alone, or the listener does not listen after them.
LEMMA QuietFull ==
  ASSUME FullInv, UNCHANGED <<committed, missed, feed>>,
         ~Listening' \/ (UNCHANGED <<listener, queue, heard>> /\ (closed => closed'))
  PROVE  FullInv'
BY DEF FullInv, HandedLate, Known, Listening

LEMMA FullInvStep == StartedLate /\ FeedInv /\ FullInv /\ [ApiNext]_apiVars => FullInv'
<1>. SUFFICES ASSUME StartedLate, FeedInv, FullInv, [ApiNext]_apiVars PROVE FullInv'
  OBVIOUS
<1>1. CASE Opening
  BY <1>1, QuietFull DEF Opening, hubVars, ownVars
<1>2. CASE Signal
  BY <1>2, QuietFull DEF Signal, hubVars
<1>3. CASE OpenFails \/ OpenRefused \/ CloseListener \/ DelayOver \/ WaitFails \/ WaitCancelled
  BY <1>3, QuietFull
     DEF OpenFails, OpenRefused, CloseListener, DelayOver, WaitFails, WaitCancelled,
         AfterError, Listening
<1>4. CASE Serve \/ Exit
  BY <1>4, QuietFull DEF Serve, Exit, Listening
<1>5. CASE Stop \/ Shutdown \/ ServeFails \/ CloseHubAgain
  <2>1. closed => closed'
    BY <1>5 DEF Stop, Shutdown, ServeFails, CloseHubAgain, CloseHub, Close, hubVars
  <2>2. UNCHANGED <<committed, missed, feed, listener, queue, heard>>
    BY <1>5 DEF Stop, Shutdown, ServeFails, CloseHubAgain
  <2>. QED BY <2>1, <2>2, QuietFull
<1>6. ASSUME NEW c \in Client, InProcess(Handler(c)) \/ InProcess(Writer(c)) PROVE FullInv'
  <2>1. closed' = closed
    BY <1>6 DEF InProcess, Handler, Writer, Upgrade, Reject, Authenticate, Register,
                RegisterFails, StartWriter, ReadFails, Unregister, Take, Write, WriteFails,
                PingFails, WriteClose, WriterReturns
  <2>. QED BY <1>6, <2>1, QuietFull DEF InProcess, ownVars
<1>7. CASE UNCHANGED apiVars
  BY <1>7, QuietFull DEF apiVars, hubVars, ownVars
<1>. QED
  BY <1>1, <1>2, <1>3, <1>4, <1>5, <1>6, <1>7, CommittedFull, WaitFull, PublishFull, OpenFull
     DEF ApiNext, Listener, Main

\* What is handed to the listener is what it has in hand and what is queued behind it.
LEMMA HandedIs ==
  ASSUME FeedInv
  PROVE  /\ Len(Handed) = Len(heard) + Len(queue)
         /\ \A i \in 1 .. Len(Handed) :
              \/ i \in 1 .. Len(heard) /\ Handed[i] = heard[i]
              \/ i - Len(heard) \in 1 .. Len(queue) /\ Handed[i] = queue[i - Len(heard)]
         /\ \A m : m \in Range(Handed) <=>
              \/ \E i \in 1 .. Len(heard) : heard[i] = m
              \/ \E i \in 1 .. Len(queue) : queue[i] = m
<1>1. /\ heard \in Seq(Messages) /\ queue \in Seq(Messages)
      /\ Len(heard) \in Nat /\ Len(queue) \in Nat
  BY HandedTypes
<1>2. /\ Handed \in Seq(Messages) /\ Len(Handed) = Len(heard) + Len(queue)
      /\ \A i \in 1 .. Len(heard) + Len(queue) :
           Handed[i] = IF i <= Len(heard) THEN heard[i] ELSE queue[i - Len(heard)]
  BY <1>1, ConcatProperties DEF Handed
<1>3. DOMAIN Handed = 1 .. Len(Handed)
  BY <1>2, LenProperties
<1>4. \A i \in 1 .. Len(Handed) :
        \/ i \in 1 .. Len(heard) /\ Handed[i] = heard[i]
        \/ i - Len(heard) \in 1 .. Len(queue) /\ Handed[i] = queue[i - Len(heard)]
  BY <1>1, <1>2
<1>5. \A i \in 1 .. Len(heard) : i \in 1 .. Len(Handed) /\ Handed[i] = heard[i]
  BY <1>1, <1>2
<1>6. \A i \in 1 .. Len(queue) :
        Len(heard) + i \in 1 .. Len(Handed) /\ Handed[Len(heard) + i] = queue[i]
  <2>. SUFFICES ASSUME NEW i \in 1 .. Len(queue)
                PROVE  /\ Len(heard) + i \in 1 .. Len(Handed)
                       /\ Handed[Len(heard) + i] = queue[i]
    OBVIOUS
  <2>. DEFINE k == Len(heard) + i
  <2>1. k \in 1 .. Len(heard) + Len(queue) /\ ~(k <= Len(heard)) /\ k - Len(heard) = i
    BY <1>1
  <2>. HIDE DEF k
  <2>2. Handed[k] = queue[i] /\ k \in 1 .. Len(Handed)
    BY <1>2, <2>1
  <2>. QED BY <2>2 DEF k
<1>7. \A m : m \in Range(Handed) <=> \E i \in 1 .. Len(Handed) : Handed[i] = m
  BY <1>3 DEF Range
<1>8. \A m : m \in Range(Handed) => \/ \E i \in 1 .. Len(heard) : heard[i] = m
                                    \/ \E i \in 1 .. Len(queue) : queue[i] = m
  BY <1>4, <1>7
<1>9. \A m : (\E i \in 1 .. Len(heard) : heard[i] = m) => m \in Range(Handed)
  BY <1>5, <1>7
<1>10. \A m : (\E i \in 1 .. Len(queue) : queue[i] = m) => m \in Range(Handed)
  BY <1>6, <1>7
<1>. QED BY <1>2, <1>4, <1>8, <1>9, <1>10

\* A commit on its way is later than all that was published, and than what was missed.
LEMMA UnderwayLater ==
  ASSUME FeedInv, FullInv, Listening, NEW p \in Project, NEW n \in Underway(p)
  PROVE  n \in missed[p] + 1 .. committed[p] /\ Later(p, n)
<1>1. PICK m \in Range(Handed) : m.project = p /\ m.n = n
  BY DEF Underway
<1>2. missed[p] \in Nat /\ committed[p] \in Nat /\ HandedLate
  BY HandedTypes DEF FullInv
<1>3. ASSUME NEW i \in 1 .. Len(heard), heard[i] = m
      PROVE  n \in missed[p] + 1 .. committed[p] /\ Later(p, n)
  <2>1. listener = "publishing"
    <3>1. heard # <<>>
      BY <1>3
    <3>. QED BY <3>1 DEF FeedInv, HeardInOrder
  <2>2. i = 1 /\ heard[1].n \in 1 .. committed[p] /\ Later(p, n)
    BY <1>1, <1>3, <2>1 DEF FeedInv, HeardInOrder
  <2>3. n > missed[p]
    BY <1>1, <1>2, <1>3 DEF HandedLate
  <2>. QED BY <1>1, <1>2, <1>3, <2>2, <2>3
<1>4. ASSUME NEW i \in 1 .. Len(queue), queue[i] = m
      PROVE  n \in missed[p] + 1 .. committed[p] /\ Later(p, n)
  <2>1. n \in 1 .. committed[p] /\ Later(p, n)
    BY <1>1, <1>4 DEF FeedInv, QueueInOrder
  <2>2. n > missed[p]
    BY <1>1, <1>2, <1>4 DEF HandedLate
  <2>. QED BY <1>2, <2>1, <2>2
<1>. QED BY <1>1, <1>3, <1>4, HandedIs

\* What is handed to the listener is in the order of the commits.
LEMMA HandedInOrder ==
  ASSUME FeedInv, NEW p \in Project,
         NEW i \in 1 .. Len(Handed), NEW j \in 1 .. Len(Handed), i < j,
         Handed[i].project = p, Handed[j].project = p
  PROVE  Handed[i].n < Handed[j].n
<1>1. Len(heard) \in Nat /\ Len(queue) \in Nat /\ (Len(heard) = 0 \/ Len(heard) = 1)
  <2>1. heard = <<>> \/ Len(heard) = 1
    BY DEF FeedInv, HeardInOrder
  <2>2. heard = <<>> => Len(heard) = 0
    OBVIOUS
  <2>. QED BY <2>1, <2>2, HandedTypes
<1>2. /\ \/ i \in 1 .. Len(heard) /\ Handed[i] = heard[i]
         \/ i - Len(heard) \in 1 .. Len(queue) /\ Handed[i] = queue[i - Len(heard)]
      /\ \/ j \in 1 .. Len(heard) /\ Handed[j] = heard[j]
         \/ j - Len(heard) \in 1 .. Len(queue) /\ Handed[j] = queue[j - Len(heard)]
      /\ Len(Handed) = Len(heard) + Len(queue)
  BY HandedIs
<1>3. j - Len(heard) \in 1 .. Len(queue) /\ Handed[j] = queue[j - Len(heard)]
  BY <1>1, <1>2
<1>4. CASE i \in 1 .. Len(heard) /\ Handed[i] = heard[i]
  <2>1. i = 1 /\ heard # <<>>
    BY <1>1, <1>4
  <2>2. listener = "publishing"
    BY <2>1 DEF FeedInv, HeardInOrder
  <2>. QED BY <1>3, <1>4, <2>1, <2>2 DEF FeedInv, HeardInOrder
<1>5. CASE i - Len(heard) \in 1 .. Len(queue) /\ Handed[i] = queue[i - Len(heard)]
  <2>. DEFINE a == i - Len(heard)
              b == j - Len(heard)
  <2>1. a \in 1 .. Len(queue) /\ b \in 1 .. Len(queue) /\ a < b
    BY <1>1, <1>3, <1>5
  <2>2. queue[a].project = queue[b].project /\ Handed[i] = queue[a] /\ Handed[j] = queue[b]
    BY <1>3, <1>5
  <2>. HIDE DEF a, b
  <2>. QED BY <2>1, <2>2 DEF FeedInv, QueueInOrder
<1>. QED BY <1>2, <1>4, <1>5

\* While the listener listens, every commit since it began to has been published, once
\* and in order, or is on its way to the hub.
THEOREM ListenerHearsAll == ApiSafety => []HeardInFull
<1>1. FeedInv /\ FullInv => HeardInFull
  <2>. SUFFICES ASSUME FeedInv, FullInv, Listening, ~closed, NEW p \in Project
                PROVE  /\ {n \in Range(feed[p]) : n > missed[p]} \cup Underway(p)
                            = missed[p] + 1 .. committed[p]
                       /\ \A i, j \in 1 .. Len(feed[p]) : i < j => feed[p][i] < feed[p][j]
                       /\ \A m \in Range(feed[p]), n \in Underway(p) : m < n
                       /\ \A i, j \in 1 .. Len(Handed) :
                            i < j /\ Handed[i].project = p /\ Handed[j].project = p =>
                              Handed[i].n < Handed[j].n
    BY DEF HeardInFull
  <2>1. /\ missed[p] \in Nat /\ committed[p] \in Nat
        /\ feed[p] \in Seq(Nat) /\ DOMAIN feed[p] = 1 .. Len(feed[p])
    BY HandedTypes, LenProperties DEF FullInv
  <2>2. \A n : n \in Range(feed[p]) <=> \E i \in 1 .. Len(feed[p]) : feed[p][i] = n
    BY <2>1 DEF Range
  <2>3. ASSUME NEW n \in Range(feed[p]), n > missed[p]
        PROVE  n \in missed[p] + 1 .. committed[p]
    <3>1. n \in 1 .. committed[p]
      BY <2>2 DEF FeedInv, FeedInOrder
    <3>. QED BY <2>1, <2>3, <3>1
  <2>4. ASSUME NEW n \in missed[p] + 1 .. committed[p]
        PROVE  n \in Range(feed[p]) \/ n \in Underway(p)
    <3>1. Known(p, n)
      BY DEF FullInv
    <3>2. Message(p, n).project = p /\ Message(p, n).n = n
      BY DEF Message
    <3>3. ASSUME Message(p, n) \in Range(Handed) PROVE n \in Underway(p)
      BY <3>2, <3>3 DEF Underway
    <3>. QED BY <2>2, <3>1, <3>3, HandedIs DEF Known
  <2>5. \A n \in Underway(p) : n \in missed[p] + 1 .. committed[p] /\ Later(p, n)
    BY UnderwayLater
  <2>6. {n \in Range(feed[p]) : n > missed[p]} \cup Underway(p) = missed[p] + 1 .. committed[p]
    <3>1. \A n \in missed[p] + 1 .. committed[p] : n > missed[p]
      BY <2>1
    <3>. QED BY <2>3, <2>4, <2>5, <3>1
  <2>7. \A i, j \in 1 .. Len(feed[p]) : i < j => feed[p][i] < feed[p][j]
    BY DEF FeedInv, FeedInOrder
  <2>8. \A m \in Range(feed[p]), n \in Underway(p) : m < n
    BY <2>2, <2>5 DEF Later
  <2>. QED BY <2>6, <2>7, <2>8, HandedInOrder
<1>. QED BY <1>1, FullInvInit, FullInvStep, FeedInvariance, PTL DEF ApiSafety

----------------------------------------------------------------------------
(* What a browser is told.                                                 *)

\* The updates among the messages r, the first of which is "realtime.ready".
Updates(r) == IF r = <<>> THEN 0 ELSE Len(r) - 1

\* Messages that are in line tell of the updates published from one number on.
LEMMA ToldOf ==
  ASSUME NEW r \in Seq(Messages), NEW p, NEW from \in Nat, NEW f, InLine(r, p, from)
  PROVE  /\ Updates(r) \in Nat
         /\ LET updates == SubSeq(r, 2, Len(r))
            IN [i \in 1 .. Len(updates) |-> f[updates[i].n]]
                 = [i \in 1 .. Updates(r) |-> f[from + i]]
<1>. DEFINE updates == SubSeq(r, 2, Len(r))
<1>1. Len(r) \in Nat /\ (r = <<>> <=> Len(r) = 0)
  BY EmptySeq, LenProperties
<1>2. Updates(r) \in Nat /\ Len(updates) = Updates(r)
  BY <1>1 DEF Updates
<1>3. ASSUME NEW i \in 1 .. Updates(r) PROVE updates[i].n = from + i
  <2>1. i + 1 \in 1 .. Len(r) /\ i + 1 # 1 /\ from + (i + 1) - 1 = from + i
    BY <1>1 DEF Updates
  <2>2. updates[i] = r[i + 1]
    BY <1>1, <1>2, <2>1
  <2>3. r[i + 1] = Message(p, from + i)
    BY <2>1 DEF InLine
  <2>4. Message(p, from + i).n = from + i
    BY DEF Message
  <2>. HIDE DEF updates
  <2>. QED BY <2>2, <2>3, <2>4
<1>. HIDE DEF updates
<1>4. [i \in 1 .. Len(updates) |-> f[updates[i].n]] = [i \in 1 .. Updates(r) |-> f[from + i]]
  BY <1>2, <1>3
<1>. QED BY <1>2, <1>4 DEF updates

Fed == HubInv /\ StreamInv /\ FeedInv

\* Of every connection the browser was told of what was published since it registered.
ToldSince ==
  \A c \in Client :
    /\ Updates(received[c]) \in Nat
    /\ Told(c) = [i \in 1 .. Updates(received[c]) |-> feed[project[c]][since[c] + i]]

LEMMA ToldIs == Fed => ToldSince
<1>. SUFFICES ASSUME Fed, NEW c \in Client
              PROVE  /\ Updates(received[c]) \in Nat
                     /\ Told(c) = [i \in 1 .. Updates(received[c]) |->
                                     feed[project[c]][since[c] + i]]
  BY DEF ToldSince
<1>1. StreamTypes /\ Stages(c) /\ Streaming(c)
  BY DEF Fed, StreamInv
<1>2. received[c] \in Seq(Messages) /\ since[c] \in Nat
  BY <1>1 DEF StreamTypes
<1>3. InLine(received[c], project[c], since[c])
  <2>1. CASE received[c] = <<>>
    BY <2>1 DEF InLine
  <2>2. CASE received[c] # <<>>
    BY <1>1, <2>2 DEF Stages, Streaming
  <2>. QED BY <2>1, <2>2
<1>. HIDE DEF Messages
<1>. QED BY <1>2, <1>3, ToldOf DEF Told

\* What it was told of was published.
WithinFeed ==
  \A c \in Client : received[c] # <<>> =>
    /\ project[c] \in Project /\ since[c] \in Nat
    /\ Updates(received[c]) = Len(received[c]) - 1
    /\ since[c] + Updates(received[c]) <= Len(feed[project[c]])

LEMMA ToldPublished == Fed => WithinFeed
<1>. SUFFICES ASSUME Fed, NEW c \in Client, received[c] # <<>>
              PROVE  /\ project[c] \in Project /\ since[c] \in Nat
                     /\ Updates(received[c]) = Len(received[c]) - 1
                     /\ since[c] + Updates(received[c]) <= Len(feed[project[c]])
  BY DEF WithinFeed
<1>1. StreamTypes /\ Stages(c) /\ Streaming(c)
  BY DEF Fed, StreamInv
<1>2. handler[c] \notin {"none", "authenticating", "queueing"}
  BY <1>1 DEF Stages
<1>3. project[c] \in Project /\ since[c] \in Nat /\ published[project[c]] \in Nat
      /\ Len(received[c]) \in Nat
  BY <1>1, <1>2 DEF Fed, HubInv, HubCounts, StreamTypes
<1>4. since[c] + Len(received[c]) - 1 <= published[project[c]]
  BY <1>1, <1>2 DEF Streaming
<1>5. Len(feed[project[c]]) = published[project[c]]
  BY <1>3 DEF Fed, FeedInv, FeedInOrder
<1>. QED BY <1>3, <1>4, <1>5 DEF Updates

\* Both in the next state.
LEMMA ToldNext == Fed' => ToldSince' /\ WithinFeed'
BY ToldIs, ToldPublished, PTL

\* What a connection was told of stays, unless its writer writes.
LEMMA ToldKept ==
  ASSUME Fed, Fed', NEW c \in Client, received'[c] = received[c],
         received[c] # <<>> =>
           /\ project'[c] = project[c] /\ since'[c] = since[c]
           /\ \A i \in 1 .. Len(feed[project[c]]) :
                feed'[project[c]][i] = feed[project[c]][i]
  PROVE  Told(c)' = Told(c)
<1>1. /\ Updates(received[c]) \in Nat
      /\ Told(c) = [i \in 1 .. Updates(received[c]) |-> feed[project[c]][since[c] + i]]
  BY ToldIs DEF ToldSince
<1>2. Told(c)' = [i \in 1 .. Updates(received[c]) |-> feed'[project'[c]][since'[c] + i]]
  BY ToldNext DEF ToldSince, Updates
<1>3. CASE received[c] = <<>>
  <2>1. Updates(received[c]) = 0
    BY <1>3 DEF Updates
  <2>. QED BY <1>1, <1>2, <2>1
<1>4. CASE received[c] # <<>>
  <2>1. /\ since[c] \in Nat
        /\ since[c] + Updates(received[c]) <= Len(feed[project[c]])
        /\ Len(feed[project[c]]) \in Nat
    BY <1>4, ToldPublished DEF WithinFeed, Fed, FeedInv, FeedTypes
  <2>2. \A i \in 1 .. Updates(received[c]) :
          feed'[project'[c]][since'[c] + i] = feed[project[c]][since[c] + i]
    <3>1. \A i \in 1 .. Updates(received[c]) : since[c] + i \in 1 .. Len(feed[project[c]])
      BY <1>1, <2>1
    <3>. QED BY <1>4, <3>1
  <2>. QED BY <1>1, <1>2, <2>2
<1>. QED BY <1>3, <1>4

\* A function on 1 .. m is a sequence of length m.
LEMMA SeqFromFunction ==
  ASSUME NEW m \in Nat, NEW f \in [1 .. m -> Nat]
  PROVE  f \in Seq(Nat) /\ Len(f) = m
OBVIOUS

\* A message written tells of the next update, or is the first.
LEMMA WriteTells ==
  ASSUME Fed, Fed', NEW c \in Client, Write(c), UNCHANGED feed
  PROVE  /\ \A d \in Client \ {c} : Told(d)' = Told(d)
         /\ \/ Told(c)' = Told(c)
            \/ \E n \in 1 .. committed[project[c]] :
                 /\ project[c] \in Project
                 /\ \A i \in 1 .. Len(Told(c)) : Told(c)[i] < n
                 /\ Told(c)' = Append(Told(c), n)
<1>1. /\ UNCHANGED <<project, since>>
      /\ received' = [received EXCEPT ![c] = @ \o taken[c]]
      /\ writer[c] = "writing"
  BY DEF Write
<1>2. /\ received \in [Client -> Seq(Messages)] /\ taken[c] \in Seq(Messages)
      /\ Len(taken[c]) = 1
  BY <1>1 DEF Fed, StreamInv, StreamTypes, Stages
<1>3. \A d \in Client \ {c} : Told(d)' = Told(d)
  <2>. SUFFICES ASSUME NEW d \in Client \ {c} PROVE Told(d)' = Told(d)
    OBVIOUS
  <2>1. received'[d] = received[d]
    BY <1>1, <1>2
  <2>. QED BY <1>1, <2>1, ToldKept
<1>. DEFINE r == received[c]
            s == received'[c]
            p == project[c]
            k == Updates(r)
<1>4. /\ Len(s) = Len(r) + 1 /\ Len(r) \in Nat
  <2>1. r \in Seq(Messages) /\ s = r \o taken[c]
    BY <1>1, <1>2
  <2>. HIDE DEF r, s, Messages
  <2>2. Len(s) = Len(r) + Len(taken[c]) /\ Len(r) \in Nat
    BY <1>2, <2>1, ConcatProperties, LenProperties
  <2>. QED BY <1>2, <2>2
<1>5. s # <<>> /\ Updates(s) = Len(r)
  <2>. HIDE DEF r, s
  <2>1. s # <<>>
    BY <1>4, EmptySeq
  <2>. QED BY <1>4, <2>1 DEF Updates
<1>6. /\ k \in Nat
      /\ Told(c) = [i \in 1 .. k |-> feed[p][since[c] + i]]
  BY ToldIs DEF ToldSince
<1>7. Told(c)' = [i \in 1 .. Len(r) |-> feed[p][since[c] + i]]
  <2>1. Told(c)' = [i \in 1 .. Updates(s) |-> feed'[project'[c]][since'[c] + i]]
    BY ToldNext DEF ToldSince, Updates
  <2>. QED BY <1>1, <1>5, <2>1
<1>8. CASE r = <<>>
  <2>1. k = 0 /\ Len(r) = 0
    BY <1>8, EmptySeq DEF Updates
  <2>. QED BY <1>3, <1>6, <1>7, <2>1
<1>9. CASE r # <<>>
  <2>2. /\ p \in Project /\ since[c] \in Nat /\ k = Len(r) - 1
    BY <1>9, ToldPublished DEF WithinFeed
  <2>3. since[c] + Len(r) <= Len(feed[p])
    <3>1. since'[c] + Updates(s) <= Len(feed'[project'[c]])
      BY <1>5, ToldNext DEF WithinFeed, Updates
    <3>. QED BY <1>1, <1>5, <3>1
  <2>. DEFINE n == feed[p][since[c] + Len(r)]
  <2>4. /\ feed[p] \in Seq(Nat) /\ Len(feed[p]) \in Nat
        /\ \A i \in 1 .. Len(feed[p]) : feed[p][i] \in 1 .. committed[p]
        /\ \A i, j \in 1 .. Len(feed[p]) : i < j => feed[p][i] < feed[p][j]
    BY <2>2 DEF Fed, FeedInv, FeedTypes, FeedInOrder
  <2>5. k + 1 = Len(r) /\ \A i \in 1 .. k + 1 : since[c] + i \in 1 .. Len(feed[p])
    BY <1>4, <1>6, <2>2, <2>3, <2>4
  <2>6. n \in 1 .. committed[p]
    <3>1. since[c] + Len(r) \in 1 .. Len(feed[p])
      BY <1>6, <2>5
    <3>. HIDE DEF r, p
    <3>. QED BY <2>4, <3>1
  <2>7. Len(Told(c)) = k
    BY <1>6
  <2>8. \A i \in 1 .. Len(Told(c)) : Told(c)[i] < n
    <3>. HIDE DEF r, k, p
    <3>. SUFFICES ASSUME NEW i \in 1 .. k PROVE feed[p][since[c] + i] < n
      BY <1>6, <2>7
    <3>1. /\ since[c] + i \in 1 .. Len(feed[p]) /\ since[c] + Len(r) \in 1 .. Len(feed[p])
          /\ since[c] + i < since[c] + Len(r)
      BY <1>6, <2>2, <2>5
    <3>. QED BY <2>4, <3>1
  <2>9. Told(c)' = Append(Told(c), n)
    <3>. DEFINE t == [i \in 1 .. k |-> feed[p][since[c] + i]]
    <3>1. t \in Seq(Nat) /\ Len(t) = k /\ n \in Nat
          /\ [i \in 1 .. k + 1 |-> feed[p][since[c] + i]] \in Seq(Nat)
      <4>1. \A i \in 1 .. k + 1 : feed[p][since[c] + i] \in Nat
        BY <2>4, <2>5
      <4>2. n = feed[p][since[c] + (k + 1)]
        BY <2>5
      <4>. HIDE DEF k, p, n
      <4>3. k + 1 \in 1 .. k + 1 /\ \A i \in 1 .. k : i \in 1 .. k + 1
        BY <1>6
      <4>4. n \in Nat
        BY <4>1, <4>2, <4>3
      <4>5. t \in [1 .. k -> Nat]
        BY <4>1, <4>3
      <4>6. [i \in 1 .. k + 1 |-> feed[p][since[c] + i]] \in [1 .. k + 1 -> Nat]
        BY <4>1
      <4>7. k + 1 \in Nat
        BY <1>6
      <4>. HIDE DEF t
      <4>. QED BY <1>6, <4>4, <4>5, <4>6, <4>7, SeqFromFunction
    <3>2. \A i \in 1 .. k : t[i] = feed[p][since[c] + i]
      OBVIOUS
    <3>. HIDE DEF t, k, n
    <3>3. /\ Append(t, n) \in Seq(Nat) /\ Len(Append(t, n)) = k + 1
          /\ \A i \in 1 .. k : Append(t, n)[i] = t[i]
          /\ Append(t, n)[k + 1] = n
      BY <3>1, AppendProperties
    <3>. DEFINE u == [i \in 1 .. k + 1 |-> feed[p][since[c] + i]]
    <3>4. u \in Seq(Nat) /\ Len(u) = k + 1
      BY <1>6, <3>1
    <3>5. \A i \in 1 .. k + 1 : u[i] = feed[p][since[c] + i]
      OBVIOUS
    <3>6. u[k + 1] = n
      BY <1>6, <2>5, <3>5 DEF n
    <3>. HIDE DEF u
    <3>7. \A i \in 1 .. k + 1 : u[i] = Append(t, n)[i]
      BY <1>6, <3>2, <3>3, <3>5, <3>6
    <3>8. u = Append(t, n)
      BY <3>3, <3>4, <3>7, SeqEqual
    <3>. QED BY <1>6, <1>7, <2>5, <3>8 DEF u, t
  <2>. QED BY <1>3, <2>2, <2>6, <2>8, <2>9
<1>. QED BY <1>8, <1>9

\* Nobody is told anything while messages, projects and registrations stay, and the feed
\* at most grows.
LEMMA AllKept ==
  ASSUME Fed, Fed', UNCHANGED <<received, project, since>>,
         \A p \in Project : \A i \in 1 .. Len(feed[p]) : feed'[p][i] = feed[p][i]
  PROVE  \A c \in Client : Told(c)' = Told(c)
<1>. SUFFICES ASSUME NEW c \in Client PROVE Told(c)' = Told(c)
  OBVIOUS
<1>1. received[c] # <<>> => project[c] \in Project
  BY ToldPublished DEF WithinFeed
<1>. QED BY <1>1, ToldKept

\* The steps of a connection that a browser notices nothing of.
LEMMA ConnectionKept ==
  ASSUME Fed, Fed', NEW c \in Client,
         \/ Reject(c) \/ Authenticate(c) \/ Register(c) \/ RegisterFails(c)
         \/ StartWriter(c) \/ ReadFails(c) \/ Unregister(c)
         \/ Take(c) \/ WriterReturns(c),
         UNCHANGED feed
  PROVE  UNCHANGED project /\ \A d \in Client : Told(d)' = Told(d)
<1>1. UNCHANGED <<project, received>>
  BY DEF Reject, Authenticate, Register, RegisterFails, StartWriter, ReadFails, Unregister,
         Take, WriterReturns
<1>2. CASE Register(c)
  <2>1. since' = [since EXCEPT ![c] = published[project[c]]] /\ handler[c] = "queueing"
    BY <1>2 DEF Register
  <2>2. received[c] = <<>>
    BY <2>1 DEF Fed, StreamInv, Stages
  <2>3. \A d \in Client \ {c} : since'[d] = since[d]
    BY <2>1 DEF Fed, StreamInv, StreamTypes
  <2>. QED BY <1>1, <2>2, <2>3, ToldKept
<1>3. CASE ~Register(c)
  <2>1. UNCHANGED since
    BY <1>3 DEF Reject, Authenticate, RegisterFails, StartWriter, ReadFails, Unregister,
                Take, WriterReturns
  <2>. QED BY <1>1, <2>1, AllKept
<1>. QED BY <1>2, <1>3

\* A connection learns its project once, before it is told of anything.
LEMMA UpgradeKept ==
  ASSUME Fed, Fed', NEW c \in Client, NEW p \in Project, Upgrade(c, p), UNCHANGED feed
  PROVE  /\ project[c] = None /\ project' = [project EXCEPT ![c] = p]
         /\ \A d \in Client : Told(d)' = Told(d)
<1>1. /\ handler[c] = "none" /\ project' = [project EXCEPT ![c] = p]
      /\ UNCHANGED <<received, since>>
  BY DEF Upgrade
<1>2. project[c] = None /\ received[c] = <<>>
  BY <1>1 DEF Fed, StreamInv, Stages
<1>3. \A d \in Client \ {c} : project'[d] = project[d]
  BY <1>1 DEF Fed, HubInv, HubCounts
<1>. QED BY <1>1, <1>2, <1>3, ToldKept

\* What the listener publishes leaves the earlier updates where they were.
LEMMA PublishKept ==
  ASSUME Fed, Fed', PublishUpdate
  PROVE  /\ UNCHANGED <<committed, project>>
         /\ \A c \in Client : Told(c)' = Told(c)
<1>1. UNCHANGED <<committed, received, project, since>>
  BY DEF PublishUpdate, Publish, hubVars
<1>2. ASSUME NEW p \in Project, NEW i \in 1 .. Len(feed[p])
      PROVE  feed'[p][i] = feed[p][i]
  <2>1. CASE UNCHANGED feed
    BY <2>1
  <2>2. ASSUME NEW q \in Project, heard[1].project = q,
               feed' = [feed EXCEPT ![q] = Append(@, heard[1].n)]
        PROVE  feed'[p][i] = feed[p][i]
    <3>1. feed \in [Project -> Seq(Nat)] /\ heard \in Seq(Messages) /\ Len(heard) = 1
      BY DEF Fed, FeedInv, FeedTypes, HeardInOrder, PublishUpdate
    <3>2. heard[1] \in Messages
      <4>1. 1 \in 1 .. Len(heard)
        BY <3>1
      <4>. QED BY <3>1, <4>1, ElementOfSeq
    <3>3. heard[1].n \in Nat
      BY <3>2 DEF Messages
    <3>4. CASE p = q
      <4>1. feed[p] \in Seq(Nat) /\ feed'[p] = Append(feed[p], heard[1].n)
        BY <2>2, <3>1, <3>4
      <4>. QED BY <3>3, <4>1, AppendProperties
    <3>5. CASE p # q
      BY <2>2, <3>1, <3>5
    <3>. QED BY <3>4, <3>5
  <2>. QED BY <2>1, <2>2 DEF PublishUpdate
<1>. QED BY <1>1, <1>2, AllKept

\* Every step of the process is a step of the feed, or none.
LEMMA FeedStep ==
  ASSUME Fed, Fed', [ApiNext]_apiVars
  PROVE  Feed!Next \/ UNCHANGED Feed!feedVars
<1>. DEFINE told == [c \in Client |-> Told(c)]
<1>1. ASSUME UNCHANGED <<committed, project>>, \A c \in Client : Told(c)' = Told(c)
      PROVE  UNCHANGED Feed!feedVars
  BY <1>1 DEF Feed!feedVars
<1>2. ASSUME NEW p \in Project, EventCommitted(p) PROVE Feed!Happen(p)
  <2>1. \A c \in Client : Told(c)' = Told(c)
    BY <1>2, AllKept DEF EventCommitted, hubVars
  <2>. QED BY <1>2, <2>1 DEF Feed!Happen, EventCommitted, hubVars
<1>3. ASSUME NEW c \in Client, InProcess(Handler(c)) \/ InProcess(Writer(c))
      PROVE  Feed!Next \/ UNCHANGED Feed!feedVars
  <2>1. UNCHANGED <<committed, feed>>
    BY <1>3 DEF InProcess, ownVars
  <2>2. ASSUME NEW p \in Project, Upgrade(c, p) PROVE Feed!Watch(c, p)
    <3>1. /\ project[c] = None /\ project' = [project EXCEPT ![c] = p]
          /\ \A d \in Client : Told(d)' = Told(d)
      BY <2>1, <2>2, UpgradeKept
    <3>. QED BY <2>1, <3>1 DEF Feed!Watch
  <2>3. CASE Write(c)
    <3>1. \A d \in Client \ {c} : Told(d)' = Told(d)
      BY <2>1, <2>3, WriteTells
    <3>2. UNCHANGED project
      BY <2>3 DEF Write
    <3>3. CASE Told(c)' = Told(c)
      BY <1>1, <2>1, <3>1, <3>2, <3>3
    <3>4. ASSUME NEW n \in 1 .. committed[project[c]], project[c] \in Project,
                 \A i \in 1 .. Len(Told(c)) : Told(c)[i] < n,
                 Told(c)' = Append(Told(c), n)
          PROVE  Feed!Tell(c)
      <4>1. project[c] # None
        BY <3>4, HubNoneAssumption
      <4>2. told' = [told EXCEPT ![c] = Append(@, n)]
        BY <3>1, <3>4
      <4>3. \A i \in 1 .. Len(told[c]) : told[c][i] < n
        BY <3>4
      <4>. QED BY <2>1, <3>2, <3>4, <4>1, <4>2, <4>3 DEF Feed!Tell
    <3>5. \/ Told(c)' = Told(c)
          \/ \E n \in 1 .. committed[project[c]] :
               /\ project[c] \in Project
               /\ \A i \in 1 .. Len(Told(c)) : Told(c)[i] < n
               /\ Told(c)' = Append(Told(c), n)
      BY <2>1, <2>3, WriteTells
    <3>. QED BY <3>3, <3>4, <3>5 DEF Feed!Next
  <2>4. CASE \/ Reject(c) \/ Authenticate(c) \/ Register(c) \/ RegisterFails(c)
             \/ StartWriter(c) \/ ReadFails(c) \/ Unregister(c)
             \/ Take(c) \/ WriterReturns(c)
    BY <1>1, <2>1, <2>4, ConnectionKept
  <2>. QED
    BY <1>3, <2>2, <2>3, <2>4
       DEF InProcess, Handler, Writer, WriteFails, PingFails, WriteClose, Feed!Next
<1>4. CASE PublishUpdate
  BY <1>1, <1>4, PublishKept
<1>5. CASE /\ UNCHANGED <<committed, feed>>
           /\ UNCHANGED <<received, project, since>>
  BY <1>1, <1>5, AllKept
<1>6. \/ \E p \in Project : EventCommitted(p)
      \/ \E c \in Client : InProcess(Handler(c)) \/ InProcess(Writer(c))
      \/ PublishUpdate
      \/ UNCHANGED <<committed, feed, received, project, since>>
  BY DEF apiVars, ownVars, hubVars, ApiNext, Opening, Signal, Listener, OpenListener,
         OpenFails, OpenRefused, Wait, WaitFails, WaitCancelled, CloseListener, DelayOver,
         Main, Serve, Stop, Shutdown, ServeFails, CloseHubAgain, Exit, CloseHub, Close
<1>. QED BY <1>2, <1>3, <1>4, <1>5, <1>6 DEF Feed!Next

LEMMA FeedInit == ApiInit => Feed!Init
<1>. SUFFICES ASSUME ApiInit PROVE Feed!Init
  OBVIOUS
<1>1. committed = [p \in Project |-> 0] /\ project = [c \in Client |-> None]
  BY DEF ApiInit, HubInit
<1>2. ASSUME NEW c \in Client PROVE Told(c) = <<>>
  <2>1. Updates(received[c]) = 0
    BY DEF ApiInit, HubInit, Updates
  <2>2. Told(c) = [i \in 1 .. Updates(received[c]) |-> feed[project[c]][since[c] + i]]
    BY HubInvInit, StreamInvInit, FeedInvInit, ToldIs DEF ApiInit, Fed, ToldSince
  <2>3. Told(c) \in Seq(Nat) /\ Len(Told(c)) = 0
    BY <2>1, <2>2
  <2>. QED BY <2>3, EmptySeq
<1>. QED BY <1>1, <1>2 DEF Feed!Init

\* The process implements the feed of docs/architecture.md, for any number of
\* connections and projects, any buffer, and whatever the listener loses.
THEOREM ImplementsUpdateFeed == ApiSafety => ImplementsFeed
<1>1. ApiSafety => [](HubInv /\ StreamInv)
  BY HubInside, StreamInvariance, PTL
<1>2. ApiSafety => []Fed
  BY <1>1, FeedInvariance, PTL DEF Fed
<1>3. Fed /\ Fed' /\ [ApiNext]_apiVars => [Feed!Next]_(Feed!feedVars)
  BY FeedStep
<1>. QED BY <1>2, <1>3, FeedInit, PTL DEF ApiSafety, ImplementsFeed, Feed!Spec
=============================================================================
