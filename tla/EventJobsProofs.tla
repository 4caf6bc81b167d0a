-------------------------- MODULE EventJobsProofs --------------------------
(***************************************************************************)
(* Proofs about EventJobs, for every set of workers, jobs and issues.      *)
(*                                                                         *)
(* The safety properties are not inductive: that a commit adds exactly one *)
(* event needs the job row to be in the queue and locked by this worker    *)
(* only, and that it adds it to the current issue needs the issue row not  *)
(* to have changed since the upsert.  JobsHeld, RowsFilled and the locks   *)
(* (RowLocksExclude, StagedIsCurrent) say so; IssuesFilled is what the     *)
(* ledger's SetStatus needs.  Inv is their conjunction with the            *)
(* properties.                                                             *)
(***************************************************************************)
EXTENDS EventJobs, TLAPS

\* A worker holds a job from the claim to the end of its transaction; the row is
\* there, and was available when the transaction began.
JobsHeld ==
  \A w \in Worker :
    /\ tx[w].pc \in {"idle", "begun"} <=> tx[w].job = None
    /\ tx[w].job # None => /\ tx[w].job \in queue
                           /\ row[tx[w].job].availableAt <= tx[w].started

\* A row that was inserted has a key, and after a failure the time that failure set.
RowsFilled ==
  \A j \in Job :
    /\ row[j].key = None => row[j] = NoRow
    /\ row[j].attempts > 0 =>
         \E skew \in Skew :
           row[j].availableAt = row[j].failedAt + skew + RetryDelay(row[j].attempts)

\* A row of issues has a status.
IssuesFilled ==
  \A k \in Key : issues[k].status = None => issues[k] = NoIssue

Inv ==
  /\ TypeOK
  /\ JobsHeld
  /\ RowsFilled
  /\ IssuesFilled
  /\ RowLocksExclude
  /\ StagedIsCurrent
  /\ NothingLostOrRepeated
  /\ CountIsEvents
  /\ SampleIsLatest
  /\ ResolvedAtIffResolved

----------------------------------------------------------------------------
(* Types.                                                                  *)

LEMMA RetryDelayType ==
  ASSUME NEW a \in Int
  PROVE  RetryDelay(a) \in Int
BY DEF RetryDelay, Least

\* An upsert makes a row of issues of a row of issues.
LEMMA UpsertType ==
  ASSUME NEW i \in Issue, NEW j \in Job, NEW t \in Int
  PROVE  Upsert(i, j, t) \in Issue
<1>1. CASE i = NoIssue
  BY <1>1 DEF Upsert, Issue, Status
<1>2. CASE i # NoIssue
  BY <1>2 DEF Upsert, Issue, Status
<1>. QED BY <1>1, <1>2

LEMMA TypeInit == Init => TypeOK
BY DEF Init, TypeOK, NoRow, JobRow, Row, NoIssue, Issue, Idle, Tx, Transaction

\* Every action of the API, of a worker and of time keeps the types.
LEMMA TypeStep == TypeOK /\ JobsHeld /\ RowsFilled /\ NothingLostOrRepeated /\ [Next]_vars => TypeOK'
<1>. SUFFICES ASSUME TypeOK, JobsHeld, RowsFilled, NothingLostOrRepeated, [Next]_vars PROVE TypeOK'
  OBVIOUS
<1>. USE DEF TypeOK
<1>1. ASSUME NEW j \in Job, NEW k \in Key, EnqueueEvent(j, k) PROVE TypeOK'
  BY <1>1 DEF EnqueueEvent, JobRow, Row
<1>2. ASSUME NEW j \in Job, AcceptEvent(j) PROVE TypeOK'
  BY <1>2 DEF AcceptEvent
<1>3. ASSUME NEW k \in Key, NEW s \in Status, UpdateIssueStatus(k, s) PROVE TypeOK'
  BY <1>3 DEF UpdateIssueStatus, WithStatus, Issue, Status
<1>4. CASE Tick
  BY <1>4 DEF Tick
<1>5. ASSUME NEW w \in Worker, WorkerStep(w) PROVE TypeOK'
  <2>1. CASE Begin(w)
    BY <2>1 DEF Begin, Tx, Transaction, NoIssue, Issue
  <2>2. CASE ClaimJob(w)
    <3>1. PICK j \in Job : tx' = [tx EXCEPT ![w] = Tx("claimed", j, tx[w].started, NoIssue)]
      BY <2>2 DEF ClaimJob
    <3>2. Tx("claimed", j, tx[w].started, NoIssue) \in Transaction
      BY DEF Tx, Transaction, NoIssue, Issue
    <3>3. UNCHANGED <<clock, queue, row, accepted, issues, events>>
      BY <2>2 DEF ClaimJob
    <3>. QED BY <3>1, <3>2, <3>3
  <2>3. CASE FindNoJob(w) \/ Abort(w)
    <3>1. /\ tx' = [tx EXCEPT ![w] = Idle]
          /\ UNCHANGED <<clock, queue, row, accepted, issues, events>>
      BY <2>3 DEF FindNoJob, Abort
    <3>2. Idle \in Transaction
      BY DEF Idle, Tx, Transaction, NoIssue, Issue
    <3>. QED BY <3>1, <3>2
  <2>4. CASE UpsertIssue(w)
    <3>1. tx[w].job \in Job /\ row[tx[w].job].key \in Key
      BY <2>4 DEF UpsertIssue, JobsHeld, NothingLostOrRepeated, Transaction
    <3>2. Upsert(issues[row[tx[w].job].key], tx[w].job, tx[w].started) \in Issue
      BY <3>1, UpsertType DEF Transaction
    <3>. QED BY <2>4, <3>2 DEF UpsertIssue, Tx, Transaction
  <2>5. CASE CommitEvent(w)
    <3>1. tx[w].job \in Job /\ row[tx[w].job].key \in Key
      BY <2>5 DEF CommitEvent, JobsHeld, NothingLostOrRepeated, Transaction
    <3>2. Idle \in Transaction
      BY DEF Idle, Tx, Transaction, NoIssue, Issue
    <3>3. tx[w].staged \in Issue
      BY DEF Transaction
    <3>. QED BY <2>5, <3>1, <3>2, <3>3, SMTT(30) DEF CommitEvent
  <2>6. CASE ProcessingFails(w)
    BY <2>6 DEF ProcessingFails, Tx, Transaction, NoIssue, Issue
  <2>7. CASE Reschedule(w)
    <3>1. tx[w].job \in Job
      BY <2>7 DEF Reschedule, JobsHeld
    <3>2. Idle \in Transaction
      BY DEF Idle, Tx, Transaction, NoIssue, Issue
    <3>3. RetryDelay(row[tx[w].job].attempts + 1) \in Int
      BY <3>1, RetryDelayType DEF Row
    <3>. QED BY <2>7, <3>1, <3>2, <3>3, SkewAssumption, SMTT(30) DEF Reschedule, JobRow, Row
  <2>. QED BY <1>5, <2>1, <2>2, <2>3, <2>4, <2>5, <2>6, <2>7 DEF WorkerStep
<1>6. CASE UNCHANGED vars
  BY <1>6 DEF vars
<1>. QED BY <1>1, <1>2, <1>3, <1>4, <1>5, <1>6 DEF Next, API

----------------------------------------------------------------------------
(* Locks.                                                                  *)

\* A worker that holds a job holds a row of event_jobs that has a key.
LEMMA HeldJob ==
  ASSUME Inv, NEW w \in Worker, tx[w].job # None
  PROVE  /\ tx[w].job \in Job
         /\ tx[w].job \in queue
         /\ row[tx[w].job].key \in Key
BY DEF Inv, TypeOK, Transaction, JobsHeld, NothingLostOrRepeated

\* Nobody holds the row an enqueue inserts.
LEMMA FreshJob ==
  ASSUME Inv, NEW j \in Job, NEW k \in Key, EnqueueEvent(j, k)
  PROVE  \A w \in Worker : tx[w].job # j
<1>1. row[j].key = None
  BY DEF EnqueueEvent, NoRow, JobRow
<1>. QED BY <1>1, HeldJob, NoneAssumption

\* Claims, upserts and commits keep the job rows and the issue rows exclusive.
LEMMA LockStep == Inv /\ [Next]_vars => RowLocksExclude'
<1>. SUFFICES ASSUME Inv, [Next]_vars PROVE RowLocksExclude'
  OBVIOUS
<1>. USE DEF Inv, TypeOK, Transaction, RowLocksExclude, JobsHeld
<1>1. ASSUME NEW j \in Job, NEW k \in Key, EnqueueEvent(j, k) PROVE RowLocksExclude'
  <2>1. \A w \in Worker : tx[w].job # j
    BY <1>1, FreshJob
  <2>. QED BY <1>1, <2>1, HeldJob DEF EnqueueEvent
<1>2. ASSUME NEW j \in Job, AcceptEvent(j) PROVE RowLocksExclude'
  BY <1>2 DEF AcceptEvent
<1>3. ASSUME NEW k \in Key, NEW s \in Status, UpdateIssueStatus(k, s) PROVE RowLocksExclude'
  BY <1>3 DEF UpdateIssueStatus
<1>4. CASE Tick
  BY <1>4 DEF Tick
<1>5. ASSUME NEW w \in Worker, WorkerStep(w) PROVE RowLocksExclude'
  <2>1. CASE Begin(w) \/ FindNoJob(w) \/ Abort(w)
    <3>1. /\ tx'[w].job = None /\ tx'[w].pc \in {"idle", "begun"}
          /\ \A v \in Worker : v # w => tx'[v] = tx[v]
          /\ UNCHANGED <<queue, row>>
      BY <2>1 DEF Begin, FindNoJob, Abort, Idle, Tx
    <3>. QED BY <3>1
  <2>2. CASE ClaimJob(w)
    BY <2>2, SMTT(30) DEF ClaimJob, Claimable, JobLocked, Tx
  <2>3. CASE UpsertIssue(w)
    BY <2>3, HeldJob DEF UpsertIssue, IssueFree, Tx
  <2>4. CASE CommitEvent(w)
    BY <2>4 DEF CommitEvent, Idle, Tx
  <2>5. CASE ProcessingFails(w)
    BY <2>5 DEF ProcessingFails, Tx
  <2>6. CASE Reschedule(w)
    <3>1. \A v \in Worker : v # w => tx'[v] = tx[v]
      BY <2>6 DEF Reschedule
    <3>2. \A v \in Worker : v # w /\ tx[v].job # None => row'[tx[v].job] = row[tx[v].job]
      BY <2>6 DEF Reschedule
    <3>3. tx'[w].job = None
      BY <2>6 DEF Reschedule, Idle, Tx
    <3>. QED BY <3>1, <3>2, <3>3
  <2>. QED BY <1>5, <2>1, <2>2, <2>3, <2>4, <2>5, <2>6 DEF WorkerStep
<1>6. CASE UNCHANGED vars
  BY <1>6 DEF vars
<1>. QED BY <1>1, <1>2, <1>3, <1>4, <1>5, <1>6 DEF Next, API

\* A worker goes on holding its job: nobody else deletes or reschedules the row.
LEMMA HoldStep == Inv /\ [Next]_vars => JobsHeld'
<1>. SUFFICES ASSUME Inv, [Next]_vars PROVE JobsHeld'
  OBVIOUS
<1>. USE DEF Inv, TypeOK, Transaction, RowLocksExclude, JobsHeld
<1>1. ASSUME NEW j \in Job, NEW k \in Key, EnqueueEvent(j, k) PROVE JobsHeld'
  <2>1. \A w \in Worker : tx[w].job # j
    BY <1>1, FreshJob
  <2>. QED BY <1>1, <2>1, HeldJob DEF EnqueueEvent
<1>2. ASSUME NEW j \in Job, AcceptEvent(j) PROVE JobsHeld'
  BY <1>2 DEF AcceptEvent
<1>3. ASSUME NEW k \in Key, NEW s \in Status, UpdateIssueStatus(k, s) PROVE JobsHeld'
  BY <1>3 DEF UpdateIssueStatus
<1>4. CASE Tick
  BY <1>4 DEF Tick
<1>5. ASSUME NEW w \in Worker, WorkerStep(w) PROVE JobsHeld'
  <2>1. CASE Begin(w) \/ FindNoJob(w) \/ Abort(w)
    <3>1. /\ tx'[w].job = None /\ tx'[w].pc \in {"idle", "begun"}
          /\ \A v \in Worker : v # w => tx'[v] = tx[v]
          /\ UNCHANGED <<queue, row>>
      BY <2>1 DEF Begin, FindNoJob, Abort, Idle, Tx
    <3>. QED BY <3>1
  <2>2. CASE ClaimJob(w)
    <3>1. PICK j \in Job :
            /\ j \in queue /\ row[j].availableAt <= tx[w].started
            /\ tx' = [tx EXCEPT ![w] = Tx("claimed", j, tx[w].started, NoIssue)]
      BY <2>2 DEF ClaimJob, Claimable
    <3>2. /\ tx'[w].pc = "claimed" /\ tx'[w].job = j /\ tx'[w].started = tx[w].started
          /\ \A v \in Worker : v # w => tx'[v] = tx[v]
      BY <3>1 DEF Tx
    <3>3. UNCHANGED <<queue, row>>
      BY <2>2 DEF ClaimJob
    <3>. QED BY <3>1, <3>2, <3>3, NoneAssumption
  <2>3. CASE UpsertIssue(w)
    BY <2>3 DEF UpsertIssue, Tx
  <2>4. CASE CommitEvent(w)
    BY <2>4 DEF CommitEvent, Idle, Tx
  <2>5. CASE ProcessingFails(w)
    BY <2>5 DEF ProcessingFails, Tx
  <2>6. CASE Reschedule(w)
    <3>1. \A v \in Worker : v # w => tx'[v] = tx[v]
      BY <2>6 DEF Reschedule
    <3>2. \A v \in Worker : v # w /\ tx[v].job # None => row'[tx[v].job] = row[tx[v].job]
      BY <2>6 DEF Reschedule
    <3>3. tx'[w].job = None /\ tx'[w].pc = "idle" /\ queue' = queue
      BY <2>6 DEF Reschedule, Idle, Tx
    <3>. QED BY <3>1, <3>2, <3>3
  <2>. QED BY <1>5, <2>1, <2>2, <2>3, <2>4, <2>5, <2>6 DEF WorkerStep
<1>6. CASE UNCHANGED vars
  BY <1>6 DEF vars
<1>. QED BY <1>1, <1>2, <1>3, <1>4, <1>5, <1>6 DEF Next, API

\* Only EnqueueEvent and Reschedule write rows of event_jobs.
LEMMA RowStep == Inv /\ [Next]_vars => RowsFilled'
<1>. SUFFICES ASSUME Inv, [Next]_vars PROVE RowsFilled'
  OBVIOUS
<1>. USE DEF Inv, TypeOK, RowsFilled
<1>1. ASSUME NEW j \in Job, NEW k \in Key, EnqueueEvent(j, k) PROVE RowsFilled'
  BY <1>1, NoneAssumption DEF EnqueueEvent, JobRow
<1>2. ASSUME NEW w \in Worker, Reschedule(w) PROVE RowsFilled'
  <2>. DEFINE j == tx[w].job
              n == row[j].attempts + 1
  <2>1. j \in Job /\ row[j].key \in Key
    BY <1>2, HeldJob DEF Reschedule, JobsHeld
  <2>2. PICK skew \in Skew :
          row' = [row EXCEPT ![j] = JobRow(row[j].key, n, clock + skew + RetryDelay(n), clock)]
    BY <1>2 DEF Reschedule
  <2>3. /\ row'[j].key # None
        /\ row'[j].availableAt = row'[j].failedAt + skew + RetryDelay(row'[j].attempts)
    BY <2>1, <2>2, NoneAssumption DEF JobRow
  <2>4. \A i \in Job : i # j => row'[i] = row[i]
    BY <2>1, <2>2
  <2>. QED BY <2>3, <2>4
<1>3. CASE UNCHANGED row
  BY <1>3
<1>. QED BY <1>1, <1>2, <1>3
     DEF Next, API, vars, AcceptEvent, UpdateIssueStatus, Tick, WorkerStep, Begin,
         ClaimJob, FindNoJob, UpsertIssue, CommitEvent, ProcessingFails, Abort

\* The staged row stays the current one: while it is staged the issue is locked.
LEMMA StagedStep == Inv /\ [Next]_vars => StagedIsCurrent'
<1>. SUFFICES ASSUME Inv, [Next]_vars PROVE StagedIsCurrent'
  OBVIOUS
<1>. USE DEF Inv, TypeOK, Transaction, StagedIsCurrent
<1>1. ASSUME NEW j \in Job, NEW k \in Key, EnqueueEvent(j, k) PROVE StagedIsCurrent'
  <2>1. \A w \in Worker : tx[w].job # j
    BY <1>1, FreshJob
  <2>2. \A w \in Worker : tx[w].pc = "upserted" => row'[tx[w].job] = row[tx[w].job]
    BY <1>1, <2>1, HeldJob DEF EnqueueEvent, JobsHeld
  <2>. QED BY <1>1, <2>2 DEF EnqueueEvent
<1>2. ASSUME NEW j \in Job, AcceptEvent(j) PROVE StagedIsCurrent'
  BY <1>2 DEF AcceptEvent
<1>3. ASSUME NEW k \in Key, NEW s \in Status, UpdateIssueStatus(k, s) PROVE StagedIsCurrent'
  <2>1. \A w \in Worker : tx[w].pc = "upserted" =>
          issues'[row[tx[w].job].key] = issues[row[tx[w].job].key]
    BY <1>3, HeldJob DEF UpdateIssueStatus, IssueFree, JobsHeld
  <2>. QED BY <1>3, <2>1 DEF UpdateIssueStatus
<1>4. CASE Tick
  BY <1>4 DEF Tick
<1>5. ASSUME NEW w \in Worker, WorkerStep(w) PROVE StagedIsCurrent'
  <2>1. CASE Begin(w) \/ FindNoJob(w) \/ Abort(w) \/ ProcessingFails(w)
    <3>1. /\ tx'[w].pc \in {"idle", "begun", "failed"}
          /\ \A v \in Worker : v # w => tx'[v] = tx[v]
          /\ UNCHANGED <<row, issues>>
      BY <2>1 DEF Begin, FindNoJob, Abort, ProcessingFails, Idle, Tx
    <3>. QED BY <3>1
  <2>2. CASE ClaimJob(w)
    BY <2>2 DEF ClaimJob, Tx
  <2>3. CASE UpsertIssue(w)
    BY <2>3 DEF UpsertIssue, Tx
  <2>4. CASE CommitEvent(w)
    <3>1. \A v \in Worker : v # w /\ tx[v].pc = "upserted" =>
            row[tx[v].job].key # row[tx[w].job].key
      BY <2>4 DEF CommitEvent, RowLocksExclude, JobsHeld
    <3>2. \A v \in Worker : v # w /\ tx[v].pc = "upserted" =>
            issues'[row[tx[v].job].key] = issues[row[tx[v].job].key]
      BY <2>4, <3>1, HeldJob DEF CommitEvent, JobsHeld
    <3>3. /\ tx'[w].pc = "idle" /\ row' = row
          /\ \A v \in Worker : v # w => tx'[v] = tx[v]
      BY <2>4 DEF CommitEvent, Idle, Tx
    <3>. QED BY <3>2, <3>3
  <2>5. CASE Reschedule(w)
    <3>1. \A v \in Worker : v # w /\ tx[v].pc = "upserted" => tx[v].job # tx[w].job
      BY <2>5 DEF Reschedule, RowLocksExclude, JobsHeld
    <3>2. \A v \in Worker : v # w /\ tx[v].pc = "upserted" => row'[tx[v].job] = row[tx[v].job]
      BY <2>5, <3>1 DEF Reschedule
    <3>3. /\ tx'[w].pc = "idle" /\ issues' = issues
          /\ \A v \in Worker : v # w => tx'[v] = tx[v]
      BY <2>5 DEF Reschedule, Idle, Tx
    <3>. QED BY <3>2, <3>3
  <2>. QED BY <1>5, <2>1, <2>2, <2>3, <2>4, <2>5 DEF WorkerStep
<1>6. CASE UNCHANGED vars
  BY <1>6 DEF vars
<1>. QED BY <1>1, <1>2, <1>3, <1>4, <1>5, <1>6 DEF Next, API

----------------------------------------------------------------------------
(* What the tables say of each other.                                      *)

\* What CommitEvent does, seen from the tables: one event of the job's own issue,
\* whose row is upserted by it, and one job less.
LEMMA CommitEffect ==
  ASSUME Inv, NEW w \in Worker, CommitEvent(w)
  PROVE  \E j \in queue, k \in Key, t \in Int :
           /\ j \in Job /\ row[j].key = k
           /\ issues'[k] = Upsert(issues[k], j, t)
           /\ events'[k] = Append(events[k], j)
           /\ \A i \in Key : i # k => issues'[i] = issues[i] /\ events'[i] = events[i]
           /\ queue' = queue \ {j} /\ row' = row /\ accepted' = accepted
<1>. DEFINE j == tx[w].job
            k == row[j].key
            t == tx[w].started
<1>1. tx[w].pc = "upserted" /\ j # None
  BY DEF CommitEvent, Inv, JobsHeld
<1>2. j \in Job /\ j \in queue /\ k \in Key /\ t \in Int
  BY <1>1, HeldJob DEF Inv, TypeOK, Transaction
<1>3. tx[w].staged = Upsert(issues[k], j, t)
  BY <1>1 DEF Inv, StagedIsCurrent
<1>4. issues'[k] = Upsert(issues[k], j, t) /\ events'[k] = Append(events[k], j)
  BY <1>2, <1>3 DEF CommitEvent, Inv, TypeOK
<1>5. \A i \in Key : i # k => issues'[i] = issues[i] /\ events'[i] = events[i]
  BY <1>2 DEF CommitEvent, Inv, TypeOK
<1>6. queue' = queue \ {j} /\ row' = row /\ accepted' = accepted
  BY DEF CommitEvent
<1>. HIDE DEF t, k
<1>7. row[j].key = k
  BY DEF k
<1>. HIDE DEF j
<1>. QED BY <1>2, <1>4, <1>5, <1>6, <1>7

\* The columns an upsert and a PATCH write.
LEMMA IssueFields ==
  ASSUME NEW i \in Issue
  PROVE  /\ \A j \in Job, t \in Int :
              /\ Upsert(i, j, t).count = i.count + 1
              /\ Upsert(i, j, t).sample = j
              /\ Upsert(i, j, t).status # None
         /\ \A s \in Status :
              /\ WithStatus(i, s).count = i.count
              /\ WithStatus(i, s).sample = i.sample
              /\ WithStatus(i, s).status # None
              /\ WithStatus(i, s).resolvedAt <=> WithStatus(i, s).status = "resolved"
BY NoneAssumption DEF Issue, Status, Upsert, WithStatus

LEMMA UpsertResolved ==
  ASSUME NEW i \in Issue, NEW j \in Job, NEW t \in Int,
         i.resolvedAt <=> i.status = "resolved"
  PROVE  Upsert(i, j, t).resolvedAt <=> Upsert(i, j, t).status = "resolved"
BY DEF Upsert

LEMMA AppendLast ==
  ASSUME NEW s \in Seq(Job), NEW j \in Job
  PROVE  Len(Append(s, j)) = Len(s) + 1 /\ Last(Append(s, j)) = j /\ Append(s, j) # <<>>
BY DEF Last

\* Every step but a commit, an enqueue and a PATCH leaves what the user sees alone.
LEMMA QuietSteps ==
  ASSUME [Next]_vars,
         ~ \E w \in Worker : CommitEvent(w),
         ~ \E j \in Job, k \in Key : EnqueueEvent(j, k),
         ~ \E k \in Key, s \in Status : UpdateIssueStatus(k, s)
  PROVE  UNCHANGED <<queue, issues, events>>
BY DEF Next, API, WorkerStep, vars, AcceptEvent, Tick, Begin, ClaimJob, FindNoJob,
       UpsertIssue, ProcessingFails, Reschedule, Abort

\* The status a PATCH sets and the time it stamps agree; so do those of an upsert.
LEMMA ResolvedStep == Inv /\ [Next]_vars => ResolvedAtIffResolved'
<1>. SUFFICES ASSUME Inv, [Next]_vars PROVE ResolvedAtIffResolved'
  OBVIOUS
<1>. USE DEF Inv, TypeOK, ResolvedAtIffResolved
<1>1. ASSUME NEW w \in Worker, CommitEvent(w) PROVE ResolvedAtIffResolved'
  <2>1. PICK j \in queue, k \in Key, t \in Int :
          /\ j \in Job /\ row[j].key = k
          /\ issues'[k] = Upsert(issues[k], j, t)
          /\ events'[k] = Append(events[k], j)
          /\ \A i \in Key : i # k => issues'[i] = issues[i] /\ events'[i] = events[i]
          /\ queue' = queue \ {j} /\ row' = row /\ accepted' = accepted
    BY <1>1, CommitEffect
  <2>2. issues[k] \in Issue /\ events[k] \in Seq(Job)
    OBVIOUS
  <2>3. issues[k].resolvedAt <=> issues[k].status = "resolved"
    OBVIOUS
  <2>4. issues'[k].resolvedAt <=> issues'[k].status = "resolved"
    BY <2>1, <2>2, <2>3, UpsertResolved
  <2>. QED BY <2>1, <2>4, Zenon
<1>2. ASSUME NEW k \in Key, NEW s \in Status, UpdateIssueStatus(k, s)
      PROVE  ResolvedAtIffResolved'
  <2>1. /\ issues' = [issues EXCEPT ![k] = WithStatus(issues[k], s)] /\ events' = events
        /\ issues[k] \in Issue
    BY <1>2 DEF UpdateIssueStatus
  <2>. QED BY <2>1, IssueFields
<1>3. ASSUME NEW j \in Job, NEW k \in Key, EnqueueEvent(j, k) PROVE ResolvedAtIffResolved'
  BY <1>3 DEF EnqueueEvent
<1>. QED BY <1>1, <1>2, <1>3, QuietSteps

\* No statement leaves an issue without a status.
LEMMA FilledStep == Inv /\ [Next]_vars => IssuesFilled'
<1>. SUFFICES ASSUME Inv, [Next]_vars PROVE IssuesFilled'
  OBVIOUS
<1>. USE DEF Inv, TypeOK, IssuesFilled
<1>1. ASSUME NEW w \in Worker, CommitEvent(w) PROVE IssuesFilled'
  <2>1. PICK j \in queue, k \in Key, t \in Int :
          /\ j \in Job
          /\ issues'[k] = Upsert(issues[k], j, t)
          /\ \A i \in Key : i # k => issues'[i] = issues[i]
    BY <1>1, CommitEffect
  <2>2. issues'[k].status # None
    BY <2>1, IssueFields
  <2>. QED BY <2>1, <2>2, Zenon
<1>2. ASSUME NEW k \in Key, NEW s \in Status, UpdateIssueStatus(k, s) PROVE IssuesFilled'
  <2>1. issues' = [issues EXCEPT ![k] = WithStatus(issues[k], s)] /\ issues[k] \in Issue
    BY <1>2 DEF UpdateIssueStatus
  <2>. QED BY <2>1, IssueFields
<1>3. ASSUME NEW j \in Job, NEW k \in Key, EnqueueEvent(j, k) PROVE IssuesFilled'
  BY <1>3 DEF EnqueueEvent
<1>. QED BY <1>1, <1>2, <1>3, QuietSteps

\* A commit adds one to the count and one event to the history.
LEMMA CountStep == Inv /\ [Next]_vars => CountIsEvents'
<1>. SUFFICES ASSUME Inv, [Next]_vars PROVE CountIsEvents'
  OBVIOUS
<1>. USE DEF Inv, TypeOK, CountIsEvents
<1>1. ASSUME NEW w \in Worker, CommitEvent(w) PROVE CountIsEvents'
  <2>1. PICK j \in queue, k \in Key, t \in Int :
          /\ j \in Job /\ row[j].key = k
          /\ issues'[k] = Upsert(issues[k], j, t)
          /\ events'[k] = Append(events[k], j)
          /\ \A i \in Key : i # k => issues'[i] = issues[i] /\ events'[i] = events[i]
          /\ queue' = queue \ {j} /\ row' = row /\ accepted' = accepted
    BY <1>1, CommitEffect
  <2>2. issues[k] \in Issue /\ events[k] \in Seq(Job)
    OBVIOUS
  <2>3. issues'[k].count = issues[k].count + 1
    BY <2>1, <2>2, IssueFields
  <2>4. Len(events'[k]) = Len(events[k]) + 1
    BY <2>1, <2>2, AppendLast
  <2>. QED BY <2>1, <2>3, <2>4, Zenon
<1>2. ASSUME NEW k \in Key, NEW s \in Status, UpdateIssueStatus(k, s) PROVE CountIsEvents'
  <2>1. /\ issues' = [issues EXCEPT ![k] = WithStatus(issues[k], s)] /\ events' = events
        /\ issues[k] \in Issue
    BY <1>2 DEF UpdateIssueStatus
  <2>. QED BY <2>1, IssueFields
<1>3. ASSUME NEW j \in Job, NEW k \in Key, EnqueueEvent(j, k) PROVE CountIsEvents'
  BY <1>3 DEF EnqueueEvent
<1>. QED BY <1>1, <1>2, <1>3, QuietSteps

\* A commit puts its job last in the history and on the issue.
LEMMA SampleStep == Inv /\ [Next]_vars => SampleIsLatest'
<1>. SUFFICES ASSUME Inv, [Next]_vars PROVE SampleIsLatest'
  OBVIOUS
<1>. USE DEF Inv, TypeOK, SampleIsLatest
<1>1. ASSUME NEW w \in Worker, CommitEvent(w) PROVE SampleIsLatest'
  <2>1. PICK j \in queue, k \in Key, t \in Int :
          /\ j \in Job /\ row[j].key = k
          /\ issues'[k] = Upsert(issues[k], j, t)
          /\ events'[k] = Append(events[k], j)
          /\ \A i \in Key : i # k => issues'[i] = issues[i] /\ events'[i] = events[i]
          /\ queue' = queue \ {j} /\ row' = row /\ accepted' = accepted
    BY <1>1, CommitEffect
  <2>2. issues[k] \in Issue /\ events[k] \in Seq(Job)
    OBVIOUS
  <2>3. issues'[k].sample = j
    BY <2>1, <2>2, IssueFields
  <2>4. Last(events'[k]) = j
    BY <2>1, <2>2, AppendLast
  <2>. QED BY <2>1, <2>3, <2>4, Zenon
<1>2. ASSUME NEW k \in Key, NEW s \in Status, UpdateIssueStatus(k, s) PROVE SampleIsLatest'
  <2>1. /\ issues' = [issues EXCEPT ![k] = WithStatus(issues[k], s)] /\ events' = events
        /\ issues[k] \in Issue
    BY <1>2 DEF UpdateIssueStatus
  <2>. QED BY <2>1, IssueFields
<1>3. ASSUME NEW j \in Job, NEW k \in Key, EnqueueEvent(j, k) PROVE SampleIsLatest'
  BY <1>3 DEF EnqueueEvent
<1>. QED BY <1>1, <1>2, <1>3, QuietSteps

\* Adding to a history an event it does not have keeps each event once.
LEMMA AppendOnce ==
  ASSUME NEW s \in Seq(Job), NEW j \in Job, IsInjective(s), j \notin Range(s)
  PROVE  /\ IsInjective(Append(s, j))
         /\ Range(Append(s, j)) = Range(s) \cup {j}
<1>. DEFINE t == Append(s, j)
<1>1. /\ DOMAIN s = 1 .. Len(s) /\ DOMAIN t = 1 .. Len(s) + 1 /\ Len(s) \in Nat
      /\ \A n \in 1 .. Len(s) : t[n] = s[n]
      /\ t[Len(s) + 1] = j
  OBVIOUS
<1>2. \A n \in 1 .. Len(s) : s[n] # j
  BY <1>1 DEF Range
<1>. HIDE DEF t
<1>3. \A m, n \in DOMAIN t : t[m] = t[n] => m = n
  BY <1>1, <1>2 DEF IsInjective
<1>4. \A e : e \in Range(t) => e \in Range(s) \cup {j}
  BY <1>1 DEF Range
<1>5. \A e : e \in Range(s) \cup {j} => e \in Range(t)
  <2>1. j \in Range(t)
    BY <1>1 DEF Range
  <2>2. ASSUME NEW e \in Range(s) PROVE e \in Range(t)
    <3>1. PICK n \in 1 .. Len(s) : s[n] = e
      BY <1>1 DEF Range
    <3>. QED BY <1>1, <3>1 DEF Range
  <2>. QED BY <2>1, <2>2
<1>. QED BY <1>3, <1>4, <1>5 DEF IsInjective, t

\* Nothing is lost and nothing recorded twice: a commit moves its job from the
\* queue to the history of the job's own issue, and no other step takes a job away.
LEMMA HistoryStep == Inv /\ [Next]_vars => NothingLostOrRepeated'
<1>. SUFFICES ASSUME Inv, [Next]_vars PROVE NothingLostOrRepeated'
  OBVIOUS
<1>. USE DEF Inv, TypeOK, NothingLostOrRepeated
<1>1. ASSUME NEW w \in Worker, CommitEvent(w) PROVE NothingLostOrRepeated'
  <2>1. PICK j \in queue, k \in Key, t \in Int :
          /\ j \in Job /\ row[j].key = k
          /\ issues'[k] = Upsert(issues[k], j, t)
          /\ events'[k] = Append(events[k], j)
          /\ \A i \in Key : i # k => issues'[i] = issues[i] /\ events'[i] = events[i]
          /\ queue' = queue \ {j} /\ row' = row /\ accepted' = accepted
    BY <1>1, CommitEffect
  <2>2. issues[k] \in Issue /\ events[k] \in Seq(Job)
    OBVIOUS
  <2>3. j \notin Range(events[k])
    OBVIOUS
  <2>4. IsInjective(Append(events[k], j)) /\ Range(Append(events[k], j)) = Range(events[k]) \cup {j}
    BY <2>1, <2>2, <2>3, AppendOnce
  <2>5. Range(events'[k]) = {i \in Job : row'[i].key = k} \ queue'
    BY <2>1, <2>4
  <2>6. \A i \in Key : i # k => {a \in Job : row'[a].key = i} \ queue' =
                                {a \in Job : row[a].key = i} \ queue
    BY <2>1
  <2>7. accepted' \cup queue' \subseteq {i \in Job : row'[i].key \in Key}
    BY <2>1
  <2>. QED BY <2>1, <2>4, <2>5, <2>6, <2>7
<1>2. ASSUME NEW j \in Job, NEW k \in Key, EnqueueEvent(j, k)
      PROVE  NothingLostOrRepeated'
  <2>1. row[j].key = None /\ row'[j].key = k /\ \A i \in Job : i # j => row'[i] = row[i]
    BY <1>2 DEF EnqueueEvent, NoRow, JobRow
  <2>2. queue' = queue \cup {j} /\ events' = events /\ accepted' = accepted
    BY <1>2 DEF EnqueueEvent
  <2>3. \A i \in Key : {a \in Job : row'[a].key = i} \ queue' =
                       {a \in Job : row[a].key = i} \ queue
    BY <2>1, <2>2, NoneAssumption
  <2>. QED BY <2>1, <2>2, <2>3
<1>3. ASSUME NEW j \in Job, AcceptEvent(j) PROVE NothingLostOrRepeated'
  <2>1. row[j].key \in Key
    BY <1>3 DEF AcceptEvent, RowsFilled, Row
  <2>. QED BY <1>3, <2>1 DEF AcceptEvent
<1>4. ASSUME NEW w \in Worker, Reschedule(w) PROVE NothingLostOrRepeated'
  <2>1. \A i \in Job : row'[i].key = row[i].key
    BY <1>4 DEF Reschedule, JobRow
  <2>. QED BY <1>4, <2>1 DEF Reschedule
<1>5. CASE UNCHANGED <<row, queue, accepted, events>>
  BY <1>5
<1>. QED BY <1>1, <1>2, <1>3, <1>4, <1>5
     DEF Next, API, vars, UpdateIssueStatus, Tick, WorkerStep, Begin,
         ClaimJob, FindNoJob, UpsertIssue, ProcessingFails, Abort

----------------------------------------------------------------------------
(* Theorems.                                                               *)

LEMMA InvInit == Init => Inv
<1>. SUFFICES ASSUME Init PROVE Inv
  OBVIOUS
<1>1. TypeOK
  BY TypeInit
<1>2. JobsHeld /\ RowLocksExclude /\ StagedIsCurrent
  BY DEF Init, JobsHeld, RowLocksExclude, StagedIsCurrent, Idle, Tx
<1>3. RowsFilled /\ IssuesFilled
  BY DEF Init, RowsFilled, IssuesFilled, NoRow, JobRow
<1>4. NothingLostOrRepeated
  BY NoneAssumption DEF Init, NothingLostOrRepeated, NoRow, JobRow, IsInjective, Range
<1>5. CountIsEvents /\ SampleIsLatest /\ ResolvedAtIffResolved
  BY NoneAssumption
     DEF Init, CountIsEvents, SampleIsLatest, ResolvedAtIffResolved, NoIssue
<1>. QED BY <1>1, <1>2, <1>3, <1>4, <1>5 DEF Inv

LEMMA InvStep == Inv /\ [Next]_vars => Inv'
<1>. SUFFICES ASSUME Inv, [Next]_vars PROVE Inv'
  OBVIOUS
<1>1. TypeOK'
  BY TypeStep DEF Inv
<1>. QED BY <1>1, LockStep, HoldStep, RowStep, FilledStep, StagedStep, ResolvedStep, CountStep,
            SampleStep, HistoryStep DEF Inv

\* The inductive invariant holds of every reachable state.
THEOREM Invariance == Safety => []Inv
<1>. QED BY InvInit, InvStep, PTL DEF Safety

\* Types: every variable of the pipeline stays of its type.
THEOREM TypeCorrect == Safety => []TypeOK
<1>1. Inv => TypeOK
  BY DEF Inv
<1>. QED BY <1>1, Invariance, PTL

\* An event that was sent, and so every event answered 202, is a job still to do or
\* exactly one event of its own issue: ProcessNextEventJob neither loses nor repeats
\* one, with any number of workers failing and crashing at any step.
THEOREM NoEventLostOrRepeated == Safety => []NothingLostOrRepeated
<1>1. Inv => NothingLostOrRepeated
  BY DEF Inv
<1>. QED BY <1>1, Invariance, PTL

\* event_count is the number of rows of events of the issue.
THEOREM CountCorrect == Safety => []CountIsEvents
<1>1. Inv => CountIsEvents
  BY DEF Inv
<1>. QED BY <1>1, Invariance, PTL

\* An issue shows the message and stack trace of its latest committed event.
THEOREM SampleCorrect == Safety => []SampleIsLatest
<1>1. Inv => SampleIsLatest
  BY DEF Inv
<1>. QED BY <1>1, Invariance, PTL

\* resolved_at is set exactly while an issue is resolved.
THEOREM ResolvedAtCorrect == Safety => []ResolvedAtIffResolved
<1>1. Inv => ResolvedAtIffResolved
  BY DEF Inv
<1>. QED BY <1>1, Invariance, PTL

\* No two workers are at one job or have written one issue.
THEOREM LocksExclude == Safety => []RowLocksExclude
<1>1. Inv => RowLocksExclude
  BY DEF Inv
<1>. QED BY <1>1, Invariance, PTL

\* The row an upsert wrote still follows the committed one when it commits.
THEOREM NoLostUpdate == Safety => []StagedIsCurrent
<1>1. Inv => StagedIsCurrent
  BY DEF Inv
<1>. QED BY <1>1, Invariance, PTL

\* A retry waits for eventJobRetryDelay, up to the difference of the clocks.
THEOREM BackoffCorrect == Safety => []BackoffRespected
<1>1. Inv => BackoffRespected
  <2>. SUFFICES ASSUME Inv, NEW w \in Worker,
                       tx[w].job # None, row[tx[w].job].attempts > 0
                PROVE  \E skew \in Skew :
                         tx[w].started >= row[tx[w].job].failedAt + skew
                                            + RetryDelay(row[tx[w].job].attempts)
    BY DEF BackoffRespected
  <2>1. tx[w].job \in Job
    BY HeldJob
  <2>2. PICK skew \in Skew :
          row[tx[w].job].availableAt =
            row[tx[w].job].failedAt + skew + RetryDelay(row[tx[w].job].attempts)
    BY <2>1 DEF Inv, RowsFilled
  <2>3. row[tx[w].job].availableAt <= tx[w].started
    BY DEF Inv, JobsHeld
  <2>4. row[tx[w].job].availableAt \in Int /\ tx[w].started \in Int
    BY <2>1 DEF Inv, TypeOK, Row, Transaction
  <2>. QED BY <2>2, <2>3, <2>4
<1>. QED BY <1>1, Invariance, PTL

----------------------------------------------------------------------------
(* The pipeline implements the ledger.                                     *)

LEMMA LedgerInitial == Init => Ledger!LedgerInit
BY DEF Init, Ledger!LedgerInit, NoRow, JobRow, NoIssue

\* A commit is the ledger's Record step of the job.
LEMMA CommitRecords ==
  ASSUME Inv, NEW w \in Worker, CommitEvent(w)
  PROVE  \E j \in Job : Ledger!Record(j)
<1>1. PICK j \in queue, k \in Key, t \in Int :
        /\ j \in Job /\ row[j].key = k
        /\ issues'[k] = Upsert(issues[k], j, t)
        /\ events'[k] = Append(events[k], j)
        /\ \A i \in Key : i # k => issues'[i] = issues[i] /\ events'[i] = events[i]
        /\ queue' = queue \ {j} /\ row' = row /\ accepted' = accepted
  BY CommitEffect
<1>2. events' \in [Key -> Seq(Job)] /\ issues' \in [Key -> Issue]
  <2>1. [Next]_vars
    BY DEF Next, WorkerStep
  <2>. QED BY <2>1, InvStep DEF Inv, TypeOK
<1>3. events' = [events EXCEPT ![k] = Append(@, j)]
  BY <1>1, <1>2 DEF Inv, TypeOK
<1>4. issues'[k].status = Ledger!AfterEvent(issues[k].status)
  BY <1>1 DEF Upsert, Ledger!AfterEvent
<1>5. [i \in Key |-> issues'[i].status] =
        [[i \in Key |-> issues[i].status] EXCEPT ![k] = Ledger!AfterEvent(@)]
  BY <1>1, <1>4
<1>6. k # None /\ j \notin Range(events[k])
  BY <1>1, NoneAssumption DEF Inv, NothingLostOrRepeated
<1>7. [i \in Job |-> row[i].key][j] = k
  BY <1>1
<1>8. Ledger!Pending(j)
  BY <1>6, <1>7 DEF Ledger!Pending, Ledger!Recorded, Ledger!Range, Range
<1>9. /\ UNCHANGED [i \in Job |-> row[i].key]
      /\ UNCHANGED accepted
  BY <1>1
<1>. QED BY <1>1, <1>3, <1>5, <1>7, <1>8, <1>9 DEF Ledger!Record

\* Every step is a step of the ledger or leaves its variables unchanged.
LEMMA LedgerStep == Inv /\ [Next]_vars => [Ledger!LedgerNext]_(Ledger!ledgerVars)
<1>. SUFFICES ASSUME Inv, [Next]_vars PROVE [Ledger!LedgerNext]_(Ledger!ledgerVars)
  OBVIOUS
<1>1. ASSUME NEW j \in Job, NEW k \in Key, EnqueueEvent(j, k) PROVE Ledger!Accept(j, k)
  <2>1. row[j].key = None /\ row' = [row EXCEPT ![j] = JobRow(k, 0, clock, 0)]
    BY <1>1 DEF EnqueueEvent, NoRow, JobRow
  <2>2. [i \in Job |-> row'[i].key] = [[i \in Job |-> row[i].key] EXCEPT ![j] = k]
    BY <2>1 DEF Inv, TypeOK, JobRow
  <2>. QED BY <1>1, <2>1, <2>2 DEF EnqueueEvent, Ledger!Accept
<1>2. ASSUME NEW j \in Job, AcceptEvent(j) PROVE Ledger!Acknowledge(j)
  <2>1. row[j].key # None
    BY <1>2 DEF AcceptEvent, Inv, RowsFilled
  <2>. QED BY <1>2, <2>1 DEF AcceptEvent, Ledger!Acknowledge
<1>3. ASSUME NEW k \in Key, NEW s \in Status, UpdateIssueStatus(k, s)
      PROVE  [Ledger!LedgerNext]_(Ledger!ledgerVars)
  <2>1. issues' = [issues EXCEPT ![k] = WithStatus(issues[k], s)] /\ issues[k] \in Issue
    BY <1>3 DEF UpdateIssueStatus, Inv, TypeOK
  <2>2. WithStatus(issues[k], s).status = s
    BY <2>1 DEF WithStatus, Issue
  <2>3. [i \in Key |-> issues'[i].status] = [[i \in Key |-> issues[i].status] EXCEPT ![k] = s]
    BY <2>1, <2>2 DEF Inv, TypeOK
  <2>4. issues[k].status # None
    BY <1>3 DEF UpdateIssueStatus, Inv, IssuesFilled
  <2>5. Ledger!SetStatus(k, s)
    BY <1>3, <2>3, <2>4 DEF UpdateIssueStatus, Ledger!SetStatus
  <2>. QED BY <2>5 DEF Ledger!LedgerNext
<1>4. ASSUME NEW w \in Worker, Reschedule(w) PROVE UNCHANGED Ledger!ledgerVars
  <2>1. \A i \in Job : row'[i].key = row[i].key
    BY <1>4 DEF Reschedule, JobRow, Inv, TypeOK
  <2>. QED BY <1>4, <2>1 DEF Reschedule, Ledger!ledgerVars
<1>5. CASE UNCHANGED <<row, accepted, issues, events>>
  BY <1>5 DEF Ledger!ledgerVars
<1>. QED BY <1>1, <1>2, <1>3, <1>4, <1>5, CommitRecords
     DEF Next, API, vars, Tick, WorkerStep, Begin, ClaimJob, FindNoJob, UpsertIssue,
         ProcessingFails, Abort, Ledger!LedgerNext

\* Every behaviour of the pipeline is a behaviour of the ledger: each event is
\* recorded in one step, on its own issue, reopening it if it is resolved at that
\* very moment, and no status a user sets is overwritten.
THEOREM Refinement == Safety => ImplementsLedger
<1>. QED BY LedgerInitial, LedgerStep, Invariance, PTL
     DEF Safety, ImplementsLedger, Ledger!LedgerSafety

----------------------------------------------------------------------------
(* When an issue was seen, with one worker.                                *)

\* There is at most one worker.
SingleWorker == \A v, w \in Worker : v = w

\* What the database shows was seen in the past; while the only worker is in a
\* transaction nothing is seen later than its NOW(), which is what it will set.
SeenInv ==
  /\ \A k \in Key : /\ issues[k].firstSeen <= issues[k].lastSeen
                    /\ issues[k].lastSeen <= clock
  /\ \A w \in Worker : tx[w].pc # "idle" =>
       /\ tx[w].started <= clock
       /\ \A k \in Key : issues[k].lastSeen <= tx[w].started
  /\ \A w \in Worker : tx[w].pc = "upserted" =>
       /\ tx[w].staged.firstSeen <= tx[w].staged.lastSeen
       /\ tx[w].staged.lastSeen = tx[w].started

LEMMA SeenInit == Init => SeenInv
BY DEF Init, SeenInv, NoIssue, Idle, Tx

\* No step changes when an issue was seen but a commit, which sets what was staged.
LEMMA SeenKept ==
  ASSUME TypeOK, [Next]_vars, \A w \in Worker : ~CommitEvent(w), NEW k \in Key
  PROVE  /\ issues'[k].firstSeen = issues[k].firstSeen
         /\ issues'[k].lastSeen = issues[k].lastSeen
<1>1. ASSUME NEW i \in Key, NEW s \in Status, UpdateIssueStatus(i, s)
      PROVE  /\ issues'[k].firstSeen = issues[k].firstSeen
             /\ issues'[k].lastSeen = issues[k].lastSeen
  BY <1>1 DEF UpdateIssueStatus, WithStatus, TypeOK, Issue
<1>2. CASE UNCHANGED issues
  BY <1>2
<1>. QED BY <1>1, <1>2 DEF Next, API, WorkerStep, EnqueueEvent, AcceptEvent, Begin, ClaimJob,
     FindNoJob, UpsertIssue, ProcessingFails, Reschedule, Abort, Tick, vars

\* Every step of the API, of time and of the only worker keeps the order.
LEMMA SeenStep ==
  ASSUME SingleWorker, Inv, SeenInv, [Next]_vars
  PROVE  /\ SeenInv'
         /\ \A k \in Key : issues[k].lastSeen <= issues'[k].lastSeen
<1>. USE DEF Inv
<1>1. /\ clock \in Nat
      /\ \A k \in Key : issues[k].firstSeen \in Int /\ issues[k].lastSeen \in Int
      /\ \A w \in Worker : tx[w].started \in Int
  BY DEF TypeOK, Issue, Transaction
<1>2. ASSUME NEW w \in Worker, CommitEvent(w)
      PROVE  /\ SeenInv'
             /\ \A k \in Key : issues[k].lastSeen <= issues'[k].lastSeen
  <2>1. PICK i \in Key :
          /\ tx[w].pc = "upserted"
          /\ issues' = [issues EXCEPT ![i] = tx[w].staged]
          /\ tx' = [tx EXCEPT ![w] = Idle]
          /\ clock' = clock
    <3>1. tx[w].pc = "upserted" /\ tx[w].job # None
      BY <1>2 DEF CommitEvent, JobsHeld
    <3>. QED BY <1>2, <3>1, HeldJob DEF CommitEvent
  <2>2. \A v \in Worker : tx'[v].pc = "idle"
    BY <2>1 DEF SingleWorker, TypeOK, Idle, Tx
  <2>3. /\ issues'[i] = tx[w].staged
        /\ \A k \in Key : k # i => issues'[k] = issues[k]
    BY <2>1 DEF TypeOK
  <2>4. /\ tx[w].staged.firstSeen <= tx[w].staged.lastSeen
        /\ tx[w].staged.lastSeen = tx[w].started
        /\ tx[w].started <= clock
        /\ \A k \in Key : issues[k].lastSeen <= tx[w].started
    BY <2>1 DEF SeenInv
  <2>. QED BY <1>1, <2>1, <2>2, <2>3, <2>4 DEF SeenInv
<1>3. ASSUME \A w \in Worker : ~CommitEvent(w)
      PROVE  /\ SeenInv'
             /\ \A k \in Key : issues[k].lastSeen <= issues'[k].lastSeen
  <2>1. \A k \in Key : /\ issues'[k].firstSeen = issues[k].firstSeen
                       /\ issues'[k].lastSeen = issues[k].lastSeen
    BY <1>3, SeenKept
  <2>2. clock' \in Nat /\ clock' >= clock
    BY <1>1, <1>3 DEF Next, API, WorkerStep, EnqueueEvent, AcceptEvent, UpdateIssueStatus, Begin,
       ClaimJob, FindNoJob, UpsertIssue, ProcessingFails, Reschedule, Abort, Tick, vars
  <2>3. ASSUME NEW w \in Worker, tx'[w] = tx[w]
        PROVE  /\ tx'[w].pc # "idle" =>
                    /\ tx'[w].started <= clock'
                    /\ \A k \in Key : issues'[k].lastSeen <= tx'[w].started
               /\ tx'[w].pc = "upserted" =>
                    /\ tx'[w].staged.firstSeen <= tx'[w].staged.lastSeen
                    /\ tx'[w].staged.lastSeen = tx'[w].started
    BY <1>1, <2>1, <2>2, <2>3 DEF SeenInv
  <2>4. ASSUME NEW w \in Worker, WorkerStep(w)
        PROVE  /\ tx'[w].pc # "idle" =>
                    /\ tx'[w].started <= clock'
                    /\ \A k \in Key : issues'[k].lastSeen <= tx'[w].started
               /\ tx'[w].pc = "upserted" =>
                    /\ tx'[w].staged.firstSeen <= tx'[w].staged.lastSeen
                    /\ tx'[w].staged.lastSeen = tx'[w].started
    <3>1. CASE Begin(w)
      <4>1. tx'[w].pc = "begun" /\ tx'[w].started = clock
        BY <3>1 DEF Begin, Tx, TypeOK
      <4>. QED BY <1>1, <2>1, <2>2, <4>1 DEF SeenInv
    <3>2. CASE ClaimJob(w) \/ ProcessingFails(w)
      <4>1. /\ tx[w].pc # "idle" /\ tx'[w].pc # "upserted"
            /\ tx'[w].started = tx[w].started
        BY <3>2 DEF ClaimJob, ProcessingFails, Tx, TypeOK
      <4>. QED BY <1>1, <2>1, <2>2, <4>1 DEF SeenInv
    <3>3. CASE FindNoJob(w) \/ Abort(w) \/ Reschedule(w)
      <4>1. tx'[w].pc = "idle"
        BY <3>3 DEF FindNoJob, Abort, Reschedule, Idle, Tx, TypeOK
      <4>. QED BY <4>1
    <3>4. CASE UpsertIssue(w)
      <4>1. tx[w].pc = "claimed" /\ tx[w].job # None
        BY <3>4 DEF UpsertIssue, JobsHeld
      <4>2. PICK i \in Key :
              tx' = [tx EXCEPT ![w] = Tx("upserted", tx[w].job, tx[w].started,
                                         Upsert(issues[i], tx[w].job, tx[w].started))]
        BY <3>4, <4>1, HeldJob DEF UpsertIssue
      <4>3. /\ tx'[w].started = tx[w].started
            /\ tx'[w].staged = Upsert(issues[i], tx[w].job, tx[w].started)
        BY <4>2 DEF Tx, TypeOK
      <4>4. /\ tx'[w].staged.lastSeen = tx[w].started
            /\ \/ tx'[w].staged.firstSeen = tx[w].started
               \/ tx'[w].staged.firstSeen = issues[i].firstSeen
        BY <4>3 DEF Upsert
      <4>5. /\ tx[w].started <= clock
            /\ \A k \in Key : issues[k].lastSeen <= tx[w].started
            /\ issues[i].firstSeen <= issues[i].lastSeen
        BY <4>1 DEF SeenInv
      <4>. QED BY <1>1, <2>1, <2>2, <4>3, <4>4, <4>5
    <3>. QED BY <1>3, <2>4, <3>1, <3>2, <3>3, <3>4 DEF WorkerStep
  <2>5. \/ UNCHANGED tx
        \/ \E w \in Worker : WorkerStep(w)
    BY DEF Next, API, EnqueueEvent, AcceptEvent, UpdateIssueStatus, Tick, vars
  <2>6. \A w \in Worker : tx'[w] = tx[w] \/ WorkerStep(w)
    BY <2>5 DEF SingleWorker
  <2>. QED BY <1>1, <2>1, <2>2, <2>3, <2>4, <2>6 DEF SeenInv
<1>. QED BY <1>2, <1>3

\* With one worker first_seen is never after last_seen.
THEOREM SeenInOrderCorrect ==
  ASSUME SingleWorker
  PROVE  Safety => []SeenInOrder
<1>1. SeenInv => SeenInOrder
  BY DEF SeenInv, SeenInOrder
<1>2. Inv /\ SeenInv /\ [Next]_vars => SeenInv'
  BY SeenStep
<1>. QED BY <1>1, <1>2, SeenInit, Invariance, PTL DEF Safety

\* With one worker last_seen never goes back: the worker begins a transaction when the
\* one before has ended, and sets the time it began.
THEOREM LastSeenNeverBack ==
  ASSUME SingleWorker
  PROVE  Safety => LastSeenAdvances
<1>1. Inv /\ SeenInv /\ [Next]_vars => SeenInv'
  BY SeenStep
<1>2. Inv /\ SeenInv /\ [Next]_vars => [\A k \in Key : issues[k].lastSeen <= issues'[k].lastSeen]_vars
  BY SeenStep
<1>. QED BY <1>1, <1>2, SeenInit, Invariance, PTL DEF Safety, LastSeenAdvances
=============================================================================
