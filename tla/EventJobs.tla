----------------------------- MODULE EventJobs -----------------------------
(***************************************************************************)
(* The durable event pipeline: the API inserts one row of event_jobs per   *)
(* event and answers 202 (internal/database/event_jobs.go, EnqueueEvent);  *)
(* any number of workers claim rows with FOR UPDATE SKIP LOCKED, upsert    *)
(* the issue and insert the event under a savepoint, and delete the row,   *)
(* all in one PostgreSQL transaction (ProcessNextEventJob, createEvent);   *)
(* users change the status of issues meanwhile (UpdateIssueStatus).        *)
(*                                                                         *)
(* PostgreSQL is modelled as this code uses it, under READ COMMITTED: what *)
(* a transaction wrote is seen by others from its commit on; a row it      *)
(* wrote or locked stays locked until its commit or rollback, or the       *)
(* rollback to a savepoint set before the write; NOW() is the time the     *)
(* transaction began.  Writes no other transaction can see or wait for     *)
(* (the event row, the NOTIFY, the DELETE of the job the transaction has   *)
(* locked) take effect in CommitEvent, the step that publishes them.       *)
(***************************************************************************)
EXTENDS Integers, Sequences, SequencesExt

CONSTANTS
  Worker,       \* worker processes, or goroutines running Processor.Run
  Job,          \* ids of event_jobs rows (BIGSERIAL)
  Key,          \* (project_id, fingerprint): what UNIQUE identifies an issue by
  Skew,         \* worker clock minus database clock, in seconds: possible values
  MaxTime,      \* bound: time does not pass beyond it unless a job waits for it
  MaxAttempts,  \* bound: how often the processing of one job may fail
  None          \* no job, no issue

ASSUME JobAssumption == Job \subseteq Nat
ASSUME SkewAssumption == Skew \subseteq Int
ASSUME BoundAssumption == MaxTime \in Nat /\ MaxAttempts \in Nat
ASSUME NoneAssumption ==
  /\ None \notin Job
  /\ None \notin Key
  /\ None \notin {"open", "resolved", "ignored"}

VARIABLES
  clock,     \* the database's clock, in seconds
  queue,     \* the ids of the rows of event_jobs
  row,       \* row[j]: the columns of row j; once deleted, what they last were
  accepted,  \* the jobs whose client was answered 202 Accepted
  issues,    \* issues[k]: the row of table issues, or NoIssue
  events,    \* events[k]: the rows of table events for issue k, by their job
  tx         \* tx[w]: the transaction worker w is in, or Idle

vars == <<clock, queue, row, accepted, issues, events, tx>>

Status == {"open", "resolved", "ignored"}

NoIssue == [count |-> 0, status |-> None, resolvedAt |-> FALSE,
            firstSeen |-> 0, lastSeen |-> 0, sample |-> None]

\* A row of issues.  resolvedAt says whether resolved_at IS NOT NULL; sample is
\* the job whose exception_type, message and stacktrace the row carries.
Issue == [count : Nat, status : Status \cup {None}, resolvedAt : BOOLEAN,
          firstSeen : Int, lastSeen : Int, sample : Job \cup {None}]

JobRow(key, attempts, availableAt, failedAt) ==
  [key |-> key, attempts |-> attempts, availableAt |-> availableAt, failedAt |-> failedAt]

NoRow == JobRow(None, 0, 0, 0)

\* A row of event_jobs.  failedAt is a history variable: when, by the database's
\* clock, the last failed attempt ended.
Row == [key : Key \cup {None}, attempts : Nat, availableAt : Int, failedAt : Int]

Tx(pc, job, started, staged) ==
  [pc |-> pc, job |-> job, started |-> started, staged |-> staged]

Idle == Tx("idle", None, 0, NoIssue)

\* started is NOW() in the transaction; staged is the issue row it has written.
Transaction ==
  [pc : {"idle", "begun", "claimed", "upserted", "failed"},
   job : Job \cup {None}, started : Int, staged : Issue]

TypeOK ==
  /\ clock \in Nat
  /\ queue \subseteq Job
  /\ row \in [Job -> Row]
  /\ accepted \subseteq Job
  /\ issues \in [Key -> Issue]
  /\ events \in [Key -> Seq(Job)]
  /\ tx \in [Worker -> Transaction]

Init ==
  /\ clock = 0
  /\ queue = {}
  /\ row = [j \in Job |-> NoRow]
  /\ accepted = {}
  /\ issues = [k \in Key |-> NoIssue]
  /\ events = [k \in Key |-> <<>>]
  /\ tx = [w \in Worker |-> Idle]

----------------------------------------------------------------------------
(* The API: POST /api/events and PATCH /api/issues/{id}.                   *)

\* Mutant: the claim does not lock the row.
JobLocked_Never(j) == FALSE

\* The job whose row worker w has locked is its tx[w].job.
JobLocked(j) == \E w \in Worker : tx[w].job = j

\* Mutant: writing an issue does not lock it.
IssueFree_Always(k) == TRUE

\* The issue row is locked from the upsert to the end of the transaction.
IssueFree(k) == \A w \in Worker : tx[w].pc = "upserted" => row[tx[w].job].key # k

\* Mutant: available_at has no default.
EnqueueEvent_NoDefault(j, k) ==
  /\ row[j] = NoRow
  /\ queue' = queue \cup {j}
  /\ row' = [row EXCEPT ![j] = JobRow(k, 0, None, 0)]
  /\ UNCHANGED <<clock, accepted, issues, events, tx>>

\* Ids come from a sequence, so rows need not appear in the order of their ids.
EnqueueEvent(j, k) ==
  /\ row[j] = NoRow
  /\ queue' = queue \cup {j}
  /\ row' = [row EXCEPT ![j] = JobRow(k, 0, clock, 0)]
  /\ UNCHANGED <<clock, accepted, issues, events, tx>>

\* The 202 is written after the insert has returned.  It may never be: the API
\* may stop, or the client may have given up.
AcceptEvent(j) ==
  /\ row[j] # NoRow
  /\ accepted' = accepted \cup {j}
  /\ UNCHANGED <<clock, queue, row, issues, events, tx>>

WithStatus(issue, s) ==
  [issue EXCEPT !.status = s, !.resolvedAt = (s = "resolved")]

\* Mutant: the row is read, changed and written without waiting for its lock.
UpdateIssueStatus_NoWait(k, s) ==
  /\ issues[k] # NoIssue
  /\ issues' = [issues EXCEPT ![k] = WithStatus(@, s)]
  /\ UNCHANGED <<clock, queue, row, accepted, events, tx>>

\* The UPDATE waits for a worker that has written the row, then applies to the
\* row that worker committed.
UpdateIssueStatus(k, s) ==
  /\ issues[k] # NoIssue
  /\ IssueFree(k)
  /\ issues' = [issues EXCEPT ![k] = WithStatus(@, s)]
  /\ UNCHANGED <<clock, queue, row, accepted, events, tx>>

----------------------------------------------------------------------------
(* Worker w: one call of ProcessNextEventJob after another.                *)

\* Mutant: times are taken from the worker's clock.
Begin_WorkerClock(w) ==
  /\ tx[w].pc = "idle"
  /\ \E skew \in Skew :
       tx' = [tx EXCEPT ![w] = Tx("begun", None, clock + skew, NoIssue)]
  /\ UNCHANGED <<clock, queue, row, accepted, issues, events>>

Begin(w) ==
  /\ tx[w].pc = "idle"
  /\ tx' = [tx EXCEPT ![w] = Tx("begun", None, clock, NoIssue)]
  /\ UNCHANGED <<clock, queue, row, accepted, issues, events>>

\* Mutant: a job that failed once is never claimed again.
Claimable_NoRetry(w, j) ==
  /\ j \in queue
  /\ ~JobLocked(j)
  /\ row[j].availableAt <= tx[w].started
  /\ row[j].attempts = 0

\* WHERE available_at <= NOW() ... FOR UPDATE SKIP LOCKED
Claimable(w, j) ==
  /\ j \in queue
  /\ ~JobLocked(j)
  /\ row[j].availableAt <= tx[w].started

\* ORDER BY available_at, id
Before(i, j) ==
  \/ row[i].availableAt < row[j].availableAt
  \/ row[i].availableAt = row[j].availableAt /\ i <= j

ClaimJob(w) ==
  /\ tx[w].pc = "begun"
  /\ \E j \in Job :
       /\ Claimable(w, j)
       /\ \A i \in Job : Claimable(w, i) => Before(j, i)
       /\ tx' = [tx EXCEPT ![w] = Tx("claimed", j, tx[w].started, NoIssue)]
  /\ UNCHANGED <<clock, queue, row, accepted, issues, events>>

\* No row: the transaction is rolled back and the worker polls again later.
FindNoJob(w) ==
  /\ tx[w].pc = "begun"
  /\ \A j \in Job : ~Claimable(w, j)
  /\ tx' = [tx EXCEPT ![w] = Idle]
  /\ UNCHANGED <<clock, queue, row, accepted, issues, events>>

\* Mutant: reopening leaves resolved_at set.
Upsert_KeepResolvedAt(issue, j, now) ==
  [count |-> issue.count + 1,
   status |-> IF issue.status \in {None, "resolved"} THEN "open" ELSE issue.status,
   resolvedAt |-> issue.resolvedAt,
   firstSeen |-> IF issue = NoIssue THEN now ELSE issue.firstSeen,
   lastSeen |-> now,
   sample |-> j]

\* Mutant: the issue keeps the message of its first event.
Upsert_KeepSample(issue, j, now) ==
  [count |-> issue.count + 1,
   status |-> IF issue.status \in {None, "resolved"} THEN "open" ELSE issue.status,
   resolvedAt |-> issue.resolvedAt /\ issue.status # "resolved",
   firstSeen |-> IF issue = NoIssue THEN now ELSE issue.firstSeen,
   lastSeen |-> now,
   sample |-> IF issue = NoIssue THEN j ELSE issue.sample]

\* INSERT INTO issues ... ON CONFLICT DO UPDATE, by job j in a transaction that
\* began at time now: a new issue is open, a resolved one is reopened.
Upsert(issue, j, now) ==
  [count |-> issue.count + 1,
   status |-> IF issue.status \in {None, "resolved"} THEN "open" ELSE issue.status,
   resolvedAt |-> issue.resolvedAt /\ issue.status # "resolved",
   firstSeen |-> IF issue = NoIssue THEN now ELSE issue.firstSeen,
   lastSeen |-> now,
   sample |-> j]

\* Waits while another transaction has written the row, or inserted its key.
UpsertIssue(w) ==
  LET j == tx[w].job
      k == row[j].key
  IN /\ tx[w].pc = "claimed"
     /\ IssueFree(k)
     /\ tx' = [tx EXCEPT ![w] = Tx("upserted", j, tx[w].started,
                                   Upsert(issues[k], j, tx[w].started))]
     /\ UNCHANGED <<clock, queue, row, accepted, issues, events>>

\* The event, the NOTIFY and the DELETE succeeded: the savepoint and then the
\* transaction commit.  An error reported for a commit that did take place is
\* this step too: the worker forgets the transaction either way.
CommitEvent(w) ==
  LET j == tx[w].job
      k == row[j].key
  IN /\ tx[w].pc = "upserted"
     /\ issues' = [issues EXCEPT ![k] = tx[w].staged]
     /\ events' = [events EXCEPT ![k] = Append(@, j)]
     /\ queue' = queue \ {j}
     /\ tx' = [tx EXCEPT ![w] = Idle]
     /\ UNCHANGED <<clock, row, accepted>>

\* A statement of createEvent, the NOTIFY or the DELETE fails: rolling back to
\* the savepoint undoes the upsert and releases the issue, not the job.
ProcessingFails(w) ==
  /\ tx[w].pc \in {"claimed", "upserted"}
  /\ row[tx[w].job].attempts < MaxAttempts
  /\ tx' = [tx EXCEPT ![w] = Tx("failed", tx[w].job, tx[w].started, NoIssue)]
  /\ UNCHANGED <<clock, queue, row, accepted, issues, events>>

Least(a, b) == IF a <= b THEN a ELSE b

\* eventJobRetryDelay, in seconds; 300 is maxEventJobRetryDelay.
RetryDelay(attempt) == Least(2 ^ Least(attempt - 1, 9), 300)

\* Mutant: a failed job is available again at once.
Reschedule_AtOnce(w) ==
  /\ tx[w].pc = "failed"
  /\ LET j == tx[w].job
     IN row' = [row EXCEPT ![j] =
                 JobRow(row[j].key, row[j].attempts + 1, row[j].availableAt, clock)]
  /\ tx' = [tx EXCEPT ![w] = Idle]
  /\ UNCHANGED <<clock, queue, accepted, issues, events>>

\* retryAt is computed with the worker's clock and compared, in Claimable, with
\* the database's.
Reschedule(w) ==
  LET j == tx[w].job
      attempts == row[j].attempts + 1
  IN /\ tx[w].pc = "failed"
     /\ \E skew \in Skew :
          row' = [row EXCEPT ![j] =
                   JobRow(row[j].key, attempts, clock + skew + RetryDelay(attempts), clock)]
     /\ tx' = [tx EXCEPT ![w] = Idle]
     /\ UNCHANGED <<clock, queue, accepted, issues, events>>

\* The worker stops, its context is cancelled, its connection breaks, or BEGIN,
\* SAVEPOINT, ROLLBACK TO or COMMIT fails: the database rolls everything back.
Abort(w) ==
  /\ tx[w].pc # "idle"
  /\ tx' = [tx EXCEPT ![w] = Idle]
  /\ UNCHANGED <<clock, queue, row, accepted, issues, events>>

----------------------------------------------------------------------------

Tick ==
  /\ clock < MaxTime \/ \E j \in queue : row[j].availableAt > clock
  /\ clock' = clock + 1
  /\ UNCHANGED <<queue, row, accepted, issues, events, tx>>

API ==
  \/ \E j \in Job : (\E k \in Key : EnqueueEvent(j, k)) \/ AcceptEvent(j)
  \/ \E k \in Key, s \in Status : UpdateIssueStatus(k, s)

WorkerStep(w) ==
  \/ Begin(w) \/ ClaimJob(w) \/ FindNoJob(w) \/ UpsertIssue(w) \/ CommitEvent(w)
  \/ ProcessingFails(w) \/ Reschedule(w) \/ Abort(w)

Next == API \/ Tick \/ \E w \in Worker : WorkerStep(w)

Safety == Init /\ [][Next]_vars

\* Processor.Run never stops calling ProcessNextEventJob, and a call goes on as
\* long as it can; time passes.  Strong fairness, because another worker may
\* lock the issue again and again, and because a worker may be stopped and
\* started again: it is not stopped at every single attempt.
Fairness ==
  /\ WF_vars(Tick)
  /\ \A w \in Worker :
       /\ WF_vars(Begin(w))
       /\ SF_vars(ClaimJob(w))
       /\ WF_vars(FindNoJob(w))
       /\ SF_vars(UpsertIssue(w))
       /\ SF_vars(CommitEvent(w))
       /\ SF_vars(Reschedule(w))

Spec == Safety /\ Fairness

----------------------------------------------------------------------------
(* Properties.                                                             *)

\* Whatever workers do, fail at or crash in, an event that was sent is either
\* still a job or has become one event of its own project and fingerprint:
\* never both, never two, never none.  A 202 was answered only for such events.
NothingLostOrRepeated ==
  /\ \A k \in Key :
       /\ IsInjective(events[k])
       /\ Range(events[k]) = {j \in Job : row[j].key = k} \ queue
  /\ accepted \cup queue \subseteq {j \in Job : row[j].key \in Key}

\* event_count, which the upsert maintains by adding one, is the number of
\* events of the issue, with any number of workers on the same issue.
CountIsEvents == \A k \in Key : issues[k].count = Len(events[k])

\* The message and stack trace an issue shows are those of its latest event:
\* upserts take effect in the order in which their transactions commit.
SampleIsLatest ==
  \A k \in Key : events[k] # <<>> => issues[k].sample = Last(events[k])

\* resolved_at is set exactly while the status is resolved, though the upsert
\* and PATCH each maintain the two columns in their own way.
ResolvedAtIffResolved ==
  \A k \in Key : issues[k].resolvedAt <=> issues[k].status = "resolved"

\* An attempt at a job begins no sooner after a failed one than eventJobRetryDelay
\* says, up to how far the worker's clock differs from the database's.
BackoffRespected ==
  \A w \in Worker :
    LET job == row[tx[w].job]
    IN tx[w].job # None /\ job.attempts > 0 =>
         \E skew \in Skew :
           tx[w].started >= job.failedAt + skew + RetryDelay(job.attempts)

\* Two workers in a transaction never hold the same job, nor write one issue.
RowLocksExclude ==
  \A v, w \in Worker : v # w /\ tx[v].job # None /\ tx[w].job # None =>
    /\ tx[v].job # tx[w].job
    /\ tx[v].pc = "upserted" /\ tx[w].pc = "upserted" =>
         row[tx[v].job].key # row[tx[w].job].key

\* What the upsert wrote is still one event more than the committed row when it
\* commits: no PATCH and no other worker got between the upsert and the commit.
StagedIsCurrent ==
  \A w \in Worker : tx[w].pc = "upserted" =>
    tx[w].staged = Upsert(issues[row[tx[w].job].key], tx[w].job, tx[w].started)

\* When an issue is seen: first_seen is never after last_seen, and last_seen
\* never goes back.  Both hold with one worker; see README for two.
SeenInOrder ==
  \A k \in Key : issues[k].firstSeen <= issues[k].lastSeen

LastSeenAdvances ==
  [][\A k \in Key : issues[k].lastSeen <= issues'[k].lastSeen]_vars

\* The pipeline implements the ledger: commits are the Record steps, and all that
\* workers do besides is invisible.
Ledger == INSTANCE EventLedger WITH
  target <- [j \in Job |-> row[j].key],
  acknowledged <- accepted,
  history <- events,
  status <- [k \in Key |-> issues[k].status]

ImplementsLedger == Ledger!LedgerSafety

\* ... and, when workers keep being restarted, every pending event is recorded.
EveryEventRecorded == Ledger!LedgerSpec
=============================================================================
