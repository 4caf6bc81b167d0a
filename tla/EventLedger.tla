---------------------------- MODULE EventLedger ----------------------------
(***************************************************************************)
(* What Faultwing promises about events, without workers, row locks,       *)
(* transactions, retries or clocks.  An event a client sends becomes       *)
(* durable in one step; from then on it is pending until, in one step, it  *)
(* is added to the history of exactly one issue and, if that issue was     *)
(* resolved, reopens it.  A client may be told 202 Accepted only of a      *)
(* durable event.  Users change the status of an issue that exists.        *)
(*                                                                         *)
(* EventJobs is shown to implement this module.                            *)
(***************************************************************************)
EXTENDS Sequences, Functions

CONSTANTS
  Job,      \* the events clients send, by the id of their row in event_jobs
  Key,      \* the identity of an issue: (project_id, fingerprint)
  Status,   \* the statuses a user can give an issue; "open" and "resolved" are two
  None      \* neither a Key nor a Status

VARIABLES
  target,        \* target[j]: the issue event j belongs to, None before it is durable
  acknowledged,  \* the events whose client was answered 202
  history,       \* history[k]: the events recorded for issue k, oldest first
  status         \* status[k]: the issue's status, None while it has no event

ledgerVars == <<target, acknowledged, history, status>>

LedgerTypeOK ==
  /\ target \in [Job -> Key \cup {None}]
  /\ acknowledged \subseteq Job
  /\ history \in [Key -> Seq(Job)]
  /\ status \in [Key -> Status \cup {None}]

LedgerInit ==
  /\ target = [j \in Job |-> None]
  /\ acknowledged = {}
  /\ history = [k \in Key |-> <<>>]
  /\ status = [k \in Key |-> None]

\* Recorded(k): the events in the history of issue k.
Recorded(k) == Range(history[k])

\* Pending(j): event j is durable and in no history yet.
Pending(j) == target[j] # None /\ j \notin Recorded(target[j])

\* The status of an issue after one more event: new issues are open,
\* resolved ones reopen, ignored ones stay ignored.
AfterEvent(s) == IF s \in {None, "resolved"} THEN "open" ELSE s

Accept(j, k) ==
  /\ target[j] = None
  /\ target' = [target EXCEPT ![j] = k]
  /\ UNCHANGED <<acknowledged, history, status>>

Acknowledge(j) ==
  /\ target[j] # None
  /\ acknowledged' = acknowledged \cup {j}
  /\ UNCHANGED <<target, history, status>>

Record(j) ==
  /\ Pending(j)
  /\ history' = [history EXCEPT ![target[j]] = Append(@, j)]
  /\ status' = [status EXCEPT ![target[j]] = AfterEvent(@)]
  /\ UNCHANGED <<target, acknowledged>>

SetStatus(k, s) ==
  /\ status[k] # None
  /\ status' = [status EXCEPT ![k] = s]
  /\ UNCHANGED <<target, acknowledged, history>>

LedgerNext ==
  \/ \E j \in Job : (\E k \in Key : Accept(j, k)) \/ Acknowledge(j) \/ Record(j)
  \/ \E k \in Key, s \in Status : SetStatus(k, s)

LedgerSafety == LedgerInit /\ [][LedgerNext]_ledgerVars

\* Every pending event is eventually recorded.
LedgerSpec == LedgerSafety /\ \A j \in Job : WF_ledgerVars(Record(j))
=============================================================================
