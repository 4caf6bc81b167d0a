---------------------------- MODULE RateLimiter ----------------------------
(***************************************************************************)
(* The token bucket in front of event ingestion, one per project, shared   *)
(* by all request goroutines of an API process                             *)
(* (internal/middleware/ratelimit.go).  A request takes its time stamp     *)
(* before it waits for the mutex, so buckets may see time go backwards.    *)
(*                                                                         *)
(* Time is counted in ticks, Second of them to a second.  Tokens are       *)
(* counted in units of 1/Minute of a token, so that one tick refills       *)
(* exactly EventsPerMinute units: the float64 arithmetic of the code is    *)
(* modelled as exact.                                                      *)
(***************************************************************************)
EXTENDS Integers, FiniteSets, Functions

CONSTANTS
  Project,          \* authenticated projects
  Request,          \* requests to POST /api/v1/events
  EventsPerMinute,  \* EVENT_RATE_LIMIT_PER_MINUTE
  Burst,            \* EVENT_RATE_LIMIT_BURST
  Second,           \* ticks in a second
  MaxTime,          \* bound: the clock's last tick
  None              \* no bucket, no project

\* config.positiveInt accepts nothing below 1.
ASSUME RateAssumption ==
  EventsPerMinute \in Nat \ {0} /\ Burst \in Nat \ {0} /\ Second \in Nat \ {0}
ASSUME RequestAssumption == IsFiniteSet(Request)
ASSUME LimiterBoundAssumption == MaxTime \in Nat
ASSUME LimiterNoneAssumption == None \notin Project /\ None \notin Request /\ None \notin Int

VARIABLES
  clock,    \* the monotonic clock of the process
  buckets,  \* buckets[p]: the bucket of project p, or NoBucket
  request,  \* request[r]: what has become of request r
  latest    \* latest[p]: the request of p decided last (history)

limiterVars == <<clock, buckets, request, latest>>

Minute == 60 * Second

Bucket == [tokens : Int, lastRefill : Int]

NoBucket == [tokens |-> None, lastRefill |-> None]

Req(project, stamp, verdict, retryAfter) ==
  [project |-> project, stamp |-> stamp, verdict |-> verdict, retryAfter |-> retryAfter]

LimiterTypeOK ==
  /\ clock \in Nat
  /\ buckets \in [Project -> Bucket \cup {NoBucket}]
  /\ request \in [Request -> [project : Project \cup {None}, stamp : Nat,
                              verdict : {"none", "waiting", "allowed", "rejected"},
                              retryAfter : Nat]]
  /\ \A r \in Request : request[r].project = None <=> request[r].verdict = "none"
  /\ latest \in [Project -> Request \cup {None}]

LimiterInit ==
  /\ clock = 0
  /\ buckets = [p \in Project |-> NoBucket]
  /\ request = [r \in Request |-> Req(None, 0, "none", 0)]
  /\ latest = [p \in Project |-> None]

----------------------------------------------------------------------------
(* Buckets.                                                                *)

Least(a, b) == IF a <= b THEN a ELSE b
Greatest(a, b) == IF a >= b THEN a ELSE b
CeilDiv(a, b) == -((-a) \div b)

\* A project's first request makes it a full bucket.
BucketAt(p, now) ==
  IF buckets[p] = NoBucket THEN [tokens |-> Burst * Minute, lastRefill |-> now]
  ELSE buckets[p]

\* Mutant: a stamp older than the last refill takes nothing back, though the last
\* refill is set back to it.
Refilled_NotNegative(bucket, now) ==
  Least(Burst * Minute,
        bucket.tokens + EventsPerMinute * Greatest(now - bucket.lastRefill, 0))

\* The tokens at time now, which may be before the last refill.
Refilled(bucket, now) ==
  Least(Burst * Minute, bucket.tokens + EventsPerMinute * (now - bucket.lastRefill))

\* Mutant: the seconds are rounded down.
RetryAfter_Floor(tokens) ==
  Greatest(1, (Minute - tokens) \div (EventsPerMinute * Second))

\* The whole seconds until a bucket with these tokens has one.
RetryAfter(tokens) ==
  Greatest(1, CeilDiv(Minute - tokens, EventsPerMinute * Second))

----------------------------------------------------------------------------
(* Requests.                                                               *)

\* Mutant: a request that lost its project on the way is let in.
Arrive_NoProject(r, p) ==
  /\ request[r].verdict = "none"
  /\ request' = [request EXCEPT ![r] = Req(None, clock, "waiting", 0)]
  /\ UNCHANGED <<clock, buckets, latest>>

\* The stamp is taken; the request now waits for the mutex.
Arrive(r, p) ==
  /\ request[r].verdict = "none"
  /\ request' = [request EXCEPT ![r] = Req(p, clock, "waiting", 0)]
  /\ UNCHANGED <<clock, buckets, latest>>

\* Mutant: a rejection also takes a token, into debt.
Allow_ChargesRejected(r) ==
  LET p == request[r].project
      now == request[r].stamp
      tokens == Refilled(BucketAt(p, now), now)
      ok == tokens >= Minute
  IN /\ request[r].verdict = "waiting"
     /\ buckets' = [buckets EXCEPT ![p] = [tokens |-> tokens - Minute, lastRefill |-> now]]
     /\ request' = [request EXCEPT ![r] = Req(p, now, IF ok THEN "allowed" ELSE "rejected",
                                              IF ok THEN 0 ELSE RetryAfter(tokens))]
     /\ latest' = [latest EXCEPT ![p] = r]
     /\ UNCHANGED clock

\* allow, with the mutex held from beginning to end.
Allow(r) ==
  LET p == request[r].project
      now == request[r].stamp
      tokens == Refilled(BucketAt(p, now), now)
      ok == tokens >= Minute
  IN /\ request[r].verdict = "waiting"
     /\ buckets' = [buckets EXCEPT ![p] =
                     [tokens |-> IF ok THEN tokens - Minute ELSE tokens, lastRefill |-> now]]
     /\ request' = [request EXCEPT ![r] = Req(p, now, IF ok THEN "allowed" ELSE "rejected",
                                              IF ok THEN 0 ELSE RetryAfter(tokens))]
     /\ latest' = [latest EXCEPT ![p] = r]
     /\ UNCHANGED clock

ClockTick ==
  /\ clock < MaxTime
  /\ clock' = clock + 1
  /\ UNCHANGED <<buckets, request, latest>>

LimiterNext ==
  \/ \E r \in Request : (\E p \in Project : Arrive(r, p)) \/ Allow(r)
  \/ ClockTick

LimiterSpec == LimiterInit /\ [][LimiterNext]_limiterVars

----------------------------------------------------------------------------
(* Properties.                                                             *)

AllowedIn(p, from, to) ==
  {r \in Request : /\ request[r].project = p
                   /\ request[r].verdict = "allowed"
                   /\ request[r].stamp \in from .. to}

\* However requests race for the mutex, a project never gets more through in any
\* stretch of time than its burst and what that time refills.
WindowBound ==
  \A p \in Project : \A from, to \in 0 .. clock :
    from <= to =>
      Cardinality(AllowedIn(p, from, to)) * Minute
        <= Burst * Minute + EventsPerMinute * (to - from)

\* No mix of rejections and late stamps locks a project out: at every moment, if it
\* sends nothing for the time one token takes, its next request is allowed.
NeverLockedOut ==
  \A p \in Project :
    Refilled(BucketAt(p, clock), clock + CeilDiv(Minute, EventsPerMinute)) >= Minute

\* Retry-After is right: one request of the project, sent when it says, is allowed
\* if no other came in between; and no whole second earlier would have been enough.
RetryAfterExact ==
  \A p \in Project :
    latest[p] # None /\ request[latest[p]].verdict = "rejected" =>
      LET now == request[latest[p]].stamp
          wait == request[latest[p]].retryAfter
      IN /\ Refilled(buckets[p], now + wait * Second) >= Minute
         /\ wait > 1 => Refilled(buckets[p], now + (wait - 1) * Second) < Minute
=============================================================================
