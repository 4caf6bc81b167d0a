------------------------- MODULE RateLimiterProofs -------------------------
(***************************************************************************)
(* Proofs about RateLimiter, for every rate, burst and number of requests. *)
(*                                                                         *)
(* Each call of allow lowers tokens - EventsPerMinute * lastRefill by one  *)
(* token if it allows the request, and never raises it, whatever the order *)
(* of the stamps.  Just before the first request allowed in a window that  *)
(* quantity is at most the full bucket's at the window's start, and just   *)
(* after the last one tokens is not negative: so the window's requests are *)
(* bounded.  WindowPotential is the inductive form of this argument.       *)
(***************************************************************************)
EXTENDS RateLimiter, FiniteSetTheorems, TLAPS

\* Stamps were taken in the past.
StampsPast == \A r \in Request : request[r].stamp \in 0 .. clock

\* A bucket is never above its burst and, seen from now, never in debt.
BucketsBounded ==
  \A p \in Project : buckets[p] # NoBucket =>
    /\ buckets[p].tokens <= Burst * Minute
    /\ buckets[p].tokens + EventsPerMinute * (clock - buckets[p].lastRefill) >= 0

\* n allowed requests in a window leave so many tokens at most.
Within(p, from, to, n) ==
  n > 0 => /\ buckets[p] # NoBucket
           /\ n * Minute + buckets[p].tokens - EventsPerMinute * buckets[p].lastRefill
                <= Burst * Minute - EventsPerMinute * from
           /\ n * Minute <= Burst * Minute + EventsPerMinute * (to - from)

WindowPotential ==
  \A p \in Project : \A from, to \in Nat :
    Within(p, from, to, Cardinality(AllowedIn(p, from, to)))

LimiterInv == LimiterTypeOK /\ StampsPast /\ BucketsBounded /\ WindowPotential

----------------------------------------------------------------------------
(* Arithmetic.                                                             *)

LEMMA Constants ==
  /\ EventsPerMinute \in Nat /\ EventsPerMinute > 0
  /\ Burst \in Nat /\ Burst > 0
  /\ Minute \in Nat /\ Minute > 0
  /\ Burst * Minute \in Nat
BY RateAssumption DEF Minute

LEMMA Distribute ==
  ASSUME NEW a \in Int, NEW b \in Int, NEW c \in Int
  PROVE  a * (b - c) = a * b - a * c /\ a * (b + c) = a * b + a * c
OBVIOUS

LEMMA ProductNat ==
  ASSUME NEW a \in Nat, NEW b \in Nat
  PROVE  a * b \in Nat
OBVIOUS

\* A refill makes a number of tokens, at most the burst.
LEMMA RefilledBound ==
  ASSUME NEW b \in Bucket, NEW t \in Int
  PROVE  /\ Refilled(b, t) \in Int
         /\ Refilled(b, t) <= Burst * Minute
         /\ Refilled(b, t) <= b.tokens + EventsPerMinute * t - EventsPerMinute * b.lastRefill
         /\ \/ Refilled(b, t) = Burst * Minute
            \/ Refilled(b, t) = b.tokens + EventsPerMinute * t - EventsPerMinute * b.lastRefill
<1>1. b.tokens \in Int /\ b.lastRefill \in Int
  BY DEF Bucket
<1>2. EventsPerMinute * (t - b.lastRefill) =
        EventsPerMinute * t - EventsPerMinute * b.lastRefill
  BY <1>1, Constants, Distribute
<1>3. EventsPerMinute * t \in Int /\ EventsPerMinute * b.lastRefill \in Int
  BY <1>1, Constants
<1>. QED BY <1>1, <1>2, <1>3, Constants DEF Refilled, Least

LEMMA RefilledAbove ==
  ASSUME NEW b \in Bucket, NEW t \in Int,
         b.tokens + EventsPerMinute * (t - b.lastRefill) >= Minute
  PROVE  Refilled(b, t) >= Minute
<1>1. Burst * Minute >= Minute
  BY Constants
<1>. QED BY <1>1 DEF Refilled, Least

LEMMA BucketAtType ==
  ASSUME LimiterTypeOK, NEW p \in Project, NEW t \in Int
  PROVE  BucketAt(p, t) \in Bucket
BY Constants DEF LimiterTypeOK, BucketAt, Bucket

----------------------------------------------------------------------------
(* What a call of allow does to the requests of a window.                  *)

LEMMA AllowedFinite ==
  ASSUME NEW p, NEW from, NEW to
  PROVE  /\ IsFiniteSet(AllowedIn(p, from, to))
         /\ Cardinality(AllowedIn(p, from, to)) \in Nat
<1>1. AllowedIn(p, from, to) \subseteq Request
  BY DEF AllowedIn
<1>. QED BY <1>1, RequestAssumption, FS_Subset, FS_CardinalityType

\* A verdict adds its own request to the windows it is in, if it allows it.
LEMMA AllowCounts ==
  ASSUME LimiterTypeOK, NEW r \in Request, Allow(r),
         NEW p \in Project, NEW from \in Nat, NEW to \in Nat
  PROVE  Cardinality(AllowedIn(p, from, to))' =
           IF /\ request'[r].verdict = "allowed"
              /\ request[r].project = p
              /\ request[r].stamp \in from .. to
           THEN Cardinality(AllowedIn(p, from, to)) + 1
           ELSE Cardinality(AllowedIn(p, from, to))
<1>1. /\ request[r].verdict = "waiting"
      /\ request'[r].project = request[r].project
      /\ request'[r].stamp = request[r].stamp
      /\ \A q \in Request : q # r => request'[q] = request[q]
  BY DEF Allow, Req, LimiterTypeOK
<1>2. r \notin AllowedIn(p, from, to)
  BY <1>1 DEF AllowedIn
<1>3. CASE /\ request'[r].verdict = "allowed"
           /\ request[r].project = p
           /\ request[r].stamp \in from .. to
  <2>1. AllowedIn(p, from, to)' = AllowedIn(p, from, to) \cup {r}
    BY <1>1, <1>3 DEF AllowedIn
  <2>. QED BY <1>2, <1>3, <2>1, AllowedFinite, FS_AddElement
<1>4. CASE ~ /\ request'[r].verdict = "allowed"
             /\ request[r].project = p
             /\ request[r].stamp \in from .. to
  <2>1. AllowedIn(p, from, to)' = AllowedIn(p, from, to)
    BY <1>1, <1>4 DEF AllowedIn
  <2>. QED BY <1>4, <2>1
<1>. QED BY <1>3, <1>4

\* What a call of allow does to its bucket: the refill, less one token if allowed.
LEMMA AllowBucket ==
  ASSUME LimiterTypeOK, NEW r \in Request, Allow(r)
  PROVE  \E p \in Project, b \in Bucket : \E tokens \in Int :
           /\ request[r].project = p /\ request[r].verdict = "waiting"
           /\ request[r].stamp \in Nat
           /\ b = BucketAt(p, request[r].stamp)
           /\ tokens = Refilled(b, request[r].stamp)
           /\ buckets' = [buckets EXCEPT ![p] =
                           [tokens |-> IF tokens >= Minute THEN tokens - Minute ELSE tokens,
                            lastRefill |-> request[r].stamp]]
           /\ request'[r].verdict = IF tokens >= Minute THEN "allowed" ELSE "rejected"
           /\ request'[r].project = p
           /\ request'[r].stamp = request[r].stamp
           /\ request'[r].retryAfter = IF tokens >= Minute THEN 0 ELSE RetryAfter(tokens)
           /\ clock' = clock
<1>. DEFINE p == request[r].project
            now == request[r].stamp
            b == BucketAt(p, now)
            tokens == Refilled(b, now)
<1>1. request[r].verdict = "waiting" /\ p \in Project /\ now \in Nat
  BY DEF Allow, LimiterTypeOK
<1>2. b \in Bucket
  BY <1>1, BucketAtType
<1>3. tokens \in Int
  BY <1>1, <1>2, RefilledBound
<1>4. buckets' = [buckets EXCEPT ![p] =
                   [tokens |-> IF tokens >= Minute THEN tokens - Minute ELSE tokens,
                    lastRefill |-> now]]
  BY DEF Allow
<1>5. /\ request'[r].verdict = IF tokens >= Minute THEN "allowed" ELSE "rejected"
      /\ request'[r].project = p /\ request'[r].stamp = now
      /\ request'[r].retryAfter = IF tokens >= Minute THEN 0 ELSE RetryAfter(tokens)
  BY DEF Allow, Req, LimiterTypeOK
<1>6. clock' = clock
  BY DEF Allow
<1>. HIDE DEF tokens, b
<1>7. b = BucketAt(p, now) /\ tokens = Refilled(b, now)
  BY DEF b, tokens
<1>. QED BY <1>1, <1>2, <1>3, <1>4, <1>5, <1>6, <1>7

----------------------------------------------------------------------------
(* The invariant.                                                          *)

LEMMA LimiterInvInit == LimiterInit => LimiterInv
<1>. SUFFICES ASSUME LimiterInit PROVE LimiterInv
  OBVIOUS
<1>1. LimiterTypeOK /\ StampsPast
  BY LimiterNoneAssumption DEF LimiterInit, LimiterTypeOK, StampsPast, Req
<1>2. BucketsBounded
  BY DEF LimiterInit, BucketsBounded
<1>3. WindowPotential
  <2>1. \A p \in Project : \A from, to \in Nat : AllowedIn(p, from, to) = {}
    BY DEF LimiterInit, AllowedIn, Req
  <2>2. Cardinality({}) = 0
    BY FS_EmptySet
  <2>. QED BY <2>1, <2>2 DEF WindowPotential, Within
<1>. QED BY <1>1, <1>2, <1>3 DEF LimiterInv

LEMMA RetryAfterType ==
  ASSUME NEW tokens \in Int
  PROVE  RetryAfter(tokens) \in Nat
<1>1. EventsPerMinute * Second \in Nat \ {0}
  BY RateAssumption
<1>2. CeilDiv(Minute - tokens, EventsPerMinute * Second) \in Int
  BY <1>1, Constants DEF CeilDiv
<1>. QED BY <1>2 DEF RetryAfter, Greatest

LEMMA LimiterTypeStep == LimiterInv /\ [LimiterNext]_limiterVars => LimiterTypeOK' /\ StampsPast'
<1>. SUFFICES ASSUME LimiterInv, [LimiterNext]_limiterVars PROVE LimiterTypeOK' /\ StampsPast'
  OBVIOUS
<1>. USE DEF LimiterInv, LimiterTypeOK, StampsPast
<1>1. ASSUME NEW r \in Request, NEW p \in Project, Arrive(r, p)
      PROVE  LimiterTypeOK' /\ StampsPast'
  BY <1>1, LimiterNoneAssumption DEF Arrive, Req
<1>2. ASSUME NEW r \in Request, Allow(r) PROVE LimiterTypeOK' /\ StampsPast'
  <2>1. PICK p \in Project, b \in Bucket : \E tokens \in Int :
          /\ request[r].project = p /\ request[r].stamp \in Nat
          /\ buckets' = [buckets EXCEPT ![p] =
                          [tokens |-> IF tokens >= Minute THEN tokens - Minute ELSE tokens,
                           lastRefill |-> request[r].stamp]]
          /\ request'[r].verdict = IF tokens >= Minute THEN "allowed" ELSE "rejected"
          /\ request'[r].project = p
          /\ request'[r].stamp = request[r].stamp
          /\ request'[r].retryAfter = IF tokens >= Minute THEN 0 ELSE RetryAfter(tokens)
          /\ clock' = clock
    BY <1>2, AllowBucket
  <2>2. PICK tokens \in Int :
          /\ buckets' = [buckets EXCEPT ![p] =
                          [tokens |-> IF tokens >= Minute THEN tokens - Minute ELSE tokens,
                           lastRefill |-> request[r].stamp]]
          /\ request'[r].verdict = IF tokens >= Minute THEN "allowed" ELSE "rejected"
          /\ request'[r].retryAfter = IF tokens >= Minute THEN 0 ELSE RetryAfter(tokens)
    BY <2>1
  <2>3. buckets' \in [Project -> Bucket \cup {NoBucket}]
    BY <2>1, <2>2, Constants DEF Bucket
  <2>4. /\ request' = [request EXCEPT ![r] =
                        Req(request'[r].project, request'[r].stamp, request'[r].verdict,
                            request'[r].retryAfter)]
        /\ latest' = [latest EXCEPT ![request[r].project] = r]
    BY <1>2 DEF Allow, Req
  <2>5. request'[r].retryAfter \in Nat /\ request'[r].verdict \in {"allowed", "rejected"}
    BY <2>2, RetryAfterType
  <2>. QED BY <2>1, <2>3, <2>4, <2>5, LimiterNoneAssumption DEF Req
<1>3. CASE ClockTick
  BY <1>3 DEF ClockTick
<1>4. CASE UNCHANGED limiterVars
  BY <1>4 DEF limiterVars
<1>. QED BY <1>1, <1>2, <1>3, <1>4 DEF LimiterNext

\* A bucket just refilled is bounded, and so is one a token was taken from.
LEMMA BucketStep == LimiterInv /\ [LimiterNext]_limiterVars => BucketsBounded'
<1>. SUFFICES ASSUME LimiterInv, [LimiterNext]_limiterVars PROVE BucketsBounded'
  OBVIOUS
<1>. USE DEF LimiterInv, BucketsBounded
<1>1. ASSUME NEW r \in Request, Allow(r) PROVE BucketsBounded'
  <2>. DEFINE now == request[r].stamp
  <2>1. PICK p \in Project, b \in Bucket, tokens \in Int :
          /\ request[r].project = p /\ now \in Nat
          /\ b = BucketAt(p, now)
          /\ tokens = Refilled(b, now)
          /\ buckets' = [buckets EXCEPT ![p] =
                          [tokens |-> IF tokens >= Minute THEN tokens - Minute ELSE tokens,
                           lastRefill |-> now]]
          /\ clock' = clock
    BY <1>1, AllowBucket DEF LimiterInv
  <2>2. now <= clock /\ clock \in Nat
    BY DEF StampsPast, LimiterTypeOK
  <2>3. b.tokens \in Int /\ b.lastRefill \in Int
    BY DEF Bucket
  <2>4. b.tokens + EventsPerMinute * (clock - b.lastRefill) >= 0
    <3>1. CASE buckets[p] = NoBucket
      <4>1. b.tokens = Burst * Minute /\ b.lastRefill = now
        BY <2>1, <3>1 DEF BucketAt
      <4>2. EventsPerMinute * (clock - now) \in Nat
        BY <2>1, <2>2, Constants, ProductNat
      <4>. QED BY <4>1, <4>2, Constants
    <3>2. CASE buckets[p] # NoBucket
      BY <2>1, <3>2 DEF BucketAt
    <3>. QED BY <3>1, <3>2
  <2>5. /\ EventsPerMinute * (clock - b.lastRefill) =
             EventsPerMinute * clock - EventsPerMinute * b.lastRefill
        /\ EventsPerMinute * (clock - now) = EventsPerMinute * clock - EventsPerMinute * now
        /\ EventsPerMinute * clock \in Int /\ EventsPerMinute * now \in Int
        /\ EventsPerMinute * b.lastRefill \in Int
        /\ EventsPerMinute * (clock - now) \in Nat
    BY <2>1, <2>2, <2>3, Constants, Distribute, ProductNat
  <2>6. tokens <= Burst * Minute /\ tokens + EventsPerMinute * (clock - now) >= 0
    <3>. DEFINE nowUnits == EventsPerMinute * now
                lastUnits == EventsPerMinute * b.lastRefill
                clockUnits == EventsPerMinute * clock
    <3>1. /\ tokens <= Burst * Minute
          /\ tokens = Burst * Minute \/ tokens = b.tokens + nowUnits - lastUnits
      BY <2>1, RefilledBound
    <3>2. nowUnits \in Int /\ lastUnits \in Int /\ clockUnits \in Int /\ clockUnits - nowUnits \in Nat
      BY <2>5
    <3>3. b.tokens + (clockUnits - lastUnits) >= 0
      BY <2>4, <2>5
    <3>4. EventsPerMinute * (clock - now) = clockUnits - nowUnits
      BY <2>5
    <3>. HIDE DEF nowUnits, lastUnits, clockUnits
    <3>5. tokens + (clockUnits - nowUnits) >= 0
      BY <2>3, <3>1, <3>2, <3>3, Constants
    <3>. QED BY <3>1, <3>4, <3>5
  <2>7. /\ buckets'[p].lastRefill = now
        /\ buckets'[p].tokens = IF tokens >= Minute THEN tokens - Minute ELSE tokens
        /\ \A q \in Project : q # p => buckets'[q] = buckets[q]
    BY <2>1 DEF LimiterTypeOK
  <2>8. /\ buckets'[p].tokens <= Burst * Minute
        /\ buckets'[p].tokens + EventsPerMinute * (clock - buckets'[p].lastRefill) >= 0
    BY <2>5, <2>6, <2>7, Constants
  <2>. HIDE DEF now
  <2>. QED BY <2>1, <2>7, <2>8
<1>2. CASE ClockTick
  <2>1. ASSUME NEW p \in Project, buckets[p] # NoBucket
        PROVE  buckets[p].tokens + EventsPerMinute * (clock + 1 - buckets[p].lastRefill) >= 0
    <3>1. buckets[p].tokens \in Int /\ buckets[p].lastRefill \in Int /\ clock \in Nat
      BY <2>1 DEF LimiterTypeOK, Bucket
    <3>2. EventsPerMinute * (clock + 1 - buckets[p].lastRefill) =
            EventsPerMinute * (clock - buckets[p].lastRefill) + EventsPerMinute
      BY <3>1, Constants
    <3>3. EventsPerMinute * (clock - buckets[p].lastRefill) \in Int
      BY <3>1, Constants
    <3>. QED BY <2>1, <3>1, <3>2, <3>3, Constants
  <2>2. clock' = clock + 1 /\ buckets' = buckets
    BY <1>2 DEF ClockTick
  <2>3. ASSUME NEW p \in Project, buckets'[p] # NoBucket
        PROVE  /\ buckets'[p].tokens <= Burst * Minute
               /\ buckets'[p].tokens + EventsPerMinute * (clock' - buckets'[p].lastRefill) >= 0
    <3>1. buckets[p] # NoBucket
      BY <2>2, <2>3, Zenon
    <3>2. buckets[p].tokens <= Burst * Minute
      BY <3>1
    <3>3. buckets[p].tokens + EventsPerMinute * (clock + 1 - buckets[p].lastRefill) >= 0
      BY <2>1, <3>1
    <3>4. buckets'[p] = buckets[p] /\ clock' = clock + 1
          /\ clock \in Int /\ buckets[p].lastRefill \in Int
      BY <2>2, <3>1 DEF LimiterTypeOK, Bucket
    <3>5. buckets'[p].tokens <= Burst * Minute
      BY <3>2, <3>4
    <3>6. EventsPerMinute * (clock' - buckets'[p].lastRefill) =
            EventsPerMinute * (clock + 1 - buckets[p].lastRefill)
      <4>1. clock' - buckets'[p].lastRefill = clock + 1 - buckets[p].lastRefill
        BY <3>4
      <4>. QED BY <4>1
    <3>7. buckets'[p].tokens = buckets[p].tokens
      BY <3>4
    <3>. QED BY <3>3, <3>5, <3>6, <3>7, Zenon
  <2>. QED BY <2>3
<1>3. CASE UNCHANGED <<clock, buckets>>
  BY <1>3
<1>. QED BY <1>1, <1>2, <1>3 DEF LimiterNext, limiterVars, Arrive

\* One more call: the first request allowed in a window finds at most a full
\* bucket, every later one what the earlier ones left.
LEMMA WindowArithmetic ==
  ASSUME NEW n \in Nat, NEW tokens \in Int, NEW oldTokens \in Int,
         NEW fromUnits \in Int, NEW toUnits \in Int, NEW nowUnits \in Int, NEW lastUnits \in Int,
         NEW full \in Int, NEW unit \in Nat,
         tokens <= full,
         tokens <= oldTokens + nowUnits - lastUnits,
         n > 0 => /\ n * unit + oldTokens - lastUnits <= full - fromUnits
                  /\ n * unit <= full + toUnits - fromUnits
  PROVE  /\ n > 0 => n * unit + tokens - nowUnits <= full - fromUnits
         /\ fromUnits <= nowUnits /\ nowUnits <= toUnits /\ tokens >= unit =>
              /\ (n + 1) * unit + (tokens - unit) - nowUnits <= full - fromUnits
              /\ (n + 1) * unit <= full + toUnits - fromUnits
<1>1. n * unit \in Int /\ (n + 1) * unit = n * unit + unit /\ (n = 0 => n * unit = 0)
  OBVIOUS
<1>. DEFINE used == n * unit
<1>. HIDE DEF used
<1>2. used \in Int /\ (n + 1) * unit = used + unit /\ (n = 0 => used = 0)
      /\ (n > 0 => /\ used + oldTokens - lastUnits <= full - fromUnits
                   /\ used <= full + toUnits - fromUnits)
  BY <1>1 DEF used
<1>3. n > 0 => used + tokens - nowUnits <= full - fromUnits
  BY <1>2
<1>4. ASSUME fromUnits <= nowUnits, nowUnits <= toUnits, tokens >= unit
      PROVE  /\ (used + unit) + (tokens - unit) - nowUnits <= full - fromUnits
             /\ used + unit <= full + toUnits - fromUnits
  <2>1. used + tokens - nowUnits <= full - fromUnits
    BY <1>2, <1>3, <1>4
  <2>. QED BY <1>2, <1>4, <2>1
<1>. QED BY <1>2, <1>3, <1>4 DEF used

\* The potential of a window survives every call, whatever the order of the stamps.
LEMMA WindowStep == LimiterInv /\ [LimiterNext]_limiterVars => WindowPotential'
<1>. SUFFICES ASSUME LimiterInv, [LimiterNext]_limiterVars PROVE WindowPotential'
  OBVIOUS
<1>. USE DEF LimiterInv
<1>1. ASSUME NEW r \in Request, Allow(r), NEW q \in Project, NEW from \in Nat, NEW to \in Nat
      PROVE  Within(q, from, to, Cardinality(AllowedIn(q, from, to)))'
  <2>. DEFINE now == request[r].stamp
              n == Cardinality(AllowedIn(q, from, to))
              m == Cardinality(AllowedIn(q, from, to))'
  <2>1. PICK p \in Project, b \in Bucket, tokens \in Int :
          /\ request[r].project = p /\ now \in Nat
          /\ b = BucketAt(p, now)
          /\ tokens = Refilled(b, now)
          /\ buckets' = [buckets EXCEPT ![p] =
                          [tokens |-> IF tokens >= Minute THEN tokens - Minute ELSE tokens,
                           lastRefill |-> now]]
          /\ request'[r].verdict = IF tokens >= Minute THEN "allowed" ELSE "rejected"
    BY <1>1, AllowBucket
  <2>2. /\ buckets'[p] = [tokens |-> IF tokens >= Minute THEN tokens - Minute ELSE tokens,
                          lastRefill |-> now]
        /\ \A i \in Project : i # p => buckets'[i] = buckets[i]
    BY <2>1 DEF LimiterTypeOK
  <2>3. n \in Nat /\ Within(q, from, to, n)
    BY <1>1, AllowedFinite DEF WindowPotential
  <2>4. m = IF tokens >= Minute /\ p = q /\ now \in from .. to THEN n + 1 ELSE n
    BY <1>1, <2>1, AllowCounts
  <2>. HIDE DEF n, m
  <2>5. CASE p # q
    <3>1. m = n /\ buckets'[q] = buckets[q]
      BY <1>1, <2>2, <2>4, <2>5
    <3>. QED BY <2>3, <3>1 DEF Within, m
  <2>6. CASE p = q
    <3>. DEFINE fromUnits == EventsPerMinute * from
                toUnits == EventsPerMinute * to
                nowUnits == EventsPerMinute * now
                lastUnits == EventsPerMinute * b.lastRefill
                full == Burst * Minute
    <3>1. /\ b.tokens \in Int /\ b.lastRefill \in Int
          /\ fromUnits \in Int /\ toUnits \in Int /\ nowUnits \in Int /\ lastUnits \in Int
          /\ full \in Int
      BY <1>1, <2>1, Constants DEF Bucket
    <3>2. EventsPerMinute * (to - from) = toUnits - fromUnits
      BY <1>1, Constants, Distribute
    <3>3. tokens <= full /\ tokens <= b.tokens + nowUnits - lastUnits
      BY <2>1, RefilledBound
    <3>4. now \in from .. to => fromUnits <= nowUnits /\ nowUnits <= toUnits
      <4>1. ASSUME now \in from .. to PROVE now - from \in Nat /\ to - now \in Nat
        BY <1>1, <2>1, <4>1
      <4>2. ASSUME now \in from .. to
            PROVE  nowUnits - fromUnits \in Nat /\ toUnits - nowUnits \in Nat
        <5>1. EventsPerMinute * (now - from) \in Nat /\ EventsPerMinute * (to - now) \in Nat
          BY <4>1, <4>2, Constants, ProductNat
        <5>2. /\ EventsPerMinute * (now - from) = nowUnits - fromUnits
              /\ EventsPerMinute * (to - now) = toUnits - nowUnits
          BY <1>1, <2>1, Constants, Distribute
        <5>. QED BY <5>1, <5>2, Zenon
      <4>. HIDE DEF nowUnits, fromUnits, toUnits
      <4>. QED BY <3>1, <4>2
    <3>5. n > 0 => buckets[p] # NoBucket /\ b = buckets[p]
      BY <2>1, <2>3, <2>6 DEF Within, BucketAt
    <3>6. n > 0 => /\ n * Minute + b.tokens - lastUnits <= full - fromUnits
                   /\ n * Minute <= full + EventsPerMinute * (to - from)
      BY <2>3, <2>6, <3>5 DEF Within
    <3>. HIDE DEF fromUnits, toUnits, nowUnits, lastUnits, full, now
    <3>7. n > 0 => n * Minute <= full + toUnits - fromUnits
      <4>1. n * Minute \in Int
        BY <2>3, Constants
      <4>. QED BY <3>1, <3>2, <3>6, <4>1
    <3>8. /\ n > 0 => n * Minute + tokens - nowUnits <= full - fromUnits
          /\ fromUnits <= nowUnits /\ nowUnits <= toUnits /\ tokens >= Minute =>
               /\ (n + 1) * Minute + (tokens - Minute) - nowUnits <= full - fromUnits
               /\ (n + 1) * Minute <= full + toUnits - fromUnits
      BY <2>1, <2>3, <3>1, <3>3, <3>6, <3>7, Constants, WindowArithmetic
    <3>9. /\ buckets'[q].lastRefill = now
          /\ buckets'[q].tokens = IF tokens >= Minute THEN tokens - Minute ELSE tokens
          /\ buckets'[q] # NoBucket
      BY <2>2, <2>6, <2>1, LimiterNoneAssumption DEF NoBucket
    <3>10. ASSUME m > 0
           PROVE  /\ m * Minute + buckets'[q].tokens - nowUnits <= full - fromUnits
                  /\ m * Minute <= full + toUnits - fromUnits
      <4>1. CASE tokens >= Minute /\ now \in from .. to
        BY <2>4, <2>6, <3>4, <3>8, <3>9, <4>1
      <4>2. CASE ~(tokens >= Minute /\ now \in from .. to)
        <5>1. m = n /\ n > 0
          BY <2>4, <3>10, <4>2
        <5>2. n * Minute \in Int
          BY <2>3, Constants
        <5>. QED BY <2>1, <3>1, <3>7, <3>8, <3>9, <5>1, <5>2, Constants
      <4>. QED BY <4>1, <4>2
    <3>11. EventsPerMinute * buckets'[q].lastRefill = nowUnits
      BY <3>9 DEF nowUnits
    <3>12. m * Minute <= full + toUnits - fromUnits => m * Minute <= full + EventsPerMinute * (to - from)
      <4>1. full + EventsPerMinute * (to - from) = full + toUnits - fromUnits
        BY <3>1, <3>2
      <4>. QED BY <4>1
    <3>. QED BY <3>9, <3>10, <3>11, <3>12 DEF Within, m, full, fromUnits
  <2>. QED BY <2>5, <2>6
<1>2. ASSUME NEW r \in Request, NEW p \in Project, Arrive(r, p) PROVE WindowPotential'
  <2>1. \A q \in Project : \A from, to \in Nat :
          AllowedIn(q, from, to)' = AllowedIn(q, from, to)
    BY <1>2 DEF Arrive, AllowedIn, Req, LimiterTypeOK
  <2>. QED BY <1>2, <2>1 DEF Arrive, WindowPotential, Within
<1>3. CASE ClockTick \/ UNCHANGED limiterVars
  BY <1>3 DEF ClockTick, limiterVars, WindowPotential, Within, AllowedIn
<1>4. ASSUME NEW r \in Request, Allow(r) PROVE WindowPotential'
  BY <1>1, <1>4 DEF WindowPotential
<1>. QED BY <1>2, <1>3, <1>4 DEF LimiterNext

LEMMA LimiterInvStep == LimiterInv /\ [LimiterNext]_limiterVars => LimiterInv'
BY LimiterTypeStep, BucketStep, WindowStep DEF LimiterInv

\* The invariant the properties below follow from.
THEOREM LimiterInvariance == LimiterSpec => []LimiterInv
<1>. QED BY LimiterInvInit, LimiterInvStep, PTL DEF LimiterSpec

----------------------------------------------------------------------------
(* Theorems.                                                               *)

\* Types: buckets, verdicts and retry times stay of their types.
THEOREM LimiterTypeCorrect == LimiterSpec => []LimiterTypeOK
<1>1. LimiterInv => LimiterTypeOK
  BY DEF LimiterInv
<1>. QED BY <1>1, LimiterInvariance, PTL

\* In no stretch of time does a project get more requests through than its burst and
\* what that time refills, in whatever order requests get the mutex.
THEOREM RateLimitHolds == LimiterSpec => []WindowBound
<1>1. LimiterInv => WindowBound
  <2>. SUFFICES ASSUME LimiterInv, NEW p \in Project,
                       NEW from \in 0 .. clock, NEW to \in 0 .. clock, from <= to
                PROVE  Cardinality(AllowedIn(p, from, to)) * Minute
                         <= Burst * Minute + EventsPerMinute * (to - from)
    BY DEF WindowBound
  <2>. DEFINE n == Cardinality(AllowedIn(p, from, to))
  <2>1. from \in Nat /\ to \in Nat /\ to - from \in Nat
    OBVIOUS
  <2>2. n \in Nat /\ Within(p, from, to, n)
    BY <2>1, AllowedFinite DEF LimiterInv, WindowPotential
  <2>3. EventsPerMinute * (to - from) \in Nat
    BY <2>1, Constants, ProductNat
  <2>. HIDE DEF n
  <2>4. CASE n = 0
    <3>1. n * Minute = 0
      BY <2>4, Constants
    <3>. QED BY <2>3, <3>1, Constants DEF n
  <2>5. CASE n > 0
    BY <2>2, <2>5 DEF Within, n
  <2>. QED BY <2>2, <2>4, <2>5
<1>. QED BY <1>1, LimiterInvariance, PTL

\* Waiting as long as one token takes to refill is always enough.
THEOREM NoLockOut == LimiterSpec => []NeverLockedOut
<1>1. LimiterInv => NeverLockedOut
  <2>. SUFFICES ASSUME LimiterInv, NEW p \in Project
                PROVE  Refilled(BucketAt(p, clock), clock + CeilDiv(Minute, EventsPerMinute))
                         >= Minute
    BY DEF NeverLockedOut
  <2>. DEFINE b == BucketAt(p, clock)
              wait == CeilDiv(Minute, EventsPerMinute)
  <2>1. clock \in Nat /\ b \in Bucket /\ b.tokens \in Int /\ b.lastRefill \in Int
    BY BucketAtType DEF LimiterInv, LimiterTypeOK, Bucket
  <2>2. b.tokens + EventsPerMinute * (clock - b.lastRefill) >= 0
    <3>1. CASE buckets[p] = NoBucket
      <4>1. b.tokens = Burst * Minute /\ clock - b.lastRefill = 0
        BY <2>1, <3>1 DEF BucketAt
      <4>. QED BY <4>1, Constants
    <3>2. CASE buckets[p] # NoBucket
      BY <3>2 DEF BucketAt, LimiterInv, BucketsBounded
    <3>. QED BY <3>1, <3>2
  <2>3. wait \in Int /\ EventsPerMinute * wait >= Minute
    <3>1. \A a \in Int : \A d \in Nat \ {0} : a \div d \in Int /\ d * (a \div d) <= a
      OBVIOUS
    <3>2. /\ (-Minute) \div EventsPerMinute \in Int
          /\ EventsPerMinute * ((-Minute) \div EventsPerMinute) <= -Minute
      BY <3>1, Constants
    <3>. QED BY <3>2, Constants DEF CeilDiv
  <2>. HIDE DEF b, wait
  <2>4. EventsPerMinute * (clock + wait - b.lastRefill) =
          EventsPerMinute * (clock - b.lastRefill) + EventsPerMinute * wait
    BY <2>1, <2>3, Constants
  <2>5. /\ EventsPerMinute * (clock - b.lastRefill) \in Int
        /\ EventsPerMinute * wait \in Int
    BY <2>1, <2>3, Constants
  <2>6. b.tokens + EventsPerMinute * (clock + wait - b.lastRefill) >= Minute
    BY <2>1, <2>2, <2>3, <2>4, <2>5, Constants
  <2>7. Refilled(b, clock + wait) >= Minute
    BY <2>1, <2>3, <2>6, RefilledAbove
  <2>. QED BY <2>7 DEF b, wait
<1>. QED BY <1>1, LimiterInvariance, PTL

----------------------------------------------------------------------------
(* Retry-After.                                                            *)

\* The request of a project decided last has its verdict, and if that was a rejection
\* the bucket is as the rejection left it: no other call has changed it since.
LatestVerdict ==
  \A p \in Project : latest[p] # None =>
    /\ request[latest[p]].project = p
    /\ request[latest[p]].verdict \in {"allowed", "rejected"}
    /\ request[latest[p]].verdict = "rejected" =>
         /\ buckets[p] # NoBucket
         /\ buckets[p].lastRefill = request[latest[p]].stamp
         /\ buckets[p].tokens < Minute
         /\ request[latest[p]].retryAfter = RetryAfter(buckets[p].tokens)

LEMMA LatestVerdictStep ==
  LimiterTypeOK /\ LatestVerdict /\ [LimiterNext]_limiterVars => LatestVerdict'
<1>. SUFFICES ASSUME LimiterTypeOK, LatestVerdict, [LimiterNext]_limiterVars
              PROVE  LatestVerdict'
  OBVIOUS
<1>1. ASSUME NEW r \in Request, NEW p \in Project, Arrive(r, p) PROVE LatestVerdict'
  <2>1. /\ request[r].verdict = "none"
        /\ \A q \in Request : q # r => request'[q] = request[q]
        /\ buckets' = buckets /\ latest' = latest
    BY <1>1 DEF Arrive, LimiterTypeOK
  <2>2. ASSUME NEW q \in Project, latest[q] # None
        PROVE  request'[latest[q]] = request[latest[q]]
    BY <2>1, <2>2 DEF LatestVerdict, LimiterTypeOK
  <2>. QED BY <2>1, <2>2 DEF LatestVerdict
<1>2. ASSUME NEW r \in Request, Allow(r) PROVE LatestVerdict'
  <2>1. PICK p \in Project, tokens \in Int :
          /\ request[r].project = p /\ request[r].verdict = "waiting"
          /\ buckets' = [buckets EXCEPT ![p] =
                          [tokens |-> IF tokens >= Minute THEN tokens - Minute ELSE tokens,
                           lastRefill |-> request[r].stamp]]
          /\ request'[r].verdict = IF tokens >= Minute THEN "allowed" ELSE "rejected"
          /\ request'[r].project = p
          /\ request'[r].stamp = request[r].stamp
          /\ request'[r].retryAfter = IF tokens >= Minute THEN 0 ELSE RetryAfter(tokens)
    BY <1>2, AllowBucket
  <2>2. /\ \A q \in Request : q # r => request'[q] = request[q]
        /\ latest' = [latest EXCEPT ![p] = r]
    BY <1>2, <2>1 DEF Allow, LimiterTypeOK
  <2>3. /\ buckets'[p] = [tokens |-> IF tokens >= Minute THEN tokens - Minute ELSE tokens,
                          lastRefill |-> request[r].stamp]
        /\ latest'[p] = r
        /\ \A q \in Project : q # p => buckets'[q] = buckets[q] /\ latest'[q] = latest[q]
    BY <2>1, <2>2 DEF LimiterTypeOK
  <2>4. buckets'[p] # NoBucket
    BY <2>1, <2>3, LimiterNoneAssumption DEF LimiterTypeOK, NoBucket
  <2>5. tokens >= Minute \/ tokens < Minute
    BY Constants
  <2>6. /\ request'[latest'[p]].project = p
        /\ request'[latest'[p]].verdict \in {"allowed", "rejected"}
        /\ request'[latest'[p]].verdict = "rejected" =>
             /\ buckets'[p].lastRefill = request'[latest'[p]].stamp
             /\ buckets'[p].tokens < Minute
             /\ request'[latest'[p]].retryAfter = RetryAfter(buckets'[p].tokens)
    <3>1. CASE tokens >= Minute
      BY <2>1, <2>3, <3>1
    <3>2. CASE ~(tokens >= Minute)
      BY <2>1, <2>3, <2>5, <3>2
    <3>. QED BY <3>1, <3>2
  <2>7. ASSUME NEW q \in Project, q # p, latest'[q] # None
        PROVE  /\ request'[latest'[q]] = request[latest[q]]
               /\ buckets'[q] = buckets[q] /\ latest'[q] = latest[q] /\ latest[q] # None
    BY <2>1, <2>2, <2>3, <2>7 DEF LatestVerdict, LimiterTypeOK
  <2>. QED BY <2>4, <2>6, <2>7 DEF LatestVerdict
<1>3. CASE ClockTick \/ UNCHANGED limiterVars
  BY <1>3 DEF ClockTick, limiterVars, LatestVerdict
<1>. QED BY <1>1, <1>2, <1>3 DEF LimiterNext

\* Division rounded up.
LEMMA CeilDivBounds ==
  ASSUME NEW a \in Int, NEW d \in Nat \ {0}
  PROVE  /\ CeilDiv(a, d) \in Int
         /\ d * CeilDiv(a, d) >= a
         /\ d * (CeilDiv(a, d) - 1) < a
<1>. DEFINE q == (-a) \div d
<1>1. q \in Int /\ d * q <= -a /\ -a < d * q + d
  OBVIOUS
<1>. HIDE DEF q
<1>2. d * (-q) = -(d * q) /\ d * (-q - 1) = -(d * q) - d /\ d * q \in Int
  BY <1>1
<1>3. CeilDiv(a, d) = -q
  BY DEF CeilDiv, q
<1>. QED BY <1>1, <1>2, <1>3

\* The retry time is the least number of seconds, but one at least, that refills what
\* a bucket lacks of a token.
LEMMA RetryAfterBounds ==
  ASSUME NEW tokens \in Int
  PROVE  /\ RetryAfter(tokens) \in Int
         /\ tokens + EventsPerMinute * (RetryAfter(tokens) * Second) >= Minute
         /\ RetryAfter(tokens) > 1 =>
              tokens + EventsPerMinute * ((RetryAfter(tokens) - 1) * Second) < Minute
<1>. DEFINE rate == EventsPerMinute * Second
            least == CeilDiv(Minute - tokens, rate)
            wait == RetryAfter(tokens)
<1>1. rate \in Nat \ {0} /\ Minute - tokens \in Int
  BY RateAssumption, Constants
<1>. HIDE DEF rate
<1>2. least \in Int /\ rate * least >= Minute - tokens /\ rate * (least - 1) < Minute - tokens
  BY <1>1, CeilDivBounds
<1>3. wait = Greatest(1, least)
  BY DEF RetryAfter, rate
<1>. HIDE DEF least, wait
<1>4. wait \in Int /\ wait >= least /\ (wait > 1 => wait = least)
  BY <1>2, <1>3 DEF Greatest
<1>5. rate * (wait - least) \in Nat /\ rate * (wait - least) = rate * wait - rate * least
      /\ rate * wait \in Int /\ rate * least \in Int /\ rate * (wait - 1) \in Int
  BY <1>1, <1>2, <1>4, ProductNat, Distribute
<1>6. tokens + rate * wait >= Minute
  BY <1>2, <1>5, Constants
<1>7. wait > 1 => tokens + rate * (wait - 1) < Minute
  BY <1>2, <1>4, <1>5, Constants
<1>8. \A n \in Int : EventsPerMinute * (n * Second) = rate * n
  BY RateAssumption DEF rate
<1>9. /\ EventsPerMinute * (wait * Second) = rate * wait
      /\ EventsPerMinute * ((wait - 1) * Second) = rate * (wait - 1)
  BY <1>4, <1>8
<1>. QED BY <1>4, <1>6, <1>7, <1>9 DEF wait

\* Retry-After tells the truth: waiting that long is enough for one request if no other
\* comes in between, and a second less is not.
THEOREM RetryAfterTrue == LimiterSpec => []RetryAfterExact
<1>1. LimiterInit => LatestVerdict
  BY DEF LimiterInit, LatestVerdict
<1>2. LimiterInv => LimiterTypeOK
  BY DEF LimiterInv
<1>3. LimiterTypeOK /\ LatestVerdict => RetryAfterExact
  <2>. SUFFICES ASSUME LimiterTypeOK, LatestVerdict, NEW p \in Project, latest[p] # None,
                       request[latest[p]].verdict = "rejected",
                       NEW now, now = request[latest[p]].stamp,
                       NEW wait, wait = request[latest[p]].retryAfter
                PROVE  /\ Refilled(buckets[p], now + wait * Second) >= Minute
                       /\ wait > 1 => Refilled(buckets[p], now + (wait - 1) * Second) < Minute
    BY DEF RetryAfterExact
  <2>. DEFINE b == buckets[p]
  <2>1. /\ b \in Bucket /\ b.tokens \in Int /\ now \in Int
        /\ b.lastRefill = now /\ wait = RetryAfter(b.tokens)
    BY DEF LatestVerdict, LimiterTypeOK, Bucket
  <2>. HIDE DEF b
  <2>2. /\ wait \in Int
        /\ b.tokens + EventsPerMinute * (wait * Second) >= Minute
        /\ wait > 1 => b.tokens + EventsPerMinute * ((wait - 1) * Second) < Minute
    BY <2>1, RetryAfterBounds
  <2>3. /\ wait * Second \in Int /\ (wait - 1) * Second \in Int
        /\ EventsPerMinute * ((wait - 1) * Second) \in Int
    BY <2>2, RateAssumption
  <2>4. \A n \in Int : now + n \in Int /\ (now + n) - b.lastRefill = n
    BY <2>1
  <2>5. Refilled(b, now + wait * Second) >= Minute
    <3>1. now + wait * Second \in Int /\ (now + wait * Second) - b.lastRefill = wait * Second
      BY <2>3, <2>4
    <3>2. b.tokens + EventsPerMinute * ((now + wait * Second) - b.lastRefill) >= Minute
      BY <2>2, <3>1
    <3>. QED BY <2>1, <3>1, <3>2, RefilledAbove
  <2>6. ASSUME wait > 1 PROVE Refilled(b, now + (wait - 1) * Second) < Minute
    <3>. DEFINE t == now + (wait - 1) * Second
                gain == EventsPerMinute * ((wait - 1) * Second)
    <3>1. EventsPerMinute * (t - b.lastRefill) = gain /\ gain \in Int
      BY <2>3, <2>4
    <3>. HIDE DEF t, gain
    <3>2. Refilled(b, t) = Least(Burst * Minute, b.tokens + gain)
      BY <3>1 DEF Refilled
    <3>3. b.tokens + gain < Minute
      BY <2>2, <2>6 DEF gain
    <3>4. Refilled(b, t) < Minute
      BY <2>1, <3>1, <3>2, <3>3, Constants DEF Least
    <3>. QED BY <3>4 DEF t
  <2>. QED BY <2>5, <2>6 DEF b
<1>. QED BY <1>1, <1>2, <1>3, LatestVerdictStep, LimiterInvariance, PTL DEF LimiterSpec
=============================================================================
