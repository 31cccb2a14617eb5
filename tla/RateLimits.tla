----------------------------- MODULE RateLimits -----------------------------
(***************************************************************************)
(* backend/src/services/UserRateLimitService.ts under userRateLimiter of   *)
(* middleware/rateLimiter.ts: the bucket of one user and one endpoint,     *)
(* read and written back in separate round trips by concurrent requests,   *)
(* and the administrator of RateLimitController.ts.  Redis expires a       *)
(* bucket only after its window, when it counts as absent anyway.  The     *)
(* queue of handleRateLimitExceeded is left out: getEndpointPattern drops  *)
(* the "/v1" that every priority endpoint has.                             *)
(***************************************************************************)
EXTENDS Integers, Sequences, FiniteSets

CONSTANTS
    Request,
    Rule,           \* tier to [requests, burstCapacity], of its default rule
    windowMs, burstWindowMs,    \* the same in every tier
    NoBucket, Idle,
    MaxTime, MaxGrants          \* bounds on time and on the requests that pass

Tier == DOMAIN Rule

VARIABLES
    now,
    bucket,         \* the hash in Redis
    logged,         \* the row of the table rateLimitUsage exists
    tier,           \* the user's
    calls,          \* of each request under way: step, from, rule, usage, at
    admin,          \* the reset under way: "idle", or the keys it has listed
    grants          \* history: when requests passed

limitVars == <<now, bucket, logged, tier, calls, admin, grants>>

Init ==
    /\ now = 0
    /\ bucket = NoBucket
    /\ logged = FALSE
    /\ tier = "FREE"
    /\ calls = [c \in Request |-> Idle]
    /\ admin = "idle"
    /\ grants = <<>>

-----------------------------------------------------------------------------
Fresh(t) == [tokens |-> 0, start |-> t, burstUsed |-> 0, last |-> t]

MutKeepBurst(t) ==
    IF bucket = NoBucket THEN Fresh(t)
    ELSE IF t >= bucket.start + windowMs THEN [bucket EXCEPT !.tokens = 0, !.start = t]
    ELSE [bucket EXCEPT !.burstUsed = IF t - bucket.last >= burstWindowMs THEN 0 ELSE @]
(* getCurrentUsage, with the time t taken before the read.                  *)
GetCurrentUsage(t) ==
    IF bucket = NoBucket THEN Fresh(t)
    ELSE IF t >= bucket.start + windowMs THEN Fresh(t)
    ELSE [bucket EXCEPT !.burstUsed = IF t - bucket.last >= burstWindowMs THEN 0 ELSE @]

IsRequestAllowed(u, rule, t) ==
    /\ u.tokens < rule.requests
    /\ t - u.last < burstWindowMs => u.burstUsed < rule.burstCapacity

ConsumeTokens(u, t) ==
    [u EXCEPT !.tokens = @ + 1, !.last = t,
              !.burstUsed = IF t - u.last >= burstWindowMs THEN 1 ELSE @ + 1]

Pass ==
    /\ Len(grants) < MaxGrants
    /\ grants' = Append(grants, now)

(* userRateLimiter: the tier is read; FREE, if it cannot be.                *)
CheckRateLimit(c, ok) ==
    /\ calls[c] = Idle
    /\ calls' = [calls EXCEPT ![c] = [step |-> "asked", from |-> now,
                                      rule |-> Rule[IF ok THEN tier ELSE "FREE"]]]
    /\ UNCHANGED <<now, bucket, logged, tier, admin, grants>>

(* Redis answers, and the request is decided upon what it said.             *)
Decide(c) ==
    LET call == calls[c]
        u == GetCurrentUsage(call.from)
        allowed == IsRequestAllowed(u, call.rule, now)
    IN  /\ call # Idle /\ call.step = "asked"
        /\ calls' = [calls EXCEPT ![c] =
                        [step |-> IF allowed THEN "consuming" ELSE "refused",
                         rule |-> call.rule, usage |-> u, at |-> now]]
        /\ IF allowed THEN Pass ELSE UNCHANGED grants
        /\ UNCHANGED <<now, bucket, logged, tier, admin>>

(* The bucket is written back as it was read, one token fuller, whatever    *)
(* was written in between; a failing write lets the request pass, too.      *)
Consume(c, ok) ==
    /\ calls[c] # Idle /\ calls[c].step = "consuming"
    /\ bucket' = IF ok THEN ConsumeTokens(calls[c].usage, calls[c].at) ELSE bucket
    /\ calls' = [calls EXCEPT ![c] = Idle]
    /\ UNCHANGED <<now, logged, tier, admin, grants>>

(* Redis does not answer: the limiter lets the request pass.                *)
FailOpen(c) ==
    /\ calls[c] # Idle /\ calls[c].step = "asked"
    /\ calls' = [calls EXCEPT ![c] = Idle]
    /\ Pass
    /\ UNCHANGED <<now, bucket, logged, tier, admin>>

(* handleRateLimitExceeded: the row is written, or not, and 429 answered.   *)
LogRateLimitExceeded(c, ok) ==
    /\ calls[c] # Idle /\ calls[c].step = "refused"
    /\ logged' = (logged \/ ok)
    /\ calls' = [calls EXCEPT ![c] = Idle]
    /\ UNCHANGED <<now, bucket, tier, admin, grants>>

-----------------------------------------------------------------------------
(* The administrator.                                                       *)

(* resetUserRateLimits: the keys are listed, deleted, then the rows.  Any   *)
(* error ends it where it is.                                               *)
ResetUserRateLimits ==
    /\ admin = "idle"
    /\ admin' = IF bucket = NoBucket THEN "rows" ELSE "keys"
    /\ UNCHANGED <<now, bucket, logged, tier, calls, grants>>

DeleteKeys ==
    /\ admin = "keys"
    /\ bucket' = NoBucket
    /\ admin' = "rows"
    /\ UNCHANGED <<now, logged, tier, calls, grants>>

DeleteRows ==
    /\ admin = "rows"
    /\ logged' = FALSE
    /\ admin' = "idle"
    /\ UNCHANGED <<now, bucket, tier, calls, grants>>

ResetFails ==
    /\ admin # "idle"
    /\ admin' = "idle"
    /\ UNCHANGED <<now, bucket, logged, tier, calls, grants>>

UpdateUserTier(newTier) ==
    /\ tier' = newTier
    /\ UNCHANGED <<now, bucket, logged, calls, admin, grants>>

Tick ==
    /\ now < MaxTime
    /\ now' = now + 1
    /\ UNCHANGED <<bucket, logged, tier, calls, admin, grants>>

Next ==
    \/ \E c \in Request :
          \/ Decide(c) \/ FailOpen(c)
          \/ \E ok \in BOOLEAN : CheckRateLimit(c, ok) \/ Consume(c, ok) \/ LogRateLimitExceeded(c, ok)
    \/ ResetUserRateLimits \/ DeleteKeys \/ DeleteRows \/ ResetFails
    \/ \E newTier \in Tier : UpdateUserTier(newTier)
    \/ Tick

Spec == Init /\ [][Next]_limitVars

-----------------------------------------------------------------------------
Passed(from, to) == Cardinality({i \in DOMAIN grants : grants[i] \in from..to})

(* Nobody is refused who did not use what the tier grants: whatever writes  *)
(* were lost or late, a request is refused only if as many passed since the *)
(* window it is counted in began as the rule allows it in a burst or in all.*)
RefusalEarned ==
    \A c \in Request :
        calls[c] # Idle /\ calls[c].step = "refused" =>
            LET r == calls[c].rule
                least == IF r.burstCapacity < r.requests THEN r.burstCapacity ELSE r.requests
            IN  Passed(calls[c].usage.start, calls[c].at) >= least

(* tests/userRateLimit.test.ts:65 "should deny request when rate limit      *)
(* exceeded": no more pass in a window than the tier allows.                *)
LimitIsKept ==
    \A t \in 0..now : tier = "FREE" =>
        Passed(t, t + windowMs - 1) <= Rule["FREE"].requests

(* "Get usage for all endpoints this user has accessed" (line 429): what    *)
(* getRateLimitStatus shows is what the table has.                          *)
StatusShowsUse == bucket # NoBucket => logged
=============================================================================
