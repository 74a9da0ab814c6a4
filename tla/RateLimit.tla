------------------------------ MODULE RateLimit ------------------------------
(***************************************************************************)
(* The rate limiter without Redis: RateLimitGuard.canActivate over the     *)
(* token buckets of RateLimitService.                                      *)
(*                                                                         *)
(* A bucket belongs to a tenant (the guard is used with one endpoint       *)
(* class).  refillRate is capacity / window, so tokens are counted in      *)
(* units of 1/Window: a whole token is Window units and every elapsed tick *)
(* adds capacity units, exactly.  checkLimit and incrementUsage run        *)
(* without an await inside; between the two the guard awaits, and the      *)
(* requests of other clients run.                                          *)
(***************************************************************************)
EXTENDS Integers, FiniteSets

CONSTANTS
    Requests,    \* requests that reach the guard
    Tenants,
    TenantOf,    \* the tenant of a request
    Tiers,
    TierOf,      \* the tier with which the limiter is called
    LimitOf,     \* config.limits: requests per window for a tier
    Window,      \* windowMs, in ticks
    IdleTime,    \* buckets idle for longer are cleaned up (5 minutes)
    MaxTime,     \* bound: ticks of the clock
    NULL

Times == 0..MaxTime

BucketRows == [tokens: Int, lastRefill: Times, capacity: Nat \ {0}]
Answers == [allowed: BOOLEAN, remaining: Int, limit: Int]

ASSUME LimitAssumption ==
    /\ TenantOf \in [Requests -> Tenants]
    /\ TierOf \in [Requests -> Tiers]
    /\ LimitOf \in [Tiers -> Nat \ {0}]
    /\ Window \in Nat \ {0}
    /\ MaxTime \in Nat
ASSUME TiersAssumption == IsFiniteSet(Tiers)
\* A bucket that was idle for so long has been refilled from its deepest debt,
\* which is less than a token (Window units).
ASSUME IdleAssumption ==
    /\ IdleTime \in Nat
    /\ \A k \in Tiers : (IdleTime + 1) * LimitOf[k] >= (LimitOf[k] + 1) * Window - 1
ASSUME NullAssumption == NULL \notin BucketRows \cup Answers \cup Times

VARIABLES
    now,
    bucket,    \* [Tenants -> bucket or NULL], inMemoryBuckets
    pc,        \* where the guard is: "idle", "increment", "done"
    answer,    \* what checkLimit returned
    arrivedAt, \* history: when the request was checked
    leftAt,    \* history: when it last touched the bucket
    resetAt    \* history: the last reset of a tenant's limits

vars == <<now, bucket, pc, answer, arrivedAt, leftAt, resetAt>>

Minimum(x, y) == IF x <= y THEN x ELSE y

NewBucket(r) == [tokens |-> LimitOf[TierOf[r]] * Window, lastRefill |-> now,
                 capacity |-> LimitOf[TierOf[r]]]

\* The key is tenant and endpoint: the tier counts only when the bucket is new.
BucketFor(r) == IF bucket[TenantOf[r]] = NULL THEN NewBucket(r) ELSE bucket[TenantOf[r]]

\* Mutant: only whole windows are credited, the rest of the time is lost.
RefillWholeWindows(b) ==
    [b EXCEPT !.tokens = Minimum(b.capacity * Window,
                                 b.tokens + ((now - b.lastRefill) \div Window) * b.capacity * Window),
              !.lastRefill = now]

Refill(b) ==
    [b EXCEPT !.tokens = Minimum(b.capacity * Window, b.tokens + (now - b.lastRefill) * b.capacity),
              !.lastRefill = now]

HasToken(b) == b.tokens > 0

\* Mutant: the token is taken without looking.
TakeAlways(b) == [b EXCEPT !.tokens = b.tokens - Window]

Take(b) == IF HasToken(b) THEN [b EXCEPT !.tokens = b.tokens - Window] ELSE b

Init ==
    /\ now = 0
    /\ bucket = [t \in Tenants |-> NULL]
    /\ pc = [r \in Requests |-> "idle"]
    /\ answer = [r \in Requests |-> NULL]
    /\ arrivedAt = [r \in Requests |-> NULL]
    /\ leftAt = [r \in Requests |-> NULL]
    /\ resetAt = [t \in Tenants |-> 0]

\* checkLimit: a denied request goes no further (429).
Check(r) ==
    LET b == Refill(BucketFor(r)) IN
    /\ pc[r] = "idle"
    /\ bucket' = [bucket EXCEPT ![TenantOf[r]] = Take(b)]
    /\ answer' = [answer EXCEPT ![r] =
          [allowed |-> HasToken(b), remaining |-> Take(b).tokens \div Window, limit |-> b.capacity]]
    /\ pc' = [pc EXCEPT ![r] = IF HasToken(b) THEN "increment" ELSE "done"]
    /\ arrivedAt' = [arrivedAt EXCEPT ![r] = now]
    /\ leftAt' = [leftAt EXCEPT ![r] = now]
    /\ UNCHANGED <<now, resetAt>>

\* incrementUsage: the guard takes a second token for the request it admitted.
Increment(r) ==
    /\ pc[r] = "increment"
    /\ bucket' = [bucket EXCEPT ![TenantOf[r]] = Take(Refill(BucketFor(r)))]
    /\ pc' = [pc EXCEPT ![r] = "done"]
    /\ leftAt' = [leftAt EXCEPT ![r] = now]
    /\ UNCHANGED <<now, answer, arrivedAt, resetAt>>

\* Mutant: the idle time is not looked at.
AnyAge(b) == b # NULL

IsIdle(b) == b # NULL /\ now - b.lastRefill > IdleTime

\* cleanupExpiredBuckets, on a timer.
Cleanup ==
    /\ \E t \in Tenants : IsIdle(bucket[t])
    /\ bucket' = [t \in Tenants |-> IF IsIdle(bucket[t]) THEN NULL ELSE bucket[t]]
    /\ UNCHANGED <<now, pc, answer, arrivedAt, leftAt, resetAt>>

\* resetTenantLimits
Reset(t) ==
    /\ bucket[t] # NULL
    /\ bucket' = [bucket EXCEPT ![t] = NULL]
    /\ resetAt' = [resetAt EXCEPT ![t] = now]
    /\ UNCHANGED <<now, pc, answer, arrivedAt, leftAt>>

Tick ==
    /\ now < MaxTime
    /\ now' = now + 1
    /\ UNCHANGED <<bucket, pc, answer, arrivedAt, leftAt, resetAt>>

Next ==
    \/ \E r \in Requests : Check(r) \/ Increment(r)
    \/ Cleanup
    \/ \E t \in Tenants : Reset(t)
    \/ Tick

Spec == Init /\ [][Next]_vars

-----------------------------------------------------------------------------
Checked(r) == answer[r] # NULL
Admitted(r) == Checked(r) /\ answer[r].allowed
Denied(r) == Checked(r) /\ ~answer[r].allowed

\* Every variable has its type.
TypeOK ==
    /\ now \in Times
    /\ bucket \in [Tenants -> BucketRows \cup {NULL}]
    /\ pc \in [Requests -> {"idle", "increment", "done"}]
    /\ answer \in [Requests -> Answers \cup {NULL}]
    /\ arrivedAt \in [Requests -> Times \cup {NULL}]
    /\ leftAt \in [Requests -> Times \cup {NULL}]
    /\ resetAt \in [Tenants -> Times]

\* However refills, checks, increments and clean-ups follow each other, a bucket
\* never holds more than its capacity, never owes a whole token (the check is
\* tokens > 0, so it may owe a fraction), and is never refilled from the future.
BucketBounds ==
    \A t \in Tenants : bucket[t] # NULL =>
        /\ -Window < bucket[t].tokens
        /\ bucket[t].tokens <= bucket[t].capacity * Window
        /\ bucket[t].lastRefill <= now

AdmittedSince(t, s) ==
    {r \in Requests : TenantOf[r] = t /\ Admitted(r) /\ arrivedAt[r] >= s /\ arrivedAt[r] > resetAt[t]}

MaxLimit(t) ==
    LET limits == {LimitOf[TierOf[r]] : r \in {q \in Requests : TenantOf[q] = t}} IN
    CHOOSE x \in limits : \A y \in limits : y <= x

\* The burst of the bucket plus what flows in bounds what is admitted, over
\* every interval up to now since the last reset: neither the clean-up of an
\* idle bucket nor two interleaved requests let more through.
AdmissionBound ==
    \A t \in {TenantOf[r] : r \in Requests} : \A s \in 0..now :
        Cardinality(AdmittedSince(t, s)) * Window
            < MaxLimit(t) * Window + (now - s) * MaxLimit(t) + Window

\* A tenant is denied only if another of its requests used the bucket less
\* than one token's refill time before, at the rate of the tier that made the
\* bucket.
DeniedOnlyIfBusy ==
    \A r \in Requests : Denied(r) =>
        \E q \in Requests \ {r} :
            /\ TenantOf[q] = TenantOf[r]
            /\ Checked(q)
            /\ arrivedAt[q] <= arrivedAt[r]
            /\ (arrivedAt[r] - leftAt[q]) * answer[r].limit < Window

(* What the documents and tests say and the code does not do.              *)

\* README: "1000 req/min (free)".  A request is denied only when as many
\* requests as the limit came within the window that ends with it.
FullLimitUsable ==
    \A r \in Requests : Denied(r) =>
        Cardinality({q \in Requests \ {r} : /\ TenantOf[q] = TenantOf[r]
                                            /\ Checked(q)
                                            /\ arrivedAt[q] \in (arrivedAt[r] - Window + 1)..arrivedAt[r]})
            >= LimitOf[TierOf[r]]

\* rate-limit.service.spec.ts: a denied request has 0 remaining.
DeniedRemainingZero == \A r \in Requests : Denied(r) => answer[r].remaining = 0

\* rate-limit.service.spec.ts: the limit of the answer is the tier's.
LimitOfTier == \A r \in Requests : Checked(r) => answer[r].limit = LimitOf[TierOf[r]]
=============================================================================
