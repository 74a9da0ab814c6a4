--------------------------- MODULE RateLimitRedis ---------------------------
(***************************************************************************)
(* The rate limiter with Redis: RateLimitGuard.canActivate over the sorted *)
(* set that RateLimitService keeps for one tenant and endpoint.            *)
(*                                                                         *)
(* A pipeline is not a transaction: the commands of several API processes  *)
(* interleave, so the pruning and counting of a check and its zadd are two *)
(* steps.  The key's expiry (one window after the last zadd) removes only  *)
(* what the pruning would remove and is left out.                          *)
(***************************************************************************)
EXTENDS Integers, FiniteSets

CONSTANTS
    Requests,   \* the requests of the tenant, on any process
    Limit,      \* requests per window
    Window,     \* windowMs, in ticks
    MaxTime,    \* bound: ticks of the clock
    MaxFaults,  \* bound: how often Redis becomes unreachable
    NULL

\* A request adds one member when it is checked and one when it is counted.
Members == Requests \X {"check", "usage"}

VARIABLES
    now,
    up,       \* Redis answers
    faults,
    zset,     \* [Members -> score or NULL]
    pc,       \* "idle", "add", "increment", "done"
    count,    \* currentCount, a local of the request until it is answered
    stamp,    \* the Date.now() of its check
    allowed,  \* NULL until checkLimit returns
    passed,   \* history: the check failed and the request was let through
    before,   \* history: the requests that had left when it began
    touchedAt \* history: when it last added a member

vars == <<now, up, faults, zset, pc, count, stamp, allowed, passed, before, touchedAt>>

Init ==
    /\ now = 0 /\ up = TRUE /\ faults = 0
    /\ zset = [m \in Members |-> NULL]
    /\ pc = [r \in Requests |-> "idle"]
    /\ count = [r \in Requests |-> 0]
    /\ stamp = [r \in Requests |-> NULL]
    /\ allowed = [r \in Requests |-> NULL]
    /\ passed = {}
    /\ before = [r \in Requests |-> {}]
    /\ touchedAt = [r \in Requests |-> NULL]

\* Mutant: nothing is pruned.
EverKept(score) == score # NULL

\* What zremrangebyscore(0, now - windowMs) leaves.
Kept(score) == score # NULL /\ score > now - Window

Prune(z) == [m \in Members |-> IF Kept(z[m]) THEN z[m] ELSE NULL]
Card(z) == Cardinality({m \in Members : z[m] # NULL})

\* The request arrives; zremrangebyscore and zcard.
Count(r) ==
    /\ pc[r] = "idle" /\ up
    /\ zset' = Prune(zset)
    /\ count' = [count EXCEPT ![r] = Card(Prune(zset))]
    /\ stamp' = [stamp EXCEPT ![r] = now]
    /\ before' = [before EXCEPT ![r] = {q \in Requests : pc[q] = "done"}]
    /\ pc' = [pc EXCEPT ![r] = "add"]
    /\ UNCHANGED <<now, up, faults, allowed, passed, touchedAt>>

\* Mutant: the limit itself still passes.
UpToLimit(r) == count[r] <= Limit

UnderLimit(r) == count[r] < Limit

Score(r) == stamp[r]

\* zadd of the request itself, admitted or not, and the answer.
Add(r) ==
    /\ pc[r] = "add" /\ up
    /\ zset' = [zset EXCEPT ![<<r, "check">>] = Score(r)]
    /\ allowed' = [allowed EXCEPT ![r] = UnderLimit(r)]
    /\ pc' = [pc EXCEPT ![r] = IF UnderLimit(r) THEN "increment" ELSE "done"]
    /\ touchedAt' = [touchedAt EXCEPT ![r] = now]
    /\ count' = [count EXCEPT ![r] = 0]
    /\ UNCHANGED <<now, up, faults, stamp, passed, before>>

\* The pipeline throws: checkLimit lets the request pass.
CheckFails(r) ==
    /\ pc[r] \in {"idle", "add"} /\ ~up
    /\ allowed' = [allowed EXCEPT ![r] = TRUE]
    /\ passed' = passed \cup {r}
    /\ stamp' = [stamp EXCEPT ![r] = IF stamp[r] = NULL THEN now ELSE stamp[r]]
    /\ pc' = [pc EXCEPT ![r] = "increment"]
    /\ count' = [count EXCEPT ![r] = 0]
    /\ UNCHANGED <<now, up, faults, zset, before, touchedAt>>

\* incrementUsage: a second member for an admitted request; errors are logged.
Increment(r) ==
    /\ pc[r] = "increment"
    /\ zset' = IF up THEN [zset EXCEPT ![<<r, "usage">>] = now] ELSE zset
    /\ pc' = [pc EXCEPT ![r] = "done"]
    /\ touchedAt' = [touchedAt EXCEPT ![r] = now]
    /\ UNCHANGED <<now, up, faults, count, stamp, allowed, passed, before>>

Disconnect ==
    /\ up /\ faults < MaxFaults
    /\ up' = FALSE /\ faults' = faults + 1
    /\ UNCHANGED <<now, zset, pc, count, stamp, allowed, passed, before, touchedAt>>

Reconnect ==
    /\ ~up /\ up' = TRUE
    /\ UNCHANGED <<now, faults, zset, pc, count, stamp, allowed, passed, before, touchedAt>>

\* resetTenantLimits deletes the key.
Reset ==
    /\ up
    /\ zset' = [m \in Members |-> NULL]
    /\ UNCHANGED <<now, up, faults, pc, count, stamp, allowed, passed, before, touchedAt>>

Tick ==
    /\ now < MaxTime /\ now' = now + 1
    /\ UNCHANGED <<up, faults, zset, pc, count, stamp, allowed, passed, before, touchedAt>>

Next ==
    \/ \E r \in Requests : Count(r) \/ Add(r) \/ CheckFails(r) \/ Increment(r)
    \/ Disconnect \/ Reconnect \/ Reset \/ Tick

Spec == Init /\ [][Next]_vars

-----------------------------------------------------------------------------
Answered(r) == allowed[r] # NULL
Overlap(q, r) == q # r /\ q \notin before[r] /\ r \notin before[q]
Arrived(s, t) == {r \in Requests : stamp[r] # NULL /\ s < stamp[r] /\ stamp[r] <= t}

\* Every variable has its type, and no member is scored in the future.
TypeOK ==
    /\ now \in 0..MaxTime /\ up \in BOOLEAN /\ faults \in 0..MaxFaults
    /\ zset \in [Members -> (0..now) \cup {NULL}]
    /\ pc \in [Requests -> {"idle", "add", "increment", "done"}]
    /\ count \in [Requests -> 0..Cardinality(Members)]
    /\ stamp \in [Requests -> (0..now) \cup {NULL}]
    /\ allowed \in [Requests -> BOOLEAN \cup {NULL}]
    /\ passed \subseteq Requests
    /\ before \in [Requests -> SUBSET Requests]
    /\ touchedAt \in [Requests -> (0..now) \cup {NULL}]

\* The members of an admitted request are in the set, or about to be.
Remembered(r) ==
    /\ zset[<<r, "check">>] # NULL
    /\ zset[<<r, "usage">>] # NULL \/ pc[r] = "increment"

\* Requests that neither overlap nor were let through by an error: within one
\* window and one reset at most half the limit, rounded up, are admitted, since
\* each leaves two members.
SequentialBound ==
    \A S \in SUBSET {r \in Requests : allowed[r] = TRUE /\ r \notin passed /\ Remembered(r)} :
        /\ \A q, r \in S : ~Overlap(q, r)
        /\ \A q, r \in S : stamp[q] - stamp[r] < Window
        => 2 * Cardinality(S) <= Limit + 1

\* A request is denied only if the requests that touched the set in the window
\* before it, admitted or denied, can have left as many members as the limit.
DeniedOnlyIfCrowded ==
    \A r \in Requests : Answered(r) /\ ~allowed[r] =>
        2 * Cardinality({q \in Requests \ {r} : touchedAt[q] # NULL /\ touchedAt[q] > stamp[r] - Window})
            >= Limit

\* README: "In-memory fallback if Redis unavailable": with Redis away no more
\* than the limit pass within a window.
FallbackLimits ==
    Cardinality({r \in Arrived(now - Window, now) : allowed[r] = TRUE}) <= Limit
=============================================================================
