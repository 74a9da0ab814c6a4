--------------------------- MODULE RateLimitService ---------------------------
(***************************************************************************)
(* RateLimitService as a process runs it: initializeRedis decides in the   *)
(* constructor which of the two limiters serves, and that never changes,   *)
(* whatever becomes of the connection.                                     *)
(***************************************************************************)
EXTENDS RateLimit

CONSTANTS
    MaxFaults   \* bound: how often Redis becomes unreachable

VARIABLES
    backend,    \* "memory" or "redis": whether redisClient was set
    up, faults, zset, count, stamp, allowed, passed, before, touchedAt

redisVars == <<up, faults, zset, count, stamp, allowed, passed, before, touchedAt>>
memoryVars == <<bucket, answer, arrivedAt, leftAt, resetAt>>

ASSUME ServiceAssumption == "free" \in Tiers /\ MaxFaults \in Nat /\ NULL \notin BOOLEAN

\* The sorted set is that of one tenant of the free tier.
Redis == INSTANCE RateLimitRedis WITH Limit <- LimitOf["free"]

ServiceInit == Init /\ Redis!Init /\ backend \in {"memory", "redis"}

InMemory(A) == backend = "memory" /\ A /\ UNCHANGED <<backend, redisVars>>
OverRedis(A) == backend = "redis" /\ A /\ UNCHANGED <<backend, memoryVars>>

ServiceNext ==
    \/ \E r \in Requests : InMemory(Check(r)) \/ InMemory(Increment(r))
    \/ \E t \in Tenants : InMemory(Reset(t))
    \/ InMemory(Cleanup)
    \/ InMemory(Tick)
    \/ \E r \in Requests : \/ OverRedis(Redis!Count(r)) \/ OverRedis(Redis!Add(r))
                           \/ OverRedis(Redis!CheckFails(r)) \/ OverRedis(Redis!Increment(r))
    \/ OverRedis(Redis!Disconnect)
    \/ OverRedis(Redis!Reconnect)
    \/ OverRedis(Redis!Reset)
    \/ OverRedis(Redis!Tick)

ServiceSpec == ServiceInit /\ [][ServiceNext]_<<vars, backend, redisVars>>

\* See RateLimitRedis: requests that do not overlap are held to the limit.
SequentialBound == Redis!SequentialBound

\* See RateLimitRedis: a denial is earned by the requests of the window.
DeniedOnlyIfCrowded == Redis!DeniedOnlyIfCrowded
=============================================================================
