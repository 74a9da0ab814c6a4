----------------------------- MODULE CacheService -----------------------------
(***************************************************************************)
(* CacheService: the in-memory Map that holds the verdicts on API keys,    *)
(* the workspace access of users and the decoded tokens.                   *)
(*                                                                         *)
(* Every method runs without an await, so each is one action.  The order   *)
(* of the Map among entries last used in one tick is left open.            *)
(***************************************************************************)
EXTENDS Integers, FiniteSets

CONSTANTS
    CacheKeys,
    Values,     \* what may be stored
    TTLs,       \* the lifetimes that callers pass
    MaxSize,    \* CACHE_MAX_SIZE
    MaxTime,    \* bound: ticks of the clock
    NULL

ASSUME CacheAssumption ==
    /\ TTLs \subseteq Nat
    /\ MaxSize \in Nat
    /\ MaxTime \in Nat
    /\ NULL \notin Values
    /\ NULL \notin [value : Values, expiresAt : Nat, lastAccessAt : Nat]

VARIABLES
    now,    \* Date.now()
    cache   \* [CacheKeys -> [value, expiresAt, lastAccessAt] or NULL]

cacheVars == <<now, cache>>

Held == {k \in CacheKeys : cache[k] # NULL}

Fresh(k) == cache[k] # NULL /\ now <= cache[k].expiresAt

\* What get returns.
Cached(k) == IF Fresh(k) THEN cache[k].value ELSE NULL

Touch(k) == [cache EXCEPT ![k].lastAccessAt = now]

\* get: an expired entry is deleted, a fresh one is marked as used.
Get(k) == cache' = IF Fresh(k) THEN Touch(k) ELSE [cache EXCEPT ![k] = NULL]

\* Mutant: any entry that is idle in this tick is evicted.
AnyIdle == {k \in Held : cache[k].lastAccessAt < now}

\* evictLeastRecentlyUsed: an entry used in this very tick is no candidate.
LeastRecentlyUsed ==
    {k \in Held : /\ cache[k].lastAccessAt < now
                  /\ \A j \in Held : cache[k].lastAccessAt <= cache[j].lastAccessAt}

IsFull(k) == Cardinality(Held) >= MaxSize /\ cache[k] = NULL

\* set: a new key in a full cache evicts one entry, if it finds one.
Set(k, v, ttl) ==
    LET entry == [value |-> v, expiresAt |-> now + ttl, lastAccessAt |-> now]
    IN \/ /\ IsFull(k)
          /\ \E victim \in LeastRecentlyUsed :
                cache' = [cache EXCEPT ![victim] = NULL, ![k] = entry]
       \/ /\ ~IsFull(k) \/ LeastRecentlyUsed = {}
          /\ cache' = [cache EXCEPT ![k] = entry]

Delete(k) == cache' = [cache EXCEPT ![k] = NULL]

Clear == cache' = [k \in CacheKeys |-> NULL]

\* cleanupExpired, on an interval.
CleanupExpired == cache' = [k \in CacheKeys |-> IF Fresh(k) THEN cache[k] ELSE NULL]

Advance == now < MaxTime /\ now' = now + 1

-----------------------------------------------------------------------------
(* The cache alone, under any caller.                                      *)

CacheInit ==
    /\ now = 0
    /\ cache = [k \in CacheKeys |-> NULL]

CacheNext ==
    \/ /\ \/ \E k \in CacheKeys : \/ Get(k) \/ Delete(k)
                                  \/ \E v \in Values, ttl \in TTLs : Set(k, v, ttl)
          \/ Clear
          \/ CleanupExpired
       /\ UNCHANGED now
    \/ Advance /\ UNCHANGED cache

CacheSpec == CacheInit /\ [][CacheNext]_cacheVars

\* Every variable has its type, and no entry was used in the future.
CacheOK ==
    /\ now \in 0..MaxTime
    /\ cache \in [CacheKeys ->
          [value : Values, expiresAt : Nat, lastAccessAt : 0..MaxTime] \cup {NULL}]
    /\ \A k \in Held : cache[k].lastAccessAt <= now

\* While a key is added, only one other entry goes, and none that was used
\* less recently stays.
EvictsLeastRecentlyUsed ==
    [][\A j, k \in CacheKeys :
          cache[j] = NULL /\ cache'[j] # NULL /\ cache[k] # NULL /\ cache'[k] = NULL
          => \A i \in Held \ {k} :
                cache'[i] # NULL /\ cache[k].lastAccessAt <= cache[i].lastAccessAt
    ]_cacheVars

(* What the code says of itself and does not do.                           *)

\* cache.service.ts: "Check if we need to evict entries to make space".
SizeBounded == Cardinality(Held) <= MaxSize
=============================================================================
