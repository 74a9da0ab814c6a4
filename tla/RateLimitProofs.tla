-------------------------- MODULE RateLimitProofs --------------------------
(***************************************************************************)
(* Theorems about RateLimit and RateLimitService for every number of       *)
(* tenants, requests, tiers, limits and window length: the token buckets   *)
(* first, then the sorted set of Redis, then the service that uses one.    *)
(***************************************************************************)
EXTENDS RateLimitService, TLAPS, FiniteSetTheorems, WellFoundedInduction

\* A bucket as the limiter leaves it at the current time.
GoodBucket(b) ==
    /\ b \in BucketRows
    /\ -Window < b.tokens
    /\ b.tokens <= b.capacity * Window
    /\ b.lastRefill <= now

IInv == TypeOK /\ BucketBounds

\* What is assumed of the limits, the window and the tiers.
LEMMA Constants ==
    /\ TenantOf \in [Requests -> Tenants]
    /\ TierOf \in [Requests -> Tiers]
    /\ LimitOf \in [Tiers -> Nat \ {0}]
    /\ Window \in Nat /\ Window > 0 /\ MaxTime \in Nat
    /\ NULL \notin BucketRows \cup Answers \cup Times
BY LimitAssumption, NullAssumption

\* Refilling and taking keep a bucket good.
LEMMA RefillGood ==
    ASSUME NEW b, GoodBucket(b), now \in Times
    PROVE  GoodBucket(Refill(b))
<1>1. /\ b.tokens \in Int /\ b.capacity \in Nat /\ b.capacity > 0
      /\ b.lastRefill \in 0..MaxTime /\ now \in 0..MaxTime
  BY DEF GoodBucket, BucketRows, Times
<1> DEFINE full == b.capacity * Window
           filled == b.tokens + (now - b.lastRefill) * b.capacity
<1>2. full \in Nat
  BY <1>1, Constants
<1>3. (now - b.lastRefill) * b.capacity \in Nat
  BY <1>1, Constants DEF GoodBucket
<1>4. filled \in Int /\ filled > -Window
  BY <1>1, <1>3, Constants DEF GoodBucket
<1>5. Minimum(full, filled) \in Int /\ Minimum(full, filled) <= full /\ Minimum(full, filled) > -Window
  BY <1>2, <1>4, Constants DEF Minimum
<1>6. /\ Refill(b).tokens = Minimum(full, filled)
      /\ Refill(b).lastRefill = now
      /\ Refill(b).capacity = b.capacity
      /\ Refill(b) \in BucketRows
  BY <1>1, <1>5 DEF Refill, GoodBucket, BucketRows, Times
<1> QED
  BY <1>1, <1>5, <1>6, Constants DEF GoodBucket, Times

\* Taking a token, or finding none to take, leaves a bucket good.
LEMMA TakeGood ==
    ASSUME NEW b, GoodBucket(b)
    PROVE  GoodBucket(Take(b))
<1>1. b.tokens \in Int /\ b.capacity \in Nat /\ Window \in Nat
  BY Constants DEF GoodBucket, BucketRows
<1>2. CASE HasToken(b)
  <2>1. /\ Take(b) \in BucketRows
        /\ Take(b).tokens = b.tokens - Window
        /\ Take(b).capacity = b.capacity /\ Take(b).lastRefill = b.lastRefill
    BY <1>1, <1>2 DEF Take, GoodBucket, BucketRows
  <2> DEFINE full == b.capacity * Window
  <2>2. full \in Int /\ b.tokens <= full
    BY <1>1 DEF GoodBucket
  <2>3. b.tokens - Window <= full
    BY <1>1, <2>2
  <2> QED
    BY <1>1, <1>2, <2>1, <2>3 DEF HasToken, GoodBucket
<1>3. CASE ~HasToken(b)
  BY <1>3 DEF Take
<1> QED
  BY <1>2, <1>3

\* Whatever bucket a request finds, a good one comes back.
LEMMA BucketForGood ==
    ASSUME IInv, NEW r \in Requests
    PROVE  GoodBucket(BucketFor(r))
<1>1. TenantOf[r] \in Tenants /\ LimitOf[TierOf[r]] \in Nat \ {0}
  BY Constants
<1>2. CASE bucket[TenantOf[r]] = NULL
  <2> DEFINE limit == LimitOf[TierOf[r]]
  <2>1. limit * Window \in Int /\ limit * Window > -Window
    BY <1>1, Constants
  <2>2. now \in Times
    BY DEF IInv, TypeOK
  <2> HIDE DEF limit
  <2>3. NewBucket(r) = [tokens |-> limit * Window, lastRefill |-> now, capacity |-> limit]
    BY DEF NewBucket, limit
  <2>4. limit \in Nat \ {0}
    BY <1>1 DEF limit
  <2> QED
    BY <1>2, <2>1, <2>2, <2>3, <2>4 DEF BucketFor, GoodBucket, BucketRows, Times
<1>3. CASE bucket[TenantOf[r]] # NULL
  BY <1>1, <1>3 DEF IInv, TypeOK, BucketBounds, BucketFor, GoodBucket
<1> QED
  BY <1>2, <1>3

\* Without buckets there is nothing to bound.
LEMMA InitIInv == Init => IInv
BY Constants DEF Init, IInv, TypeOK, BucketBounds, Times

\* Checks, increments, clean-ups, resets and ticks keep the bounds.
LEMMA NextIInv == IInv /\ [Next]_vars => IInv'
<1> SUFFICES ASSUME IInv, [Next]_vars PROVE IInv'
  OBVIOUS
<1>0. now \in Times /\ now \in Int
  BY DEF IInv, TypeOK, Times
<1>1. ASSUME NEW r \in Requests, Check(r) PROVE IInv'
  <2> DEFINE b == Refill(BucketFor(r))
  <2>1. GoodBucket(b) /\ GoodBucket(Take(b))
    BY <1>0, BucketForGood, RefillGood, TakeGood
  <2>2. Take(b).tokens \div Window \in Int /\ b.capacity \in Int
    BY <2>1, Constants DEF GoodBucket, BucketRows
  <2>3. [allowed |-> HasToken(b), remaining |-> Take(b).tokens \div Window,
         limit |-> b.capacity] \in Answers
    BY <2>2 DEF Answers, HasToken
  <2> HIDE DEF b
  <2>4. bucket' = [bucket EXCEPT ![TenantOf[r]] = Take(b)] /\ now' = now
    BY <1>1 DEF Check, b
  <2>5. answer' \in [Requests -> Answers \cup {NULL}]
    BY <1>1, <2>3 DEF Check, IInv, TypeOK, b
  <2>6. bucket' \in [Tenants -> BucketRows \cup {NULL}] /\ BucketBounds'
    BY <2>1, <2>4, Constants DEF IInv, TypeOK, BucketBounds, GoodBucket
  <2> QED
    BY <1>1, <2>5, <2>6 DEF Check, IInv, TypeOK
<1>2. ASSUME NEW r \in Requests, Increment(r) PROVE IInv'
  <2> DEFINE b == Take(Refill(BucketFor(r)))
  <2>1. GoodBucket(b)
    BY <1>0, BucketForGood, RefillGood, TakeGood
  <2> HIDE DEF b
  <2>2. bucket' = [bucket EXCEPT ![TenantOf[r]] = b] /\ now' = now
    BY <1>2 DEF Increment, b
  <2>3. bucket' \in [Tenants -> BucketRows \cup {NULL}] /\ BucketBounds'
    BY <2>1, <2>2, Constants DEF IInv, TypeOK, BucketBounds, GoodBucket
  <2> QED
    BY <1>2, <2>3 DEF Increment, IInv, TypeOK
<1>3. CASE Cleanup
  BY <1>3 DEF Cleanup, IInv, TypeOK, BucketBounds
<1>4. ASSUME NEW t \in Tenants, Reset(t) PROVE IInv'
  BY <1>4 DEF Reset, IInv, TypeOK, BucketBounds
<1>5. CASE Tick
  BY <1>0, <1>5, Constants DEF Tick, IInv, TypeOK, BucketBounds, BucketRows, Times
<1>6. CASE UNCHANGED vars
  BY <1>6 DEF vars, IInv, TypeOK, BucketBounds
<1> QED
  BY <1>1, <1>2, <1>3, <1>4, <1>5, <1>6 DEF Next

\* The state of the limiter is always well typed.
THEOREM TypeCorrect == Spec => []TypeOK
<1>1. IInv => TypeOK
  BY DEF IInv
<1> QED
  BY <1>1, InitIInv, NextIInv, PTL DEF Spec

\* No bucket ever holds more than its capacity or owes a whole token.
THEOREM BucketsBounded == Spec => []BucketBounds
<1>1. IInv => BucketBounds
  BY DEF IInv
<1> QED
  BY <1>1, InitIInv, NextIInv, PTL DEF Spec

-----------------------------------------------------------------------------
(* The limits of a tenant.                                                 *)

\* Of finitely many tiers one has the greatest limit.
LEMMA GreatestTier ==
    ASSUME NEW S, S \subseteq Tiers, S # {}
    PROVE  \E k \in S : \A j \in S : LimitOf[j] <= LimitOf[k]
<1> DEFINE Bad == {A \in SUBSET S : A # {} /\ ~\E k \in A : \A j \in A : LimitOf[j] <= LimitOf[k]}
<1> SUFFICES ASSUME Bad # {} PROVE FALSE
  OBVIOUS
<1>1. IsFiniteSet(S)
  BY TiersAssumption, FS_Subset
<1>2. IsWellFoundedOn(StrictSubsetOrdering(S), FiniteSubsetsOf(S)) /\ FiniteSubsetsOf(S) = SUBSET S
  BY <1>1, FS_StrictSubsetOrderingWellFounded, FS_FiniteSubsetsOfFinite
<1>3. PICK A \in Bad : \A B \in Bad : <<B, A>> \notin StrictSubsetOrdering(S)
  <2>1. Bad \subseteq SUBSET S
    OBVIOUS
  <2> HIDE DEF Bad
  <2> QED
    BY <1>2, <2>1, WFMin
<1>4. PICK k \in A : TRUE
  OBVIOUS
<1>5. A \ {k} \notin Bad
  BY <1>3, <1>4 DEF StrictSubsetOrdering
<1>6. \A i \in A : LimitOf[i] \in Nat
  BY Constants
<1>7. A \ {k} # {}
  BY <1>4, <1>6
<1>8. PICK j \in A \ {k} : \A i \in A \ {k} : LimitOf[i] <= LimitOf[j]
  BY <1>5, <1>7
<1>9. LimitOf[k] <= LimitOf[j] \/ LimitOf[j] <= LimitOf[k]
  BY <1>4, <1>6, <1>8
<1> QED
  BY <1>4, <1>6, <1>8, <1>9

\* The greatest limit of a tenant that has requests.
LEMMA MaxLimitOK ==
    ASSUME NEW t, NEW q \in Requests, TenantOf[q] = t
    PROVE  /\ MaxLimit(t) \in Nat /\ MaxLimit(t) > 0
           /\ \A r \in Requests : TenantOf[r] = t => LimitOf[TierOf[r]] <= MaxLimit(t)
<1> DEFINE S == {TierOf[r] : r \in {p \in Requests : TenantOf[p] = t}}
           limits == {LimitOf[TierOf[r]] : r \in {p \in Requests : TenantOf[p] = t}}
<1>1. S \subseteq Tiers /\ S # {}
  BY Constants
<1>2. PICK k \in S : \A j \in S : LimitOf[j] <= LimitOf[k]
  BY <1>1, GreatestTier
<1>3. LimitOf[k] \in limits /\ \A y \in limits : y <= LimitOf[k]
  BY <1>2
<1>4. MaxLimit(t) = CHOOSE x \in limits : \A y \in limits : y <= x
  BY DEF MaxLimit
<1>5. MaxLimit(t) \in limits /\ \A y \in limits : y <= MaxLimit(t)
  BY <1>3, <1>4
<1>6. limits \subseteq Nat \ {0}
  BY Constants
<1> QED
  BY <1>5, <1>6

-----------------------------------------------------------------------------
(* What a bucket lacks.                                                    *)

\* What a bucket lacks of its capacity, in units, when refilled now.
Lack(b) == b.capacity * Window - Refill(b).tokens

Deficit(t) == IF bucket[t] = NULL THEN 0 ELSE Lack(bucket[t])

\* Multiplying once more.
LEMMA OnceMore == ASSUME NEW x \in Int, NEW y \in Int PROVE (x + 1) * y = x * y + y
OBVIOUS

\* A product grows with its factors.
LEMMA Grow == ASSUME NEW x \in Int, NEW y \in Int, NEW z \in Nat, x <= y PROVE x * z <= y * z
<1>1. PICK d \in Nat : y = x + d
  <2>1. y - x \in Nat /\ y = x + (y - x)
    OBVIOUS
  <2> QED
    BY <2>1
<1>2. y * z = x * z + d * z /\ d * z \in Nat /\ x * z \in Int
  BY <1>1
<1> QED
  BY <1>2

\* A refilled bucket, and what it lacks.
LEMMA Refilled ==
    ASSUME NEW b, GoodBucket(b), now \in Times
    PROVE  /\ GoodBucket(Refill(b)) /\ Refill(b).lastRefill = now /\ Refill(b).capacity = b.capacity
           /\ Lack(b) \in Nat /\ b.capacity \in Nat /\ b.capacity > 0
           /\ Refill(b).tokens \in Int /\ b.tokens \in Int
           /\ b.capacity * Window \in Nat /\ (now - b.lastRefill) * b.capacity \in Nat
           /\ Refill(b).tokens = Minimum(b.capacity * Window, b.tokens + (now - b.lastRefill) * b.capacity)
<1>1. GoodBucket(Refill(b)) /\ b \in BucketRows
  BY RefillGood DEF GoodBucket
<1>2. /\ Refill(b).lastRefill = now /\ Refill(b).capacity = b.capacity
      /\ Refill(b).tokens = Minimum(b.capacity * Window, b.tokens + (now - b.lastRefill) * b.capacity)
  BY <1>1 DEF Refill, BucketRows
<1>3. b.capacity \in Nat /\ b.capacity > 0 /\ b.tokens \in Int /\ now - b.lastRefill \in Nat
  BY <1>1 DEF GoodBucket, BucketRows, Times
<1>4. b.capacity * Window \in Nat /\ (now - b.lastRefill) * b.capacity \in Nat
  BY <1>3, Constants
<1>5. Refill(b).tokens \in Int /\ Refill(b).tokens <= b.capacity * Window
  BY <1>1, <1>2 DEF GoodBucket, BucketRows
<1> QED
  BY <1>1, <1>2, <1>3, <1>4, <1>5 DEF Lack

\* A bucket that has just been refilled lacks what it lacked, and a token more
\* if one is taken.
LEMMA LackOfTaken ==
    ASSUME NEW b, GoodBucket(b), now \in Times
    PROVE  Lack(Take(Refill(b))) = IF HasToken(Refill(b)) THEN Lack(b) + Window ELSE Lack(b)
<1> DEFINE c == Refill(b)
           d == Take(c)
<1>1. /\ GoodBucket(c) /\ c.lastRefill = now /\ c.capacity = b.capacity
      /\ b.capacity * Window \in Nat /\ c.tokens \in Int /\ b.capacity \in Nat
  BY Refilled
<1>2. GoodBucket(d)
  BY <1>1, TakeGood
<1> HIDE DEF c
<1>3. /\ d.capacity = b.capacity /\ d.lastRefill = now
      /\ d.tokens = IF HasToken(c) THEN c.tokens - Window ELSE c.tokens
  BY <1>1 DEF Take, GoodBucket, BucketRows
<1>4. d.tokens <= d.capacity * Window /\ d.tokens \in Int
  BY <1>2 DEF GoodBucket, BucketRows
<1> HIDE DEF d
<1>5. Refill(d).tokens = Minimum(b.capacity * Window, d.tokens + (now - now) * b.capacity)
  BY <1>2, <1>3, Refilled
<1>6. (now - now) * b.capacity = 0
  BY <1>1 DEF Times
<1>7. Refill(d).tokens = d.tokens
  BY <1>1, <1>3, <1>4, <1>5, <1>6 DEF Minimum
<1>8. Lack(d) = b.capacity * Window - d.tokens /\ Lack(b) = b.capacity * Window - c.tokens
  BY <1>3, <1>7 DEF Lack, c
<1> QED
  BY <1>1, <1>3, <1>4, <1>8, Constants DEF c, d

\* A bucket that is made is full.
LEMMA LackOfNew ==
    ASSUME NEW r \in Requests, now \in Times
    PROVE  GoodBucket(NewBucket(r)) /\ Lack(NewBucket(r)) = 0 /\ NewBucket(r).capacity = LimitOf[TierOf[r]]
<1> DEFINE limit == LimitOf[TierOf[r]]
<1>1. limit \in Nat /\ limit > 0 /\ limit * Window \in Nat /\ Window > 0 /\ now \in Int
  BY Constants DEF Times
<1> HIDE DEF limit
<1>2. NewBucket(r) = [tokens |-> limit * Window, lastRefill |-> now, capacity |-> limit]
  BY DEF NewBucket, limit
<1>3. GoodBucket(NewBucket(r))
  <2>1. limit * Window \in Int /\ -Window < limit * Window /\ limit \in Nat \ {0} /\ now <= now
    BY <1>1, Constants
  <2>2. NewBucket(r) \in BucketRows
    BY <1>2, <2>1 DEF BucketRows
  <2> QED
    BY <1>2, <2>1, <2>2 DEF GoodBucket
<1>4. Refill(NewBucket(r)).tokens = Minimum(limit * Window, limit * Window + (now - now) * limit)
  BY <1>2, <1>3, Refilled
<1>5. (now - now) * limit = 0
  BY <1>1
<1> QED
  BY <1>1, <1>2, <1>3, <1>4, <1>5 DEF Lack, Minimum, limit

\* While a tick passes, no more than the capacity flows in.
LEMMA LackOfTick ==
    ASSUME NEW b, GoodBucket(b), now \in Times, now' = now + 1, now' \in Times
    PROVE  Lack(b)' \in Nat /\ Lack(b) <= Lack(b)' + b.capacity
<1> DEFINE full == b.capacity * Window
           flow == (now - b.lastRefill) * b.capacity
<1>1. /\ b.capacity \in Nat /\ b.tokens \in Int /\ full \in Nat /\ flow \in Nat
      /\ Refill(b).tokens = Minimum(full, b.tokens + flow)
  BY Refilled
<1>2. b.lastRefill \in Int /\ now \in Int
  BY DEF GoodBucket, BucketRows, Times
<1>3. (now' - b.lastRefill) * b.capacity = flow + b.capacity
  <2>1. (now - b.lastRefill + 1) * b.capacity = flow + b.capacity
    BY <1>1, <1>2, OnceMore
  <2>2. now' - b.lastRefill = now - b.lastRefill + 1
    BY <1>2
  <2> QED
    BY <2>1, <2>2
<1>4. Refill(b).tokens' = Minimum(full, b.tokens + (flow + b.capacity))
  <2>1. Refill(b).tokens' = Minimum(full, b.tokens + (now' - b.lastRefill) * b.capacity)
    BY DEF Refill, GoodBucket, BucketRows
  <2> QED
    BY <1>3, <2>1
<1>5. Lack(b) = full - Minimum(full, b.tokens + flow)
  BY <1>1 DEF Lack
<1>6. Lack(b)' = full - Minimum(full, b.tokens + (flow + b.capacity))
  BY <1>4 DEF Lack
<1> HIDE DEF full, flow
<1> QED
  BY <1>1, <1>5, <1>6 DEF Minimum

\* A bucket that is cleaned up is full.
LEMMA LackOfIdle ==
    ASSUME NEW b, GoodBucket(b), now \in Times, b # NULL, IsIdle(b),
           NEW r \in Requests, b.capacity = LimitOf[TierOf[r]]
    PROVE  Lack(b) = 0
<1> DEFINE cap == b.capacity
<1>1. /\ cap \in Nat /\ cap > 0 /\ b.tokens \in Int /\ cap * Window \in Nat
      /\ (now - b.lastRefill) * cap \in Nat
      /\ Refill(b).tokens = Minimum(cap * Window, b.tokens + (now - b.lastRefill) * cap)
  BY Refilled
<1>2. /\ b.lastRefill \in Int /\ now \in Int /\ b.lastRefill <= now /\ b.tokens > -Window
  BY DEF GoodBucket, BucketRows, Times
<1>3. /\ IdleTime \in Nat /\ Window \in Nat
      /\ (IdleTime + 1) * cap >= (cap + 1) * Window - 1
  BY Constants, IdleAssumption
<1>4. now - b.lastRefill \in Nat /\ IdleTime + 1 \in Nat /\ IdleTime + 1 <= now - b.lastRefill
  BY <1>2, <1>3 DEF IsIdle
<1> HIDE DEF cap
<1>5. (IdleTime + 1) * cap <= (now - b.lastRefill) * cap
  BY <1>1, <1>4, Grow
<1>6. (cap + 1) * Window = cap * Window + Window
  BY <1>1, <1>3, OnceMore
<1>7. (IdleTime + 1) * cap \in Nat
  BY <1>1, <1>3
<1>8. b.tokens + (now - b.lastRefill) * cap >= cap * Window
  BY <1>1, <1>2, <1>3, <1>5, <1>6, <1>7
<1> QED
  BY <1>1, <1>8 DEF Lack, Minimum, cap

-----------------------------------------------------------------------------
(* What is admitted, and what is denied.                                   *)

\* A bucket is that of the tier of one of the tenant's requests, and was last
\* used when one of them left it.
UsedOK ==
    \A t \in Tenants : bucket[t] # NULL =>
        /\ \E r \in Requests : TenantOf[r] = t /\ bucket[t].capacity = LimitOf[TierOf[r]]
        /\ \E q \in Requests : TenantOf[q] = t /\ Checked(q) /\ leftAt[q] = bucket[t].lastRefill

\* A request has times and a limit when it was checked, and the times are past.
TimesOK ==
    \A r \in Requests :
        /\ pc[r] = "idle" <=> ~Checked(r)
        /\ Checked(r) => /\ arrivedAt[r] \in Times /\ arrivedAt[r] <= now
                         /\ leftAt[r] \in Times /\ leftAt[r] <= now
                         /\ answer[r].limit \in Nat

\* What was admitted since s is paid for by what the bucket lacks and by what
\* has flowed in since.
Paid(t, s) ==
    /\ IsFiniteSet(AdmittedSince(t, s))
    /\ Cardinality(AdmittedSince(t, s)) * Window <= Deficit(t) + (now - s) * MaxLimit(t)

PaidInv == \A q \in Requests : \A s \in 0..now : Paid(TenantOf[q], s)

MemInv == IInv /\ UsedOK /\ TimesOK /\ PaidInv /\ DeniedOnlyIfBusy

\* The bucket of a tenant is good, and does not hold more than its greatest limit.
LEMMA BucketOfTenant ==
    ASSUME IInv, UsedOK, NEW t \in Tenants, bucket[t] # NULL
    PROVE  /\ GoodBucket(bucket[t]) /\ now \in Times /\ now \in Nat
           /\ bucket[t].capacity \in Nat /\ MaxLimit(t) \in Nat /\ bucket[t].capacity <= MaxLimit(t)
<1>1. GoodBucket(bucket[t]) /\ now \in Times /\ now \in Nat /\ bucket[t].capacity \in Nat
  BY DEF IInv, TypeOK, BucketBounds, GoodBucket, BucketRows, Times
<1>2. PICK r \in Requests : TenantOf[r] = t /\ bucket[t].capacity = LimitOf[TierOf[r]]
  BY DEF UsedOK
<1> QED
  BY <1>1, <1>2, MaxLimitOK

\* What a tenant's bucket lacks is a number.
LEMMA DeficitNat == IInv => \A t \in Tenants : Deficit(t) \in Nat
<1> SUFFICES ASSUME IInv, NEW t \in Tenants PROVE Deficit(t) \in Nat
  OBVIOUS
<1>1. CASE bucket[t] = NULL
  BY <1>1 DEF Deficit
<1>2. CASE bucket[t] # NULL
  <2>1. GoodBucket(bucket[t]) /\ now \in Times
    BY <1>2 DEF IInv, TypeOK, BucketBounds, GoodBucket
  <2> QED
    BY <1>2, <2>1, Refilled DEF Deficit
<1> QED
  BY <1>1, <1>2

\* The bound follows: a bucket lacks less than its capacity and a token.
LEMMA PaidBounds ==
    ASSUME IInv, UsedOK, PaidInv
    PROVE  AdmissionBound
<1> SUFFICES ASSUME NEW q \in Requests, NEW s \in 0..now
             PROVE  Cardinality(AdmittedSince(TenantOf[q], s)) * Window
                      < MaxLimit(TenantOf[q]) * Window + (now - s) * MaxLimit(TenantOf[q]) + Window
  BY DEF AdmissionBound
<1> DEFINE t == TenantOf[q]
           n == Cardinality(AdmittedSince(t, s))
           m == MaxLimit(t)
<1>1. t \in Tenants /\ m \in Nat /\ m > 0 /\ Window \in Nat /\ Window > 0
  BY Constants, MaxLimitOK
<1>2. n \in Nat /\ n * Window <= Deficit(t) + (now - s) * m
  BY FS_CardinalityType DEF PaidInv, Paid
<1>3. now - s \in Nat
  BY DEF IInv, TypeOK, Times
<1>4. Deficit(t) \in Nat /\ Deficit(t) < m * Window + Window
  <2>1. CASE bucket[t] = NULL
    BY <1>1, <2>1 DEF Deficit
  <2>2. CASE bucket[t] # NULL
    <3>1. GoodBucket(bucket[t]) /\ now \in Times /\ bucket[t].capacity \in Nat /\ bucket[t].capacity <= m
      BY <1>1, <2>2, BucketOfTenant
    <3>2. Lack(bucket[t]) \in Nat /\ GoodBucket(Refill(bucket[t])) /\ Refill(bucket[t]).tokens \in Int
          /\ bucket[t].capacity * Window \in Nat
      BY <3>1, Refilled
    <3>3. Lack(bucket[t]) < bucket[t].capacity * Window + Window
      BY <1>1, <3>2 DEF Lack, GoodBucket
    <3>4. bucket[t].capacity * Window <= m * Window /\ m * Window \in Nat
      BY <1>1, <3>1, Grow
    <3> QED
      BY <1>1, <2>2, <3>2, <3>3, <3>4 DEF Deficit
  <2> QED
    BY <2>1, <2>2
<1>5. (now - s) * m \in Nat /\ n * Window \in Nat /\ m * Window \in Nat
  BY <1>1, <1>2, <1>3
<1> HIDE DEF n, m, t
<1>6. n * Window < m * Window + (now - s) * m + Window
  BY <1>1, <1>2, <1>4, <1>5
<1> QED
  BY <1>6 DEF n, m, t

\* Before anything is asked.
LEMMA InitMemInv == Init => MemInv
<1> SUFFICES ASSUME Init PROVE MemInv
  OBVIOUS
<1>1. IInv
  BY InitIInv
<1>2. UsedOK /\ TimesOK /\ DeniedOnlyIfBusy
  BY Constants DEF Init, UsedOK, TimesOK, DeniedOnlyIfBusy, Checked, Denied
<1>3. ASSUME NEW q \in Requests, NEW s \in 0..now PROVE Paid(TenantOf[q], s)
  <2>1. AdmittedSince(TenantOf[q], s) = {}
    BY DEF Init, AdmittedSince, Admitted, Checked
  <2>2. Deficit(TenantOf[q]) = 0 /\ now = 0 /\ s = 0
    BY <1>3, Constants DEF Init, Deficit
  <2>3. MaxLimit(TenantOf[q]) \in Nat
    BY MaxLimitOK
  <2>4. IsFiniteSet({}) /\ Cardinality({}) = 0
    BY FS_EmptySet
  <2> QED
    BY <2>1, <2>2, <2>3, <2>4, Constants DEF Paid
<1> QED
  BY <1>1, <1>2, <1>3 DEF MemInv, PaidInv

\* A step that admits nobody, at the same time, keeps what was paid for if
\* the buckets lack no less.
LEMMA PaidKept ==
    ASSUME IInv, PaidInv, now' = now,
           \A t \in Tenants : Deficit(t)' \in Nat /\ Deficit(t) <= Deficit(t)',
           \A q \in Requests : \A s \in 0..now :
               AdmittedSince(TenantOf[q], s)' \subseteq AdmittedSince(TenantOf[q], s)
    PROVE  PaidInv'
<1> SUFFICES ASSUME NEW q \in Requests, NEW s \in 0..now PROVE Paid(TenantOf[q], s)'
  BY DEF PaidInv
<1> DEFINE t == TenantOf[q]
           A == AdmittedSince(t, s)
           m == MaxLimit(t)
<1>1. t \in Tenants /\ Deficit(t) \in Nat /\ Deficit(t)' \in Nat /\ Deficit(t) <= Deficit(t)'
  BY Constants, DeficitNat
<1>2. IsFiniteSet(A) /\ Cardinality(A) * Window <= Deficit(t) + (now - s) * m /\ A' \subseteq A
  BY DEF PaidInv, Paid
<1>3. IsFiniteSet(A') /\ Cardinality(A') <= Cardinality(A) /\ Cardinality(A') \in Nat /\ Cardinality(A) \in Nat
  BY <1>2, FS_Subset, FS_CardinalityType
<1>4. m \in Nat /\ Window \in Nat /\ now - s \in Nat
  <2>1. m \in Nat
    BY MaxLimitOK
  <2> QED
    BY <2>1, Constants DEF IInv, TypeOK, Times
<1>5. Cardinality(A') * Window <= Cardinality(A) * Window
  BY <1>3, <1>4, Grow
<1>6. (now - s) * m \in Nat /\ Cardinality(A') * Window \in Nat /\ Cardinality(A) * Window \in Nat
  BY <1>3, <1>4
<1> HIDE DEF A, m, t
<1>7. Cardinality(A') * Window <= Deficit(t)' + (now - s) * m
  BY <1>1, <1>2, <1>5, <1>6
<1> QED
  BY <1>3, <1>4, <1>7 DEF Paid, A, m, t

\* What a denial had as its reason remains one.
LEMMA BusyKept ==
    ASSUME TimesOK, TimesOK', IInv, DeniedOnlyIfBusy,
           \A r \in Requests : Checked(r) =>
               /\ answer'[r] = answer[r] /\ arrivedAt'[r] = arrivedAt[r] /\ leftAt[r] <= leftAt'[r],
           NEW r \in Requests, Denied(r)', Checked(r)
    PROVE  \E q \in Requests \ {r} :
               /\ TenantOf[q] = TenantOf[r] /\ Checked(q)' /\ arrivedAt'[q] <= arrivedAt'[r]
               /\ (arrivedAt'[r] - leftAt'[q]) * answer'[r].limit < Window
<1>1. Denied(r)
  BY DEF Denied, Checked
<1>2. PICK q \in Requests \ {r} :
         /\ TenantOf[q] = TenantOf[r] /\ Checked(q) /\ arrivedAt[q] <= arrivedAt[r]
         /\ (arrivedAt[r] - leftAt[q]) * answer[r].limit < Window
  BY <1>1 DEF DeniedOnlyIfBusy
<1>3. Checked(q)' /\ arrivedAt'[q] = arrivedAt[q] /\ leftAt[q] <= leftAt'[q]
      /\ arrivedAt'[r] = arrivedAt[r] /\ answer'[r] = answer[r]
  BY <1>2 DEF Checked
<1>4. arrivedAt[r] \in Int /\ leftAt[q] \in Int /\ leftAt'[q] \in Int
  BY <1>2, <1>3 DEF TimesOK, Times
<1>5. answer[r].limit \in Nat /\ Window \in Nat
  BY Constants DEF TimesOK
<1> DEFINE x == arrivedAt[r] - leftAt[q]
           y == arrivedAt[r] - leftAt'[q]
<1>6. x \in Int /\ y \in Int /\ y <= x
  BY <1>3, <1>4
<1>7. y * answer[r].limit <= x * answer[r].limit
  <2> HIDE DEF x, y
  <2> QED
    BY <1>5, <1>6, Grow
<1>8. y * answer[r].limit \in Int /\ x * answer[r].limit \in Int
  BY <1>5, <1>6
<1>9. y * answer[r].limit < Window
  BY <1>2, <1>5, <1>7, <1>8
<1> QED
  BY <1>2, <1>3, <1>9

\* What a request finds and leaves: a bucket that lacks what the tenant's did,
\* and a token more if it took one.
LEMMA Use ==
    ASSUME IInv, UsedOK, NEW r \in Requests,
           bucket' = [bucket EXCEPT ![TenantOf[r]] = Take(Refill(BucketFor(r)))], now' = now
    PROVE  /\ Deficit(TenantOf[r])' = IF HasToken(Refill(BucketFor(r)))
                                      THEN Deficit(TenantOf[r]) + Window ELSE Deficit(TenantOf[r])
           /\ \A t \in Tenants : t # TenantOf[r] => Deficit(t)' = Deficit(t) /\ bucket'[t] = bucket[t]
           /\ bucket'[TenantOf[r]].lastRefill = now
           /\ Refill(BucketFor(r)).capacity \in Nat
           /\ \E p \in Requests : /\ TenantOf[p] = TenantOf[r]
                                  /\ bucket'[TenantOf[r]].capacity = LimitOf[TierOf[p]]
<1> DEFINE t == TenantOf[r]
           b == BucketFor(r)
           c == Take(Refill(b))
<1>1. t \in Tenants /\ now \in Times
  BY Constants DEF IInv, TypeOK
<1>2. GoodBucket(b)
  BY BucketForGood
<1>3. bucket'[t] = c /\ c # NULL /\ \A u \in Tenants : u # t => bucket'[u] = bucket[u]
  <2>1. GoodBucket(c)
    BY <1>1, <1>2, RefillGood, TakeGood
  <2>2. c # NULL
    BY <2>1, Constants DEF GoodBucket
  <2> QED
    BY <1>1, <2>2 DEF IInv, TypeOK
<1>4. c.lastRefill = now /\ c.capacity = b.capacity /\ Refill(b).capacity = b.capacity /\ b.capacity \in Nat
  <2>1. GoodBucket(Refill(b)) /\ Refill(b).lastRefill = now /\ Refill(b).capacity = b.capacity
        /\ b.capacity \in Nat
    BY <1>1, <1>2, Refilled
  <2> HIDE DEF b
  <2> QED
    BY <2>1 DEF Take, GoodBucket, BucketRows
<1>5. \E p \in Requests : TenantOf[p] = t /\ b.capacity = LimitOf[TierOf[p]]
  <2>1. CASE bucket[t] = NULL
    BY <1>1, <2>1, LackOfNew DEF BucketFor
  <2>2. CASE bucket[t] # NULL
    BY <1>1, <2>2 DEF UsedOK, BucketFor
  <2> QED
    BY <2>1, <2>2
<1>6. Lack(b) = Deficit(t)
  BY <1>1, LackOfNew DEF BucketFor, Deficit
<1>7. Lack(c) = IF HasToken(Refill(b)) THEN Lack(b) + Window ELSE Lack(b)
  BY <1>1, <1>2, LackOfTaken
<1> HIDE DEF c, b
<1>8. Deficit(t)' = Lack(c)
  <2>1. Deficit(t)' = IF bucket'[t] = NULL THEN 0 ELSE bucket'[t].capacity * Window - Refill(bucket'[t]).tokens
    BY DEF Deficit, Lack, Refill
  <2> QED
    BY <1>3, <2>1 DEF Lack
<1>9. \A u \in Tenants : u # t => Deficit(u)' = Deficit(u)
  BY <1>3 DEF Deficit, Lack, Refill
<1> QED
  BY <1>3, <1>4, <1>5, <1>6, <1>7, <1>8, <1>9 DEF b

\* The step of the request that was checked or counted keeps the buckets used.
LEMMA UseKeeps ==
    ASSUME IInv, UsedOK, TimesOK, TimesOK', NEW r \in Requests,
           bucket' = [bucket EXCEPT ![TenantOf[r]] = Take(Refill(BucketFor(r)))], now' = now,
           Checked(r)', leftAt' = [leftAt EXCEPT ![r] = now],
           \A q \in Requests : Checked(q) => Checked(q)'
    PROVE  UsedOK'
<1> SUFFICES ASSUME NEW t \in Tenants, bucket'[t] # NULL
             PROVE  /\ \E p \in Requests : TenantOf[p] = t /\ bucket'[t].capacity = LimitOf[TierOf[p]]
                    /\ \E q \in Requests : TenantOf[q] = t /\ Checked(q)' /\ leftAt'[q] = bucket'[t].lastRefill
  BY DEF UsedOK
<1>1. leftAt'[r] = now /\ \A q \in Requests : q # r => leftAt'[q] = leftAt[q]
  BY DEF IInv, TypeOK
<1>2. CASE t = TenantOf[r]
  <2>1. /\ bucket'[TenantOf[r]].lastRefill = now
        /\ \E p \in Requests : /\ TenantOf[p] = TenantOf[r]
                               /\ bucket'[TenantOf[r]].capacity = LimitOf[TierOf[p]]
    BY Use
  <2> QED
    BY <1>1, <1>2, <2>1
<1>3. CASE t # TenantOf[r]
  <2>1. bucket'[t] = bucket[t]
    BY <1>3, Use
  <2>2. PICK q \in Requests : TenantOf[q] = t /\ Checked(q) /\ leftAt[q] = bucket[t].lastRefill
    BY <2>1 DEF UsedOK
  <2> QED
    BY <1>1, <1>3, <2>1, <2>2 DEF UsedOK
<1> QED
  BY <1>2, <1>3

\* checkLimit: who is admitted has taken a token, who is denied found none.
LEMMA CheckMem == ASSUME MemInv, IInv', NEW r \in Requests, Check(r) PROVE MemInv'
<1> DEFINE b == Refill(BucketFor(r))
           t == TenantOf[r]
<1>1. /\ pc[r] = "idle" /\ ~Checked(r) /\ t \in Tenants /\ now \in Times /\ now \in Nat
      /\ now' = now /\ resetAt' = resetAt
      /\ bucket' = [bucket EXCEPT ![t] = Take(b)] /\ leftAt' = [leftAt EXCEPT ![r] = now]
  BY Constants DEF Check, MemInv, TimesOK, IInv, TypeOK, Times
<1>2. /\ GoodBucket(b) /\ b.capacity \in Nat
      /\ Deficit(t)' = (IF HasToken(b) THEN Deficit(t) + Window ELSE Deficit(t))
      /\ \A u \in Tenants : u # t => Deficit(u)' = Deficit(u)
  BY <1>1, Use, BucketForGood, RefillGood DEF MemInv
<1>3. /\ answer'[r] # NULL /\ answer'[r].allowed = HasToken(b) /\ answer'[r].limit = b.capacity
      /\ arrivedAt'[r] = now /\ leftAt'[r] = now /\ pc'[r] # "idle"
      /\ \A q \in Requests : q # r => /\ answer'[q] = answer[q] /\ arrivedAt'[q] = arrivedAt[q]
                                      /\ leftAt'[q] = leftAt[q] /\ pc'[q] = pc[q]
  <2> DEFINE a == [allowed |-> HasToken(b), remaining |-> Take(b).tokens \div Window, limit |-> b.capacity]
  <2>1. a \in Answers
    <3>1. Take(b).tokens \div Window \in Int /\ b.capacity \in Int
      BY <1>2, TakeGood, Constants DEF GoodBucket, BucketRows
    <3> QED
      BY <3>1 DEF Answers, HasToken
  <2>2. a # NULL /\ a.allowed = HasToken(b) /\ a.limit = b.capacity
    BY <2>1, Constants
  <2> HIDE DEF a
  <2>3. answer' = [answer EXCEPT ![r] = a]
    BY DEF Check, a
  <2> QED
    BY <2>2, <2>3 DEF Check, MemInv, IInv, TypeOK
<1> HIDE DEF b
<1>4. Checked(r)' /\ \A q \in Requests : q # r => (Checked(q)' <=> Checked(q)) /\ (Admitted(q)' <=> Admitted(q))
  BY <1>3 DEF Checked, Admitted
<1>5. TimesOK'
  BY <1>1, <1>2, <1>3, <1>4 DEF MemInv, TimesOK
<1>6. UsedOK'
  <2>1. \A q \in Requests : Checked(q) => Checked(q)'
    BY <1>4
  <2> QED
    BY <1>1, <1>4, <1>5, <2>1, UseKeeps DEF MemInv, b
<1>7. PaidInv'
  <2>1. \A q \in Requests, s \in 0..now :
           AdmittedSince(TenantOf[q], s)' \subseteq
               AdmittedSince(TenantOf[q], s) \cup (IF HasToken(b) /\ TenantOf[q] = t THEN {r} ELSE {})
    <3>1. Admitted(r)' => HasToken(b)
      BY <1>3 DEF Admitted
    <3> QED
      BY <1>1, <1>3, <1>4, <3>1 DEF AdmittedSince
  <2>2. Deficit(t) \in Nat /\ Window \in Nat /\ \A u \in Tenants : Deficit(u) \in Nat
    BY <1>1, DeficitNat, Constants DEF MemInv
  <2>3. CASE ~HasToken(b)
    <3>1. \A u \in Tenants : Deficit(u)' \in Nat /\ Deficit(u) <= Deficit(u)'
      BY <1>2, <2>2, <2>3
    <3> QED
      BY <1>1, <2>1, <2>3, <3>1, PaidKept DEF MemInv
  <2>4. CASE HasToken(b)
    <3> SUFFICES ASSUME NEW q \in Requests, NEW s \in 0..now PROVE Paid(TenantOf[q], s)'
      BY <1>1 DEF PaidInv
    <3> DEFINE u == TenantOf[q]
               A == AdmittedSince(u, s)
               m == MaxLimit(u)
               n == Cardinality(A)
               k == Cardinality(A')
    <3>1. /\ IsFiniteSet(A) /\ n * Window <= Deficit(u) + (now - s) * m /\ n \in Nat
          /\ u \in Tenants /\ m \in Nat /\ now - s \in Nat
      BY <1>1, FS_CardinalityType, MaxLimitOK, Constants DEF MemInv, PaidInv, Paid
    <3>2. CASE u # t
      <4>1. A' \subseteq A
        BY <2>1, <3>2
      <4>2. IsFiniteSet(A') /\ k \in Nat /\ k <= n
        BY <3>1, <4>1, FS_Subset, FS_CardinalityType
      <4>3. k * Window <= n * Window
        BY <2>2, <3>1, <4>2, Grow
      <4>4. Deficit(u)' = Deficit(u) /\ Deficit(u) \in Nat
        BY <1>2, <2>2, <3>1, <3>2
      <4>5. k * Window \in Nat /\ n * Window \in Nat /\ (now - s) * m \in Nat
        BY <2>2, <3>1, <4>2
      <4> HIDE DEF k, n, A, m, u
      <4>6. k * Window <= Deficit(u)' + (now - s) * m
        BY <3>1, <4>3, <4>4, <4>5
      <4> QED
        BY <1>1, <4>2, <4>6 DEF Paid, k, n, A, m, u
    <3>3. CASE u = t
      <4>1. A' \subseteq A \cup {r}
        BY <2>1
      <4>2. IsFiniteSet(A \cup {r}) /\ Cardinality(A \cup {r}) <= n + 1
        <5>1. IsFiniteSet(A \cup {r}) /\ (Cardinality(A \cup {r}) = n \/ Cardinality(A \cup {r}) = n + 1)
          <6> HIDE DEF A
          <6> QED
            BY <3>1, FS_AddElement
        <5> QED
          BY <3>1, <5>1
      <4>3. IsFiniteSet(A') /\ k \in Nat /\ k <= n + 1
        <5>1. IsFiniteSet(A') /\ k <= Cardinality(A \cup {r})
          BY <4>1, <4>2, FS_Subset
        <5>2. k \in Nat /\ Cardinality(A \cup {r}) \in Nat
          BY <4>2, <5>1, FS_CardinalityType
        <5> QED
          BY <3>1, <4>2, <5>1, <5>2
      <4>4. k * Window <= (n + 1) * Window /\ (n + 1) * Window = n * Window + Window
        <5> HIDE DEF k, n
        <5> QED
          BY <2>2, <3>1, <4>3, Grow, OnceMore
      <4>5. Deficit(u)' = Deficit(u) + Window /\ Deficit(u) \in Nat
        BY <1>2, <2>2, <2>4, <3>3
      <4>6. k * Window \in Nat /\ n * Window \in Nat /\ (now - s) * m \in Nat
        BY <2>2, <3>1, <4>3
      <4> HIDE DEF k, n, A, m, u
      <4>7. k * Window <= Deficit(u)' + (now - s) * m
        BY <2>2, <3>1, <4>4, <4>5, <4>6
      <4> QED
        BY <1>1, <4>3, <4>7 DEF Paid, k, n, A, m, u
    <3> QED
      BY <3>2, <3>3
  <2> QED
    BY <2>3, <2>4
<1>8. DeniedOnlyIfBusy'
  <2> SUFFICES ASSUME NEW p \in Requests, Denied(p)'
               PROVE  \E q \in Requests \ {p} :
                         /\ TenantOf[q] = TenantOf[p] /\ Checked(q)' /\ arrivedAt'[q] <= arrivedAt'[p]
                         /\ (arrivedAt'[p] - leftAt'[q]) * answer'[p].limit < Window
    BY DEF DeniedOnlyIfBusy
  <2>1. CASE Checked(p)
    <3>1. \A q \in Requests : Checked(q) =>
             /\ answer'[q] = answer[q] /\ arrivedAt'[q] = arrivedAt[q] /\ leftAt[q] <= leftAt'[q]
      BY <1>1, <1>3 DEF MemInv, TimesOK, Times
    <3> QED
      BY <1>5, <2>1, <3>1, BusyKept DEF MemInv
  <2>2. CASE ~Checked(p)
    <3>1. p = r /\ ~HasToken(b)
      BY <1>3, <1>4, <2>2 DEF Denied
    <3> DEFINE c == BucketFor(r)
    <3>2. GoodBucket(c) /\ c.tokens > -Window
      BY BucketForGood DEF MemInv, GoodBucket
    <3>3. /\ b.tokens = Minimum(c.capacity * Window, c.tokens + (now - c.lastRefill) * c.capacity)
          /\ b.capacity = c.capacity /\ c.capacity \in Nat /\ c.capacity > 0 /\ c.tokens \in Int
          /\ c.capacity * Window \in Nat /\ (now - c.lastRefill) * c.capacity \in Nat
      BY <1>1, <3>2, Refilled DEF b
    <3>4. b.tokens <= 0
      <4>1. b.tokens \in Int
        BY <1>2 DEF GoodBucket, BucketRows
      <4> QED
        BY <3>1, <4>1 DEF HasToken
    <3>5. c.capacity * Window > 0
      <4> HIDE DEF c
      <4> QED
        BY <3>3, Constants
    <3>6. (now - c.lastRefill) * c.capacity < Window
      <4> HIDE DEF c
      <4> QED
        BY <3>2, <3>3, <3>4, <3>5, Constants DEF Minimum
    <3>7. bucket[t] # NULL
      <4>1. bucket[t] = NULL => Lack(c) = 0 /\ b = Refill(c)
        BY <1>1, LackOfNew DEF BucketFor, b
      <4>2. bucket[t] = NULL => c.capacity * Window - b.tokens = 0
        BY <4>1 DEF Lack
      <4> HIDE DEF c
      <4>3. b.tokens \in Int
        BY <1>2 DEF GoodBucket, BucketRows
      <4> QED
        BY <3>3, <3>4, <3>5, <4>2, <4>3
    <3>8. c = bucket[t]
      BY <3>7 DEF BucketFor
    <3>9. PICK q \in Requests : TenantOf[q] = t /\ Checked(q) /\ leftAt[q] = bucket[t].lastRefill
      BY <1>1, <3>7 DEF MemInv, UsedOK
    <3>10. q # r /\ leftAt'[q] = c.lastRefill /\ arrivedAt'[q] = arrivedAt[q] /\ arrivedAt[q] <= now
      BY <1>1, <1>3, <3>8, <3>9 DEF MemInv, TimesOK
    <3> QED
      BY <1>3, <1>4, <3>1, <3>3, <3>6, <3>9, <3>10
  <2> QED
    BY <2>1, <2>2
<1> QED
  BY <1>5, <1>6, <1>7, <1>8 DEF MemInv

\* incrementUsage takes a token that admits nobody.
LEMMA IncrementMem == ASSUME MemInv, IInv', NEW r \in Requests, Increment(r) PROVE MemInv'
<1> DEFINE b == Refill(BucketFor(r))
           t == TenantOf[r]
<1>1. /\ pc[r] = "increment" /\ Checked(r) /\ t \in Tenants /\ now \in Times /\ now \in Nat
      /\ UNCHANGED <<now, answer, arrivedAt, resetAt>> /\ pc' = [pc EXCEPT ![r] = "done"]
      /\ bucket' = [bucket EXCEPT ![t] = Take(b)] /\ leftAt' = [leftAt EXCEPT ![r] = now]
  BY Constants DEF Increment, MemInv, TimesOK, IInv, TypeOK, Times
<1>2. /\ Deficit(t)' = (IF HasToken(b) THEN Deficit(t) + Window ELSE Deficit(t))
      /\ \A u \in Tenants : u # t => Deficit(u)' = Deficit(u)
  BY <1>1, Use DEF MemInv
<1>3. /\ leftAt'[r] = now /\ pc'[r] = "done"
      /\ \A q \in Requests : q # r => leftAt'[q] = leftAt[q] /\ pc'[q] = pc[q]
  BY <1>1 DEF MemInv, IInv, TypeOK
<1> HIDE DEF b
<1>4. \A q \in Requests : (Checked(q)' <=> Checked(q)) /\ (Admitted(q)' <=> Admitted(q))
  BY <1>1 DEF Checked, Admitted
<1>5. TimesOK'
  BY <1>1, <1>3, <1>4 DEF MemInv, TimesOK
<1>6. UsedOK'
  BY <1>1, <1>4, <1>5, UseKeeps DEF MemInv, b
<1>7. PaidInv'
  <2>1. \A u \in Tenants : Deficit(u) \in Nat
    BY DeficitNat DEF MemInv
  <2>2. \A u \in Tenants : Deficit(u)' \in Nat /\ Deficit(u) <= Deficit(u)'
    BY <1>1, <1>2, <2>1, Constants
  <2>3. \A q \in Requests, s \in 0..now : AdmittedSince(TenantOf[q], s)' \subseteq AdmittedSince(TenantOf[q], s)
    BY <1>1, <1>4 DEF AdmittedSince
  <2> QED
    BY <1>1, <2>2, <2>3, PaidKept DEF MemInv
<1>8. DeniedOnlyIfBusy'
  <2>1. \A q \in Requests : Checked(q) =>
           answer'[q] = answer[q] /\ arrivedAt'[q] = arrivedAt[q] /\ leftAt[q] <= leftAt'[q]
    BY <1>1, <1>3 DEF MemInv, TimesOK, Times
  <2>2. \A p \in Requests : Denied(p)' => Checked(p)
    BY <1>4 DEF Denied, Checked
  <2>3. ASSUME NEW p \in Requests, Denied(p)'
        PROVE  \E q \in Requests \ {p} :
                  /\ TenantOf[q] = TenantOf[p] /\ Checked(q)' /\ arrivedAt'[q] <= arrivedAt'[p]
                  /\ (arrivedAt'[p] - leftAt'[q]) * answer'[p].limit < Window
    BY <1>5, <2>1, <2>2, <2>3, BusyKept DEF MemInv
  <2> QED
    BY <2>3 DEF DeniedOnlyIfBusy
<1> QED
  BY <1>5, <1>6, <1>7, <1>8 DEF MemInv

\* A step that touches no request: buckets may go, and time may pass.
LEMMA QuietMem ==
    ASSUME MemInv, UNCHANGED <<pc, answer, arrivedAt, leftAt>>, now' \in Nat, now <= now',
           \A t \in Tenants : bucket'[t] # NULL => bucket'[t] = bucket[t]
    PROVE  UsedOK' /\ TimesOK' /\ DeniedOnlyIfBusy'
<1>1. \A q \in Requests : (Checked(q)' <=> Checked(q)) /\ (Denied(q)' <=> Denied(q))
  BY DEF Checked, Denied
<1>2. UsedOK'
  <2> SUFFICES ASSUME NEW t \in Tenants, bucket'[t] # NULL
               PROVE  /\ \E p \in Requests : TenantOf[p] = t /\ bucket'[t].capacity = LimitOf[TierOf[p]]
                      /\ \E q \in Requests : TenantOf[q] = t /\ Checked(q)' /\ leftAt'[q] = bucket'[t].lastRefill
    BY DEF UsedOK
  <2>1. bucket'[t] = bucket[t] /\ bucket[t] # NULL
    OBVIOUS
  <2> QED
    BY <1>1, <2>1 DEF MemInv, UsedOK
<1>3. TimesOK'
  <2>1. now \in Nat
    BY DEF MemInv, IInv, TypeOK, Times
  <2> QED
    BY <1>1, <2>1 DEF MemInv, TimesOK, Times
<1>4. DeniedOnlyIfBusy'
  BY <1>1 DEF MemInv, DeniedOnlyIfBusy
<1> QED
  BY <1>2, <1>3, <1>4

\* Buckets that go are full, or nothing is counted since.
LEMMA GoneMem ==
    ASSUME MemInv, UNCHANGED <<now, pc, answer, arrivedAt, leftAt>>,
           NEW Gone \in SUBSET Tenants,
           \A t \in Tenants \ Gone : bucket'[t] = bucket[t] /\ resetAt'[t] = resetAt[t],
           \A t \in Gone : bucket'[t] = NULL,
           \A t \in Gone : \/ resetAt'[t] = resetAt[t] /\ Deficit(t) = 0
                           \/ resetAt'[t] = now
    PROVE  PaidInv'
<1> SUFFICES ASSUME NEW q \in Requests, NEW s \in 0..now PROVE Paid(TenantOf[q], s)'
  BY DEF PaidInv
<1> DEFINE t == TenantOf[q]
           A == AdmittedSince(t, s)
           m == MaxLimit(t)
<1>1. /\ IsFiniteSet(A) /\ Cardinality(A) * Window <= Deficit(t) + (now - s) * m
      /\ t \in Tenants /\ m \in Nat /\ now - s \in Nat /\ now \in Nat
  BY MaxLimitOK, Constants DEF MemInv, IInv, TypeOK, Times, PaidInv, Paid
<1>2. (now - s) * m \in Nat
  BY <1>1
<1>3. \A r \in Requests : Admitted(r)' <=> Admitted(r)
  BY DEF Admitted, Checked
<1>4. CASE t \notin Gone
  <2>1. A' = A /\ Deficit(t)' = Deficit(t)
    BY <1>1, <1>3, <1>4 DEF AdmittedSince, Deficit, Lack, Refill
  <2> QED
    BY <1>1, <2>1 DEF Paid
<1>5. CASE t \in Gone /\ resetAt'[t] = resetAt[t] /\ Deficit(t) = 0
  <2>1. A' = A /\ Deficit(t)' = 0
    BY <1>3, <1>5 DEF AdmittedSince, Deficit
  <2> QED
    BY <1>1, <1>5, <2>1 DEF Paid
<1>6. CASE t \in Gone /\ resetAt'[t] = now
  <2>1. A' = {}
    BY <1>1, <1>3, <1>6 DEF AdmittedSince, MemInv, TimesOK, Admitted, Times
  <2>2. IsFiniteSet({}) /\ Cardinality({}) = 0
    BY FS_EmptySet
  <2>3. Deficit(t)' = 0
    BY <1>6 DEF Deficit
  <2>4. 0 * Window <= 0 + (now - s) * m
    BY <1>2, Constants
  <2> QED
    BY <2>1, <2>2, <2>3, <2>4 DEF Paid
<1> QED
  BY <1>4, <1>5, <1>6

\* While a tick passes, as much flows in as a bucket can lack less.
LEMMA TickMem == ASSUME MemInv, IInv', Tick PROVE PaidInv'
<1>1. /\ now \in Nat /\ now' = now + 1 /\ now \in Times /\ now' \in Times
      /\ UNCHANGED <<bucket, pc, answer, arrivedAt, leftAt, resetAt>>
  BY DEF Tick, MemInv, IInv, TypeOK, Times
<1> SUFFICES ASSUME NEW q \in Requests, NEW s \in 0..(now + 1) PROVE Paid(TenantOf[q], s)'
  BY <1>1 DEF PaidInv
<1> DEFINE t == TenantOf[q]
           A == AdmittedSince(t, s)
           m == MaxLimit(t)
<1>2. t \in Tenants /\ m \in Nat /\ Window \in Nat
  BY MaxLimitOK, Constants
<1>3. A' = A
  BY <1>1 DEF AdmittedSince, Admitted, Checked
<1>4. Deficit(t)' \in Nat /\ Deficit(t) <= Deficit(t)' + m /\ Deficit(t) \in Nat
  <2>1. CASE bucket[t] = NULL
    BY <1>1, <1>2, <2>1 DEF Deficit
  <2>2. CASE bucket[t] # NULL
    <3>1. GoodBucket(bucket[t]) /\ bucket[t].capacity \in Nat /\ bucket[t].capacity <= m
      BY <1>2, <2>2, BucketOfTenant DEF MemInv
    <3>2. Deficit(t) = Lack(bucket[t]) /\ Deficit(t)' = Lack(bucket[t])'
      BY <1>1, <2>2 DEF Deficit
    <3> DEFINE b == bucket[t]
    <3>3. b' = b
      BY <1>1
    <3>4. PICK c : c = bucket[t]
      OBVIOUS
    <3>5. Lack(c)' \in Nat /\ Lack(c) <= Lack(c)' + c.capacity /\ Lack(c) \in Nat
      BY <1>1, <3>1, <3>4, LackOfTick, Refilled
    <3>6. Lack(bucket[t])' = Lack(c)' /\ Lack(bucket[t]) = Lack(c)
      BY <1>1, <3>4 DEF Lack, Refill
    <3> QED
      BY <1>2, <3>1, <3>2, <3>4, <3>5, <3>6
  <2> QED
    BY <2>1, <2>2
<1>5. CASE s \in 0..now
  <2>1. IsFiniteSet(A) /\ Cardinality(A) * Window <= Deficit(t) + (now - s) * m
    BY <1>5 DEF MemInv, PaidInv, Paid
  <2>2. Cardinality(A) * Window \in Nat
    BY <1>2, <2>1, FS_CardinalityType
  <2>3. ((now + 1) - s) * m = (now - s) * m + m /\ (now - s) * m \in Nat
    <3>1. now - s \in Nat /\ (now + 1) - s = (now - s) + 1
      BY <1>1, <1>5
    <3> QED
      BY <1>2, <3>1, OnceMore
  <2> HIDE DEF A, m, t
  <2>4. Cardinality(A) * Window <= Deficit(t)' + ((now + 1) - s) * m
    BY <1>2, <1>4, <2>1, <2>2, <2>3
  <2> QED
    BY <1>1, <1>3, <2>1, <2>4 DEF Paid, A, m, t
<1>6. CASE s = now + 1
  <2>1. A' = {}
    BY <1>1, <1>3, <1>6 DEF AdmittedSince, MemInv, TimesOK, Admitted, Times
  <2>2. IsFiniteSet({}) /\ Cardinality({}) = 0
    BY FS_EmptySet
  <2>3. ((now + 1) - s) * m = 0 /\ 0 * Window = 0
    BY <1>1, <1>2, <1>6
  <2> HIDE DEF A, m, t
  <2>4. 0 * Window <= Deficit(t)' + ((now + 1) - s) * m
    BY <1>4, <2>3
  <2> QED
    BY <1>1, <2>1, <2>2, <2>4 DEF Paid, A, m, t
<1> QED
  BY <1>1, <1>5, <1>6

\* Checks, increments, clean-ups, resets and ticks keep all of it.
LEMMA NextMemInv == MemInv /\ [Next]_vars => MemInv'
<1> SUFFICES ASSUME MemInv, [Next]_vars PROVE MemInv'
  OBVIOUS
<1>1. IInv'
  BY NextIInv DEF MemInv
<1>2. ASSUME NEW r \in Requests, Check(r) \/ Increment(r) PROVE MemInv'
  BY <1>1, <1>2, CheckMem, IncrementMem
<1>3. now \in Nat /\ now \in Times
  BY DEF MemInv, IInv, TypeOK, Times
<1>4. CASE Cleanup
  <2> DEFINE Gone == {t \in Tenants : IsIdle(bucket[t])}
  <2>1. /\ UNCHANGED <<now, pc, answer, arrivedAt, leftAt, resetAt>>
        /\ \A t \in Tenants : bucket'[t] = IF IsIdle(bucket[t]) THEN NULL ELSE bucket[t]
    BY <1>4 DEF Cleanup
  <2>2. UsedOK' /\ TimesOK' /\ DeniedOnlyIfBusy'
    BY <1>3, <2>1, QuietMem
  <2>3. ASSUME NEW t \in Gone PROVE Deficit(t) = 0
    <3>1. bucket[t] # NULL /\ IsIdle(bucket[t]) /\ t \in Tenants
      BY DEF IsIdle
    <3>2. GoodBucket(bucket[t])
      BY <3>1, BucketOfTenant DEF MemInv
    <3>3. PICK r \in Requests : bucket[t].capacity = LimitOf[TierOf[r]]
      BY <3>1 DEF MemInv, UsedOK
    <3> QED
      BY <1>3, <3>1, <3>2, <3>3, LackOfIdle DEF Deficit
  <2>4. PaidInv'
    BY <2>1, <2>3, GoneMem
  <2> QED
    BY <1>1, <2>2, <2>4 DEF MemInv
<1>5. ASSUME NEW t \in Tenants, Reset(t) PROVE MemInv'
  <2>1. /\ UNCHANGED <<now, pc, answer, arrivedAt, leftAt>>
        /\ bucket'[t] = NULL /\ resetAt'[t] = now
        /\ \A u \in Tenants \ {t} : bucket'[u] = bucket[u] /\ resetAt'[u] = resetAt[u]
    BY <1>5 DEF Reset, MemInv, IInv, TypeOK
  <2>2. UsedOK' /\ TimesOK' /\ DeniedOnlyIfBusy'
    BY <1>3, <2>1, QuietMem
  <2>3. PaidInv'
    <3> DEFINE Gone == {t}
    <3>1. Gone \in SUBSET Tenants /\ \A u \in Gone : u = t
      OBVIOUS
    <3> QED
      BY <2>1, <3>1, GoneMem
  <2> QED
    BY <1>1, <2>2, <2>3 DEF MemInv
<1>6. CASE Tick
  <2>1. UsedOK' /\ TimesOK' /\ DeniedOnlyIfBusy'
    BY <1>3, <1>6, QuietMem DEF Tick
  <2> QED
    BY <1>1, <1>6, <2>1, TickMem DEF MemInv
<1>7. CASE UNCHANGED vars
  <2>1. UNCHANGED <<now, bucket, pc, answer, arrivedAt, leftAt, resetAt>>
    BY <1>7 DEF vars
  <2>2. UsedOK' /\ TimesOK' /\ DeniedOnlyIfBusy'
    BY <1>3, <2>1, QuietMem
  <2>3. PaidInv'
    <3> DEFINE Gone == {}
    <3>1. Gone \in SUBSET Tenants /\ \A u \in Gone : FALSE
      OBVIOUS
    <3> QED
      BY <2>1, <3>1, GoneMem
  <2> QED
    BY <1>1, <2>2, <2>3 DEF MemInv
<1> QED
  BY <1>2, <1>4, <1>5, <1>6, <1>7 DEF Next

-----------------------------------------------------------------------------
(* The sorted set of Redis.                                                *)

Limit == LimitOf["free"]

Members == Redis!Members
Kinds == {"check", "usage"}

\* The requests that have added a member.
Touched == {q \in Requests : touchedAt[q] # NULL}

\* Those that have in the window before r, or after it.
Touchers(r) == {q \in Requests \ {r} : touchedAt[q] # NULL /\ touchedAt[q] > stamp[r] - Window}

\* The admitted ones that had left when r began and that it must have counted.
Counted(q) == allowed[q] = TRUE /\ q \notin passed /\ Redis!Remembered(q)
Earlier(r) == {q \in before[r] : Counted(q) /\ stamp[r] - stamp[q] < Window}

RedTypes ==
    /\ now \in Times
    /\ zset = [m \in Members |-> zset[m]] /\ \A m \in Members : zset[m] # NULL => zset[m] \in 0..now
    /\ pc \in [Requests -> {"idle", "add", "increment", "done"}]
    /\ count \in [Requests -> Nat]
    /\ stamp \in [Requests -> (0..now) \cup {NULL}]
    /\ allowed \in [Requests -> BOOLEAN \cup {NULL}]
    /\ passed \subseteq Requests
    /\ before \in [Requests -> SUBSET Requests]
    /\ touchedAt \in [Requests -> (0..now) \cup {NULL}]

\* What is known of a request at each await.
RequestOK(r) ==
    /\ pc[r] = "idle" => stamp[r] = NULL /\ touchedAt[r] = NULL
    /\ pc[r] \in {"idle", "add"} => allowed[r] = NULL /\ r \notin passed
    /\ pc[r] = "add" => stamp[r] # NULL
    /\ pc[r] \in {"increment", "done"} => allowed[r] # NULL
    /\ allowed[r] # NULL => stamp[r] # NULL
    /\ allowed[r] = TRUE /\ r \notin passed => touchedAt[r] # NULL
    /\ r \notin before[r] /\ \A q \in before[r] : pc[q] = "done" /\ before[q] \subseteq before[r]
    /\ \A k \in Kinds : zset[<<r, k>>] # NULL => touchedAt[r] # NULL /\ zset[<<r, k>>] <= touchedAt[r]

\* Who counts that many members finds as many requests that left two each.
CrowdOK(r) ==
    /\ pc[r] = "add" => count[r] <= 2 * Cardinality(Touchers(r))
    /\ allowed[r] = FALSE => Limit <= 2 * Cardinality(Touchers(r))

\* Who is admitted has counted two members of every earlier one.
EarlierOK(r) ==
    /\ pc[r] = "add" => 2 * Cardinality(Earlier(r)) <= count[r]
    /\ allowed[r] = TRUE /\ r \notin passed => 2 * Cardinality(Earlier(r)) < Limit

RedInv ==
    /\ RedTypes
    /\ IsFiniteSet(Touched)
    /\ \A r \in Requests : RequestOK(r) /\ CrowdOK(r) /\ EarlierOK(r)

\* The limit, and NULL, which is no answer.
LEMMA RedConstants == Limit \in Nat /\ Limit > 0 /\ NULL \notin BOOLEAN /\ MaxFaults \in Nat
BY LimitAssumption, ServiceAssumption DEF Limit

\* Two members for each of finitely many requests.
LEMMA TwoEach ==
    ASSUME NEW S, IsFiniteSet(S)
    PROVE  IsFiniteSet(S \X Kinds) /\ Cardinality(S \X Kinds) = 2 * Cardinality(S) /\ Cardinality(S) \in Nat
<1>1. IsFiniteSet({"check"}) /\ Cardinality({"check"}) = 1
  BY FS_Singleton
<1>2. IsFiniteSet(Kinds) /\ Cardinality(Kinds) = 2
  <2>1. Kinds = {"check"} \cup {"usage"} /\ "usage" \notin {"check"}
    BY DEF Kinds
  <2> QED
    BY <1>1, <2>1, FS_AddElement
<1>3. Cardinality(S) \in Nat
  BY FS_CardinalityType
<1>4. IsFiniteSet(S \X Kinds) /\ Cardinality(S \X Kinds) = Cardinality(S) * Cardinality(Kinds)
  BY <1>2, FS_Product
<1> QED
  BY <1>2, <1>3, <1>4

\* The sets that are counted are finite.
LEMMA RedFinite ==
    ASSUME RedInv, NEW r \in Requests
    PROVE  /\ IsFiniteSet(Touchers(r)) /\ Cardinality(Touchers(r)) \in Nat
           /\ IsFiniteSet(Earlier(r)) /\ Cardinality(Earlier(r)) \in Nat
<1>1. Touchers(r) \subseteq Touched /\ Earlier(r) \subseteq Touched
  BY DEF Touchers, Earlier, Touched, Counted, RedInv, RedTypes, RequestOK
<1>2. IsFiniteSet(Touchers(r)) /\ IsFiniteSet(Earlier(r))
  BY <1>1, FS_Subset DEF RedInv
<1> QED
  BY <1>2, FS_CardinalityType

\* What the requests that do not move know survives a step.
LEMMA RedKeeps ==
    ASSUME RedInv, RedTypes', now <= now',
           NEW Movers \in SUBSET Requests, IsFiniteSet(Movers),
           \A d \in Requests \ Movers :
               /\ pc'[d] = pc[d] /\ stamp'[d] = stamp[d] /\ allowed'[d] = allowed[d]
               /\ before'[d] = before[d] /\ touchedAt'[d] = touchedAt[d] /\ count'[d] = count[d]
               /\ d \in passed' <=> d \in passed,
           \A d \in Movers :
               /\ pc[d] # "done"
               /\ touchedAt[d] # NULL => touchedAt'[d] # NULL /\ touchedAt[d] <= touchedAt'[d]
               /\ before'[d] = before[d] \/ before'[d] = {q \in Requests : pc[q] = "done"}
               /\ (IsFiniteSet(Touched') => RequestOK(d)' /\ CrowdOK(d)' /\ EarlierOK(d)'),
           \A m \in Members : zset'[m] # NULL => zset'[m] = zset[m] \/ m[1] \in Movers
    PROVE  RedInv'
<1>1. IsFiniteSet(Touched')
  <2>1. IsFiniteSet(Touched \cup Movers)
    BY FS_Union DEF RedInv
  <2>2. Touched' \subseteq Touched \cup Movers
    BY DEF Touched
  <2> QED
    BY <2>1, <2>2, FS_Subset
<1>2. \A d \in Requests : \A q \in before[d] : /\ q \in Requests \ Movers /\ pc[q] = "done"
                                               /\ before'[q] = before[q] /\ before[q] \subseteq before[d]
  BY DEF RedInv, RedTypes, RequestOK
<1>3. \A q \in Requests : touchedAt[q] # NULL => touchedAt'[q] # NULL /\ touchedAt[q] <= touchedAt'[q]
  BY DEF RedInv, RedTypes, Times
<1>4. ASSUME NEW d \in Requests \ Movers PROVE RequestOK(d)'
  <2>1. RequestOK(d)
    BY DEF RedInv
  <2>2. \A q \in before'[d] : pc'[q] = "done" /\ before'[q] \subseteq before'[d]
    BY <1>2
  <2>3. \A k \in Kinds : <<d, k>> \in Members /\ <<d, k>>[1] = d
    BY DEF Members, Redis!Members, Kinds
  <2>4. \A k \in Kinds : zset'[<<d, k>>] # NULL => zset'[<<d, k>>] = zset[<<d, k>>]
    BY <2>3
  <2> QED
    BY <2>1, <2>2, <2>4 DEF RequestOK
<1>5. ASSUME NEW d \in Requests \ Movers PROVE CrowdOK(d)'
  <2>1. pc[d] = "add" \/ allowed[d] = FALSE => stamp[d] \in Int
    <3>1. allowed[d] = FALSE => allowed[d] # NULL
      BY RedConstants
    <3>2. stamp[d] # NULL => stamp[d] \in 0..now
      BY DEF RedInv, RedTypes
    <3> QED
      BY <3>1, <3>2 DEF RedInv, RequestOK
  <2>2. CASE stamp[d] \in Int
    <3>1. Touchers(d) \subseteq Touchers(d)' /\ Touchers(d)' \subseteq Touched'
      BY <1>3, <2>2, Constants DEF Touchers, Touched, RedInv, RedTypes
    <3>2. IsFiniteSet(Touchers(d)')
      BY <1>1, <3>1, FS_Subset
    <3>3. Cardinality(Touchers(d)) <= Cardinality(Touchers(d)')
      BY <3>1, <3>2, FS_Subset
    <3>4. Cardinality(Touchers(d)) \in Nat /\ Cardinality(Touchers(d)') \in Nat
      BY <3>2, RedFinite, FS_CardinalityType
    <3>5. CrowdOK(d) /\ count[d] \in Nat
      BY DEF RedInv, RedTypes
    <3> QED
      BY <3>3, <3>4, <3>5, RedConstants DEF CrowdOK, Limit
  <2>3. CASE stamp[d] \notin Int
    BY <2>1, <2>3 DEF CrowdOK
  <2> QED
    BY <2>2, <2>3
<1>6. ASSUME NEW d \in Requests \ Movers PROVE EarlierOK(d)'
  <2>1. Earlier(d)' \subseteq Earlier(d)
    <3> SUFFICES ASSUME NEW q \in before'[d], Counted(q)', stamp'[d] - stamp'[q] < Window
                 PROVE  q \in Earlier(d)
      BY DEF Earlier
    <3>1. q \in before[d] /\ q \in Requests \ Movers /\ pc[q] = "done" /\ pc'[q] = "done"
      BY <1>2
    <3>2. \A k \in Kinds : <<q, k>> \in Members /\ <<q, k>>[1] = q
      BY <3>1 DEF Members, Redis!Members, Kinds
    <3>3. zset'[<<q, "check">>] # NULL /\ zset'[<<q, "usage">>] # NULL
      BY <3>1 DEF Counted, Redis!Remembered
    <3>4. zset[<<q, "check">>] # NULL /\ zset[<<q, "usage">>] # NULL
      BY <3>1, <3>2, <3>3 DEF Kinds
    <3> QED
      BY <3>1, <3>4 DEF Earlier, Counted, Redis!Remembered
  <2>2. IsFiniteSet(Earlier(d)) /\ Cardinality(Earlier(d)) \in Nat
    BY RedFinite
  <2>3. Cardinality(Earlier(d)') <= Cardinality(Earlier(d)) /\ Cardinality(Earlier(d)') \in Nat
    BY <2>1, <2>2, FS_Subset, FS_CardinalityType
  <2>4. EarlierOK(d) /\ count[d] \in Nat
    BY DEF RedInv, RedTypes
  <2> QED
    BY <2>2, <2>3, <2>4, RedConstants DEF EarlierOK, Limit
<1> QED
  BY <1>1, <1>4, <1>5, <1>6 DEF RedInv

\* Redis!Cardinality is the Cardinality of FiniteSets.
LEMMA RedisCardinality == ASSUME NEW S PROVE Redis!Cardinality(S) = Cardinality(S)
BY DEF Redis!Cardinality, Cardinality

\* zcard counts the members that have a score.
LEMMA CardOf ==
    ASSUME NEW z
    PROVE  Redis!Card(z) = Cardinality({m \in Redis!Members : z[m] # NULL})
BY RedisCardinality DEF Redis!Card

\* Redis is asked for the members of the window.
LEMMA CountRed == ASSUME RedInv, NEW c \in Requests, Redis!Count(c) PROVE RedInv'
<1> DEFINE kept == {m \in Members : Redis!Prune(zset)[m] # NULL}
           gone == {q \in Requests : pc[q] = "done"}
<1>1. /\ pc[c] = "idle" /\ stamp[c] = NULL /\ touchedAt[c] = NULL /\ allowed[c] = NULL /\ c \notin passed
      /\ now \in Times /\ now \in Nat
  BY DEF Redis!Count, RedInv, RedTypes, RequestOK, Times
<1>2. /\ pc' = [pc EXCEPT ![c] = "add"] /\ stamp' = [stamp EXCEPT ![c] = now]
      /\ before' = [before EXCEPT ![c] = gone] /\ count' = [count EXCEPT ![c] = Cardinality(kept)]
      /\ zset' = Redis!Prune(zset) /\ UNCHANGED <<now, allowed, passed, touchedAt>>
  <2>1. Redis!Card(Redis!Prune(zset)) = Cardinality(kept)
    <3>1. kept = {m \in Redis!Members : Redis!Prune(zset)[m] # NULL}
      BY DEF Members
    <3> HIDE DEF kept
    <3> QED
      BY <3>1, CardOf
  <2> HIDE DEF kept
  <2> QED
    BY <2>1 DEF Redis!Count
<1>3. /\ \A m \in Members : zset'[m] # NULL => zset'[m] = zset[m] /\ zset[m] > now - Window
      /\ zset' = [m \in Members |-> zset'[m]]
  BY <1>2 DEF Redis!Prune, Redis!Kept, Members
<1>4. kept \subseteq {q \in Touched : touchedAt[q] > now - Window} \X Kinds
  <2> SUFFICES ASSUME NEW m \in kept PROVE m \in {q \in Touched : touchedAt[q] > now - Window} \X Kinds
    OBVIOUS
  <2>1. PICK q \in Requests, k \in Kinds : m = <<q, k>>
    BY DEF Members, Redis!Members, Kinds
  <2>2. zset[<<q, k>>] # NULL /\ zset[<<q, k>>] > now - Window /\ m \in Members
    BY <1>2, <1>3, <2>1
  <2>3. touchedAt[q] # NULL /\ zset[<<q, k>>] <= touchedAt[q]
    BY <2>2 DEF RedInv, RequestOK
  <2>4. touchedAt[q] \in Int /\ zset[<<q, k>>] \in Int /\ now - Window \in Int
    BY <1>1, <2>1, <2>2, <2>3, Constants DEF RedInv, RedTypes
  <2>5. touchedAt[q] > now - Window
    BY <2>2, <2>3, <2>4
  <2> QED
    BY <2>1, <2>3, <2>5 DEF Touched
<1>5. IsFiniteSet(kept) /\ Cardinality(kept) \in Nat
      /\ Cardinality(kept) <= 2 * Cardinality({q \in Touched : touchedAt[q] > now - Window})
  <2> DEFINE T == {q \in Touched : touchedAt[q] > now - Window}
  <2>1. IsFiniteSet(T)
    <3>1. T \subseteq Touched
      OBVIOUS
    <3> QED
      BY <3>1, FS_Subset DEF RedInv
  <2>2. IsFiniteSet(T \X Kinds) /\ Cardinality(T \X Kinds) = 2 * Cardinality(T)
    BY <2>1, TwoEach
  <2>3. IsFiniteSet(kept) /\ Cardinality(kept) <= Cardinality(T \X Kinds)
    BY <1>4, <2>2, FS_Subset
  <2> QED
    BY <2>2, <2>3, FS_CardinalityType
<1> HIDE DEF kept
<1>6. RedTypes'
  <2>1. \A m \in Members : zset'[m] # NULL => zset'[m] \in 0..now
    BY <1>3 DEF RedInv, RedTypes
  <2> QED
    BY <1>1, <1>2, <1>3, <1>5, <2>1 DEF RedInv, RedTypes, Times
<1>7. /\ pc'[c] = "add" /\ stamp'[c] = now /\ before'[c] = gone /\ count'[c] = Cardinality(kept)
      /\ allowed'[c] = NULL /\ touchedAt'[c] = NULL /\ c \notin passed'
  BY <1>1, <1>2 DEF RedInv, RedTypes
<1>8. now # NULL
  BY <1>1, Constants
<1>9. ASSUME IsFiniteSet(Touched') PROVE RequestOK(c)'
  <2>1. \A q \in gone : pc'[q] = "done" /\ before'[q] \subseteq gone
    <3>1. \A q \in gone : q # c /\ before[q] \subseteq gone
      BY <1>1 DEF RedInv, RedTypes, RequestOK
    <3> QED
      BY <1>2, <3>1 DEF RedInv, RedTypes
  <2>2. \A k \in Kinds : zset'[<<c, k>>] = NULL
    <3>1. \A k \in Kinds : <<c, k>> \in Members
      BY DEF Members, Redis!Members, Kinds
    <3> QED
      BY <1>1, <1>3, <3>1 DEF RedInv, RequestOK
  <2>3. NULL # TRUE /\ NULL # FALSE
    BY RedConstants
  <2>4. pc'[c] # "idle" /\ pc'[c] \notin {"increment", "done"} /\ stamp'[c] # NULL
    BY <1>7, <1>8
  <2>5. c \notin before'[c] /\ \A q \in before'[c] : pc'[q] = "done" /\ before'[q] \subseteq before'[c]
    BY <1>1, <1>7, <2>1
  <2> HIDE DEF gone
  <2> QED
    BY <1>7, <2>2, <2>3, <2>4, <2>5 DEF RequestOK
<1>10. NULL # TRUE /\ NULL # FALSE
  BY RedConstants
<1>11. CrowdOK(c)'
  <2>1. Touchers(c)' = {q \in Touched : touchedAt[q] > now - Window}
    BY <1>1, <1>2, <1>7 DEF Touchers, Touched
  <2> QED
    BY <1>5, <1>7, <1>10, <2>1 DEF CrowdOK
<1>12. EarlierOK(c)'
  <2> DEFINE E == Earlier(c)'
  <2>1. E \subseteq Touched /\ \A q \in E : q \in gone /\ Counted(q)'
    <3>1. \A q \in E : q \in gone /\ Counted(q)'
      BY <1>7 DEF Earlier
    <3>2. \A q \in E : allowed[q] = TRUE /\ q \notin passed
      BY <1>2, <3>1 DEF Counted
    <3> QED
      BY <3>1, <3>2 DEF Touched, RedInv, RequestOK
  <2>2. IsFiniteSet(E) /\ Cardinality(E) \in Nat
    BY <2>1, FS_Subset, FS_CardinalityType DEF RedInv
  <2>3. \A q \in E : pc'[q] = "done"
    BY <1>1, <1>2, <2>1 DEF RedInv, RedTypes
  <2>4. E \X Kinds \subseteq kept
    <3> SUFFICES ASSUME NEW q \in E, NEW k \in Kinds PROVE <<q, k>> \in kept
      OBVIOUS
    <3>1. zset'[<<q, "check">>] # NULL /\ zset'[<<q, "usage">>] # NULL
      BY <2>1, <2>3 DEF Counted, Redis!Remembered
    <3>2. <<q, k>> \in Members /\ q \in Requests
      BY <2>1 DEF Members, Redis!Members, Kinds
    <3> QED
      BY <1>2, <3>1, <3>2 DEF kept, Kinds
  <2> HIDE DEF E
  <2>5. Cardinality(E \X Kinds) = 2 * Cardinality(E) /\ IsFiniteSet(E \X Kinds)
    BY <2>2, TwoEach
  <2>6. Cardinality(E \X Kinds) <= Cardinality(kept)
    BY <1>5, <2>4, FS_Subset
  <2>7. 2 * Cardinality(E) <= count'[c]
    BY <1>7, <2>5, <2>6
  <2> QED
    BY <1>7, <1>10, <2>7 DEF EarlierOK, E
<1>13. {c} \in SUBSET Requests /\ IsFiniteSet({c})
  BY FS_Singleton
<1>14. \A d \in Requests \ {c} :
               /\ pc'[d] = pc[d] /\ stamp'[d] = stamp[d] /\ allowed'[d] = allowed[d]
               /\ before'[d] = before[d] /\ touchedAt'[d] = touchedAt[d] /\ count'[d] = count[d]
               /\ d \in passed' <=> d \in passed
  BY <1>2 DEF RedInv, RedTypes
<1> QED
  BY <1>1, <1>2, <1>3, <1>6, <1>7, <1>9, <1>11, <1>12, <1>13, <1>14, RedKeeps

\* A request that has begun and answers, or counts itself, adds a member of its own.
LEMMA OwnRed ==
    ASSUME RedInv, RedTypes', NEW c \in Requests, now' = now, pc[c] \in {"idle", "add", "increment"},
           UNCHANGED before,
           \A d \in Requests \ {c} :
               /\ pc'[d] = pc[d] /\ stamp'[d] = stamp[d] /\ allowed'[d] = allowed[d]
               /\ touchedAt'[d] = touchedAt[d] /\ count'[d] = count[d]
               /\ d \in passed' <=> d \in passed,
           \A m \in Members : zset'[m] # NULL =>
               zset'[m] = zset[m] \/ (m[1] = c /\ touchedAt'[c] # NULL /\ zset'[m] <= touchedAt'[c]),
           touchedAt'[c] = touchedAt[c] \/ touchedAt'[c] = now,
           pc'[c] \in {"increment", "done"}, allowed'[c] # NULL, stamp'[c] # NULL,
           stamp[c] # NULL => stamp'[c] = stamp[c],
           allowed'[c] = TRUE => c \in passed' \/ touchedAt'[c] # NULL,
           CrowdOK(c) /\ allowed'[c] = FALSE => Limit <= 2 * Cardinality(Touchers(c)) /\ pc[c] # "idle",
           EarlierOK(c) /\ allowed'[c] = TRUE /\ c \notin passed' =>
               2 * Cardinality(Earlier(c)) < Limit /\ pc[c] # "idle"
    PROVE  RedInv'
<1>1. now \in Nat /\ now # NULL /\ \A q \in before[c] : q # c /\ pc[q] = "done" /\ before[q] \subseteq before[c]
  BY Constants DEF RedInv, RedTypes, RequestOK, Times
<1>2. touchedAt[c] # NULL => touchedAt'[c] # NULL /\ touchedAt[c] <= touchedAt'[c]
  BY <1>1 DEF RedInv, RedTypes
<1>3. ASSUME IsFiniteSet(Touched') PROVE RequestOK(c)'
  <2>1. c \notin before'[c] /\ \A q \in before'[c] : pc'[q] = "done" /\ before'[q] \subseteq before'[c]
    BY <1>1 DEF RedInv, RedTypes
  <2>2. \A k \in Kinds : zset'[<<c, k>>] # NULL => touchedAt'[c] # NULL /\ zset'[<<c, k>>] <= touchedAt'[c]
    <3> SUFFICES ASSUME NEW k \in Kinds, zset'[<<c, k>>] # NULL
                 PROVE  touchedAt'[c] # NULL /\ zset'[<<c, k>>] <= touchedAt'[c]
      OBVIOUS
    <3>1. <<c, k>> \in Members
      BY DEF Members, Redis!Members, Kinds
    <3>2. CASE zset'[<<c, k>>] = zset[<<c, k>>]
      <4>1. touchedAt[c] # NULL /\ zset[<<c, k>>] <= touchedAt[c]
        BY <3>2 DEF RedInv, RequestOK
      <4>2. touchedAt[c] \in Int /\ touchedAt'[c] \in Int /\ zset[<<c, k>>] \in Int
        BY <1>1, <1>2, <3>1, <3>2, <4>1 DEF RedInv, RedTypes
      <4> QED
        BY <1>2, <3>2, <4>1, <4>2
    <3> QED
      BY <3>1, <3>2
  <2> QED
    BY <2>1, <2>2 DEF RequestOK
<1>7. pc[c] # "idle" => stamp'[c] = stamp[c]
  BY DEF RedInv, RequestOK
<1>4. ASSUME IsFiniteSet(Touched') PROVE CrowdOK(c)'
  <2>1. CASE allowed'[c] = FALSE
    <3>1. Limit <= 2 * Cardinality(Touchers(c)) /\ stamp'[c] = stamp[c]
      BY <1>7, <2>1 DEF RedInv
    <3>2. Touchers(c)' = Touchers(c)
      BY <3>1 DEF Touchers
    <3> QED
      BY <3>1, <3>2 DEF CrowdOK, Limit
  <2> QED
    BY <2>1 DEF CrowdOK
<1>5. ASSUME IsFiniteSet(Touched') PROVE EarlierOK(c)'
  <2>1. CASE allowed'[c] = TRUE /\ c \notin passed'
    <3>1. 2 * Cardinality(Earlier(c)) < Limit /\ stamp'[c] = stamp[c]
      BY <1>7, <2>1 DEF RedInv
    <3>2. Earlier(c)' \subseteq Earlier(c)
      <4> SUFFICES ASSUME NEW q \in before'[c], Counted(q)', stamp'[c] - stamp'[q] < Window
                   PROVE  q \in Earlier(c)
        BY DEF Earlier
      <4>1. q \in before[c] /\ q \in Requests \ {c} /\ pc[q] = "done" /\ pc'[q] = "done"
        BY <1>1 DEF RedInv, RedTypes
      <4>2. \A k \in Kinds : <<q, k>> \in Members /\ <<q, k>>[1] # c
        BY <4>1 DEF Members, Redis!Members, Kinds
      <4>3. zset'[<<q, "check">>] # NULL /\ zset'[<<q, "usage">>] # NULL
        BY <4>1 DEF Counted, Redis!Remembered
      <4>4. zset[<<q, "check">>] # NULL /\ zset[<<q, "usage">>] # NULL
        BY <4>2, <4>3 DEF Kinds
      <4> QED
        BY <3>1, <4>1, <4>4 DEF Earlier, Counted, Redis!Remembered
    <3>3. IsFiniteSet(Earlier(c)) /\ Cardinality(Earlier(c)) \in Nat
      BY RedFinite
    <3>4. Cardinality(Earlier(c)') <= Cardinality(Earlier(c)) /\ Cardinality(Earlier(c)') \in Nat
      BY <3>2, <3>3, FS_Subset, FS_CardinalityType
    <3> QED
      BY <3>1, <3>3, <3>4, RedConstants DEF EarlierOK, Limit
  <2> QED
    BY <2>1 DEF EarlierOK
<1>6. {c} \in SUBSET Requests /\ IsFiniteSet({c})
  BY FS_Singleton
<1> QED
  BY <1>1, <1>2, <1>3, <1>4, <1>5, <1>6, RedKeeps

\* A comparison of numbers is true or false.
LEMMA Compared == ASSUME NEW x \in Nat, NEW y \in Nat PROVE (x < y) = IF x < y THEN TRUE ELSE FALSE
<1>1. (x < y) \in BOOLEAN
  OBVIOUS
<1> QED
  BY <1>1

\* The request adds its member and is answered.
LEMMA AddRed == ASSUME RedInv, NEW c \in Requests, Redis!Add(c) PROVE RedInv'
<1>1. /\ pc[c] = "add" /\ stamp[c] # NULL /\ stamp[c] \in 0..now /\ c \notin passed
      /\ now \in Nat /\ now # NULL /\ count[c] \in Nat
  BY Constants DEF Redis!Add, RedInv, RedTypes, RequestOK, Times
<1>2. /\ zset' = [zset EXCEPT ![<<c, "check">>] = stamp[c]]
      /\ allowed' = [allowed EXCEPT ![c] = IF count[c] < Limit THEN TRUE ELSE FALSE]
      /\ pc' = [pc EXCEPT ![c] = IF count[c] < Limit THEN "increment" ELSE "done"]
      /\ touchedAt' = [touchedAt EXCEPT ![c] = now] /\ count' = [count EXCEPT ![c] = 0]
      /\ UNCHANGED <<now, stamp, passed, before>>
  <2>1. Redis!UnderLimit(c) = IF count[c] < Limit THEN TRUE ELSE FALSE
    <3>1. Redis!UnderLimit(c) = (count[c] < Limit)
      BY DEF Redis!UnderLimit, Limit
    <3> QED
      BY <1>1, <3>1, RedConstants, Compared
  <2> QED
    BY <2>1 DEF Redis!Add, Redis!Score, Redis!UnderLimit, Limit
<1>3. /\ allowed'[c] = (IF count[c] < Limit THEN TRUE ELSE FALSE) /\ pc'[c] \in {"increment", "done"}
      /\ touchedAt'[c] = now /\ stamp'[c] = stamp[c]
  BY <1>2 DEF RedInv, RedTypes
<1>4. allowed'[c] \in BOOLEAN /\ allowed'[c] # NULL
  BY <1>3, RedConstants
<1>5. <<c, "check">> \in Members /\ \A m \in Members : m = <<c, "check">> => m[1] = c
  BY DEF Members, Redis!Members
<1>6. /\ zset' = [m \in Members |-> zset'[m]]
      /\ \A m \in Members : IF m = <<c, "check">> THEN zset'[m] = stamp[c] ELSE zset'[m] = zset[m]
  BY <1>2, <1>5 DEF RedInv, RedTypes
<1>7. RedTypes'
  <2>1. \A m \in Members : zset'[m] # NULL => zset'[m] \in 0..now
    BY <1>1, <1>6 DEF RedInv, RedTypes
  <2>2. allowed' \in [Requests -> BOOLEAN \cup {NULL}]
    BY <1>2 DEF RedInv, RedTypes
  <2>3. count' \in [Requests -> Nat] /\ touchedAt' \in [Requests -> (0..now) \cup {NULL}]
    BY <1>1, <1>2 DEF RedInv, RedTypes
  <2>4. pc' \in [Requests -> {"idle", "add", "increment", "done"}]
    BY <1>2 DEF RedInv, RedTypes
  <2> QED
    BY <1>2, <1>6, <2>1, <2>2, <2>3, <2>4 DEF RedInv, RedTypes
<1>8. \A m \in Members : zset'[m] # NULL =>
               zset'[m] = zset[m] \/ (m[1] = c /\ touchedAt'[c] # NULL /\ zset'[m] <= touchedAt'[c])
  BY <1>1, <1>3, <1>5, <1>6
<1>9. CrowdOK(c) /\ allowed'[c] = FALSE => Limit <= 2 * Cardinality(Touchers(c))
  <2> SUFFICES ASSUME CrowdOK(c), allowed'[c] = FALSE PROVE Limit <= 2 * Cardinality(Touchers(c))
    OBVIOUS
  <2>1. count[c] >= Limit
    BY <1>1, <1>3, RedConstants
  <2> QED
    BY <1>1, <2>1, RedFinite, RedConstants DEF CrowdOK
<1>10. EarlierOK(c) /\ allowed'[c] = TRUE => 2 * Cardinality(Earlier(c)) < Limit
  <2> SUFFICES ASSUME EarlierOK(c), allowed'[c] = TRUE PROVE 2 * Cardinality(Earlier(c)) < Limit
    OBVIOUS
  <2>1. count[c] < Limit
    BY <1>1, <1>3, RedConstants
  <2> QED
    BY <1>1, <2>1, RedFinite, RedConstants DEF EarlierOK
<1>11. \A d \in Requests \ {c} :
               /\ pc'[d] = pc[d] /\ stamp'[d] = stamp[d] /\ allowed'[d] = allowed[d]
               /\ touchedAt'[d] = touchedAt[d] /\ count'[d] = count[d]
               /\ d \in passed' <=> d \in passed
  BY <1>2 DEF RedInv, RedTypes
<1> QED
  BY <1>1, <1>2, <1>3, <1>4, <1>7, <1>8, <1>9, <1>10, <1>11, OwnRed

\* Redis does not answer and the request is let through.
LEMMA CheckFailsRed == ASSUME RedInv, NEW c \in Requests, Redis!CheckFails(c) PROVE RedInv'
<1>1. pc[c] \in {"idle", "add"} /\ now \in Nat /\ now # NULL
  BY Constants DEF Redis!CheckFails, RedInv, RedTypes, Times
<1>2. /\ allowed' = [allowed EXCEPT ![c] = TRUE] /\ passed' = passed \cup {c}
      /\ stamp' = [stamp EXCEPT ![c] = IF stamp[c] = NULL THEN now ELSE stamp[c]]
      /\ pc' = [pc EXCEPT ![c] = "increment"] /\ count' = [count EXCEPT ![c] = 0]
      /\ UNCHANGED <<now, zset, before, touchedAt>>
  BY DEF Redis!CheckFails
<1>3. /\ allowed'[c] = TRUE /\ c \in passed' /\ pc'[c] = "increment" /\ TRUE # NULL
      /\ stamp'[c] # NULL /\ (stamp[c] # NULL => stamp'[c] = stamp[c])
  BY <1>1, <1>2, RedConstants DEF RedInv, RedTypes
<1>4. RedTypes'
  <2>1. stamp' \in [Requests -> (0..now) \cup {NULL}]
    BY <1>1, <1>2 DEF RedInv, RedTypes
  <2> QED
    BY <1>2, <2>1 DEF RedInv, RedTypes
<1>5. \A d \in Requests \ {c} :
               /\ pc'[d] = pc[d] /\ stamp'[d] = stamp[d] /\ allowed'[d] = allowed[d]
               /\ touchedAt'[d] = touchedAt[d] /\ count'[d] = count[d]
               /\ d \in passed' <=> d \in passed
  BY <1>2 DEF RedInv, RedTypes
<1>6. allowed'[c] # NULL /\ allowed'[c] # FALSE
  BY <1>3
<1> QED
  BY <1>1, <1>2, <1>3, <1>4, <1>5, <1>6, OwnRed

\* An admitted request counts itself, if Redis answers.
LEMMA IncrementRed == ASSUME RedInv, NEW c \in Requests, Redis!Increment(c) PROVE RedInv'
<1>1. pc[c] = "increment" /\ now \in Nat /\ now # NULL /\ allowed[c] # NULL /\ stamp[c] # NULL
  BY Constants DEF Redis!Increment, RedInv, RedTypes, RequestOK, Times
<1>2. /\ zset' = (IF up THEN [zset EXCEPT ![<<c, "usage">>] = now] ELSE zset)
      /\ pc' = [pc EXCEPT ![c] = "done"] /\ touchedAt' = [touchedAt EXCEPT ![c] = now]
      /\ UNCHANGED <<now, count, stamp, allowed, passed, before>>
  BY DEF Redis!Increment
<1>3. pc'[c] = "done" /\ touchedAt'[c] = now /\ touchedAt'[c] # NULL
  BY <1>1, <1>2 DEF RedInv, RedTypes
<1>4. <<c, "usage">> \in Members /\ \A m \in Members : m = <<c, "usage">> => m[1] = c
  BY DEF Members, Redis!Members
<1>5. /\ zset' = [m \in Members |-> zset'[m]]
      /\ \A m \in Members : zset'[m] = zset[m] \/ (m = <<c, "usage">> /\ zset'[m] = now)
  BY <1>2, <1>4 DEF RedInv, RedTypes
<1>6. RedTypes'
  <2>1. \A m \in Members : zset'[m] # NULL => zset'[m] \in 0..now
    BY <1>1, <1>5 DEF RedInv, RedTypes
  <2>2. touchedAt' \in [Requests -> (0..now) \cup {NULL}]
    BY <1>1, <1>2 DEF RedInv, RedTypes
  <2> QED
    BY <1>2, <1>5, <2>1, <2>2 DEF RedInv, RedTypes
<1>7. \A m \in Members : zset'[m] # NULL =>
               zset'[m] = zset[m] \/ (m[1] = c /\ touchedAt'[c] # NULL /\ zset'[m] <= touchedAt'[c])
  BY <1>1, <1>3, <1>4, <1>5
<1>8. \A d \in Requests \ {c} :
               /\ pc'[d] = pc[d] /\ stamp'[d] = stamp[d] /\ allowed'[d] = allowed[d]
               /\ touchedAt'[d] = touchedAt[d] /\ count'[d] = count[d]
               /\ d \in passed' <=> d \in passed
  BY <1>2 DEF RedInv, RedTypes
<1> QED
  BY <1>1, <1>2, <1>3, <1>6, <1>7, <1>8, OwnRed DEF CrowdOK, EarlierOK

\* Time passes, the connection comes and goes, the key is deleted.
LEMMA QuietRed ==
    ASSUME RedInv, now <= now', now' \in Times,
           UNCHANGED <<pc, stamp, allowed, before, touchedAt, count, passed>>,
           zset' = zset \/ zset' = [m \in Members |-> NULL]
    PROVE  RedInv'
<1>1. zset' = [m \in Members |-> zset'[m]] /\ \A m \in Members : zset'[m] # NULL => zset'[m] = zset[m]
  BY DEF RedInv, RedTypes
<1>2. now \in Nat /\ now' \in Nat /\ 0..now \subseteq 0..now'
  BY DEF RedInv, RedTypes, Times
<1>3. RedTypes'
  <2>1. \A m \in Members : zset'[m] # NULL => zset'[m] \in 0..now'
    BY <1>1, <1>2 DEF RedInv, RedTypes
  <2>2. stamp' \in [Requests -> (0..now') \cup {NULL}] /\ touchedAt' \in [Requests -> (0..now') \cup {NULL}]
    BY <1>2 DEF RedInv, RedTypes
  <2> QED
    BY <1>1, <2>1, <2>2 DEF RedInv, RedTypes
<1>4. IsFiniteSet({})
  BY FS_EmptySet
<1> DEFINE Movers == {}
<1>5. Movers \in SUBSET Requests /\ IsFiniteSet(Movers) /\ \A d \in Movers : FALSE
  BY <1>4
<1>6. \A d \in Requests \ Movers :
               /\ pc'[d] = pc[d] /\ stamp'[d] = stamp[d] /\ allowed'[d] = allowed[d]
               /\ before'[d] = before[d] /\ touchedAt'[d] = touchedAt[d] /\ count'[d] = count[d]
               /\ d \in passed' <=> d \in passed
  OBVIOUS
<1> QED
  BY <1>1, <1>3, <1>5, <1>6, RedKeeps

\* Every step of the limiter over Redis keeps all of it.
LEMMA NextRedInv == RedInv /\ [Redis!Next]_(Redis!vars) => RedInv'
<1> SUFFICES ASSUME RedInv, [Redis!Next]_(Redis!vars) PROVE RedInv'
  OBVIOUS
<1>1. ASSUME NEW r \in Requests, Redis!Count(r) \/ Redis!Add(r) \/ Redis!CheckFails(r) \/ Redis!Increment(r)
      PROVE  RedInv'
  BY <1>1, CountRed, AddRed, CheckFailsRed, IncrementRed
<1>2. now \in Nat /\ now \in Times
  BY DEF RedInv, RedTypes, Times
<1>3. CASE Redis!Disconnect
  BY <1>2, <1>3, QuietRed DEF Redis!Disconnect
<1>4. CASE Redis!Reconnect
  BY <1>2, <1>4, QuietRed DEF Redis!Reconnect
<1>5. CASE Redis!Reset
  BY <1>2, <1>5, QuietRed DEF Redis!Reset, Members
<1>6. CASE Redis!Tick
  <2>1. now' \in Times /\ now <= now'
    BY <1>2, <1>6, Constants DEF Redis!Tick, Times
  <2> QED
    BY <1>6, <2>1, QuietRed DEF Redis!Tick
<1>7. CASE UNCHANGED Redis!vars
  BY <1>2, <1>7, QuietRed DEF Redis!vars
<1> QED
  BY <1>1, <1>3, <1>4, <1>5, <1>6, <1>7 DEF Redis!Next

\* It holds at the start.
LEMMA InitRedInv == Redis!Init => RedInv
<1> SUFFICES ASSUME Redis!Init PROVE RedInv
  OBVIOUS
<1>1. Touched = {}
  BY DEF Touched, Redis!Init
<1>2. RedTypes
  BY Constants DEF RedTypes, Redis!Init, Times, Members
<1>3. NULL # TRUE /\ NULL # FALSE
  BY RedConstants
<1>4. ASSUME NEW r \in Requests PROVE RequestOK(r) /\ CrowdOK(r) /\ EarlierOK(r)
  <2>1. pc[r] = "idle" /\ stamp[r] = NULL /\ touchedAt[r] = NULL /\ allowed[r] = NULL /\ r \notin passed
        /\ before[r] = {} /\ \A k \in Kinds : zset[<<r, k>>] = NULL
    BY DEF Redis!Init, Redis!Members, Kinds
  <2> QED
    BY <1>3, <2>1 DEF RequestOK, CrowdOK, EarlierOK
<1> QED
  BY <1>1, <1>2, <1>4, FS_EmptySet DEF RedInv

\* Who is denied has counted as many members as the limit.
LEMMA RedCrowded == RedInv => Redis!DeniedOnlyIfCrowded
<1> SUFFICES ASSUME RedInv, NEW r \in Requests, allowed[r] # NULL, ~allowed[r]
             PROVE  2 * Redis!Cardinality(Touchers(r)) >= Limit
  BY DEF Redis!DeniedOnlyIfCrowded, Redis!Answered, Touchers, Limit
<1>1. allowed[r] = FALSE
  BY DEF RedInv, RedTypes
<1>2. Limit <= 2 * Cardinality(Touchers(r))
  BY <1>1 DEF RedInv, CrowdOK
<1> QED
  BY <1>2, RedFinite, RedisCardinality, RedConstants

\* Of finitely many requests that do not overlap one began after the others had left.
LEMMA LastToBegin ==
    ASSUME RedInv, NEW S \in SUBSET Requests, IsFiniteSet(S), S # {},
           \A q, r \in S : ~Redis!Overlap(q, r)
    PROVE  \E r \in S : \A q \in S \ {r} : q \in before[r]
<1> DEFINE Bad == {A \in SUBSET S : A # {} /\ ~\E r \in A : \A q \in A \ {r} : q \in before[r]}
<1> SUFFICES ASSUME Bad # {} PROVE FALSE
  OBVIOUS
<1>1. IsWellFoundedOn(StrictSubsetOrdering(S), FiniteSubsetsOf(S)) /\ FiniteSubsetsOf(S) = SUBSET S
  BY FS_StrictSubsetOrderingWellFounded, FS_FiniteSubsetsOfFinite
<1>2. PICK A \in Bad : \A B \in Bad : <<B, A>> \notin StrictSubsetOrdering(S)
  <2>1. Bad \subseteq SUBSET S
    OBVIOUS
  <2> HIDE DEF Bad
  <2> QED
    BY <1>1, <2>1, WFMin
<1>3. PICK k \in A : TRUE
  OBVIOUS
<1>4. A \ {k} \notin Bad
  <2>1. A \subseteq S /\ A \ {k} \subseteq A /\ A \ {k} # A
    BY <1>3
  <2> HIDE DEF Bad
  <2>2. <<A \ {k}, A>> \in StrictSubsetOrdering(S)
    BY <2>1 DEF StrictSubsetOrdering
  <2> QED
    BY <1>2, <2>2
<1>5. PICK j \in A \ {k} : \A q \in A \ {k, j} : q \in before[j]
  <2>1. A \ {k} # {}
    BY <1>3
  <2> QED
    BY <1>4, <2>1
<1>6. k \in before[j] \/ j \in before[k]
  BY <1>3, <1>5 DEF Redis!Overlap
<1>7. j \in before[k] => before[j] \subseteq before[k]
  BY <1>3 DEF RedInv, RequestOK
<1> QED
  BY <1>3, <1>5, <1>6, <1>7

\* The last of them was admitted when it had counted two members of each other.
LEMMA RedSequential == RedInv => Redis!SequentialBound
<1> SUFFICES ASSUME RedInv,
                    NEW S \in SUBSET {r \in Requests : allowed[r] = TRUE /\ r \notin passed /\ Redis!Remembered(r)},
                    \A q, r \in S : ~Redis!Overlap(q, r),
                    \A q, r \in S : stamp[q] - stamp[r] < Window
             PROVE  2 * Redis!Cardinality(S) <= Limit + 1
  BY DEF Redis!SequentialBound, Limit
<1>1. S \subseteq Touched /\ S \subseteq Requests
  BY DEF Touched, RedInv, RequestOK
<1>2. IsFiniteSet(S) /\ Cardinality(S) \in Nat
  BY <1>1, FS_Subset, FS_CardinalityType DEF RedInv
<1>3. CASE S = {}
  BY <1>2, <1>3, FS_EmptySet, RedisCardinality, RedConstants
<1>4. CASE S # {}
  <2>1. PICK r \in S : \A q \in S \ {r} : q \in before[r]
    BY <1>1, <1>2, <1>4, LastToBegin
  <2>2. S \ {r} \subseteq Earlier(r)
    BY <2>1 DEF Earlier, Counted
  <2>3. IsFiniteSet(Earlier(r)) /\ Cardinality(Earlier(r)) \in Nat /\ 2 * Cardinality(Earlier(r)) < Limit
    <3>1. r \in Requests /\ allowed[r] = TRUE /\ r \notin passed /\ EarlierOK(r)
      BY DEF RedInv
    <3> QED
      BY <3>1, RedFinite DEF EarlierOK
  <2>4. Cardinality(S \ {r}) <= Cardinality(Earlier(r))
    BY <2>2, <2>3, FS_Subset
  <2>5. Cardinality(S \ {r}) = Cardinality(S) - 1
    BY <1>2, FS_RemoveElement
  <2>6. 2 * Cardinality(S) <= Limit + 1
    BY <1>2, <2>3, <2>4, <2>5, RedConstants
  <2> QED
    BY <2>6, RedisCardinality
<1> QED
  BY <1>3, <1>4

-----------------------------------------------------------------------------
(* The service: one of the two limiters serves, the other has done nothing. *)

MemoryIdle ==
    /\ \A t \in Tenants : bucket[t] = NULL
    /\ \A r \in Requests : answer[r] = NULL

RedisIdle == \A r \in Requests : allowed[r] = NULL

ServiceInv ==
    \/ backend = "memory" /\ MemInv /\ RedisIdle
    \/ backend = "redis" /\ RedInv /\ MemoryIdle

\* It holds at the start.
LEMMA InitServiceInv == ServiceInit => ServiceInv
<1> SUFFICES ASSUME ServiceInit PROVE ServiceInv
  OBVIOUS
<1>1. MemInv /\ RedInv
  BY InitMemInv, InitRedInv DEF ServiceInit
<1>2. RedisIdle /\ MemoryIdle
  BY DEF ServiceInit, Init, Redis!Init, RedisIdle, MemoryIdle
<1> QED
  BY <1>1, <1>2 DEF ServiceInit, ServiceInv

\* Every step of the service is one of the limiter that serves.
LEMMA NextServiceInv == ServiceInv /\ [ServiceNext]_<<vars, backend, redisVars>> => ServiceInv'
<1> SUFFICES ASSUME ServiceInv, [ServiceNext]_<<vars, backend, redisVars>> PROVE ServiceInv'
  OBVIOUS
<1>1. ASSUME backend = "memory", [Next]_vars, UNCHANGED <<backend, redisVars>> PROVE ServiceInv'
  <2>1. MemInv /\ RedisIdle
    BY <1>1 DEF ServiceInv
  <2>2. MemInv'
    BY <1>1, <2>1, NextMemInv
  <2>3. RedisIdle'
    BY <1>1, <2>1 DEF RedisIdle, redisVars
  <2> QED
    BY <1>1, <2>2, <2>3 DEF ServiceInv
<1>2. ASSUME backend = "redis", [Redis!Next]_(Redis!vars), UNCHANGED <<backend, bucket, answer>> PROVE ServiceInv'
  <2>1. RedInv /\ MemoryIdle
    BY <1>2 DEF ServiceInv
  <2>2. RedInv'
    BY <1>2, <2>1, NextRedInv
  <2>3. MemoryIdle'
    BY <1>2, <2>1 DEF MemoryIdle
  <2> QED
    BY <1>2, <2>2, <2>3 DEF ServiceInv
<1>3. CASE \/ \E r \in Requests : InMemory(Check(r)) \/ InMemory(Increment(r))
           \/ \E t \in Tenants : InMemory(Reset(t))
           \/ InMemory(Cleanup)
           \/ InMemory(Tick)
  BY <1>1, <1>3 DEF InMemory, Next
<1>4. CASE \/ \E r \in Requests : \/ OverRedis(Redis!Count(r)) \/ OverRedis(Redis!Add(r))
                                  \/ OverRedis(Redis!CheckFails(r)) \/ OverRedis(Redis!Increment(r))
           \/ OverRedis(Redis!Disconnect) \/ OverRedis(Redis!Reconnect)
           \/ OverRedis(Redis!Reset) \/ OverRedis(Redis!Tick)
  BY <1>2, <1>4 DEF OverRedis, memoryVars, Redis!Next
<1>5. CASE UNCHANGED <<vars, backend, redisVars>>
  <2>1. UNCHANGED vars /\ UNCHANGED Redis!vars /\ UNCHANGED <<backend, redisVars, bucket, answer>>
    BY <1>5 DEF vars, redisVars, Redis!vars
  <2>2. backend = "memory" \/ backend = "redis"
    BY DEF ServiceInv
  <2> QED
    BY <1>1, <1>2, <2>1, <2>2
<1> QED
  BY <1>3, <1>4, <1>5 DEF ServiceNext

\* What the limiter that serves promises the service keeps.
LEMMA ServiceKeeps ==
    ServiceInv => /\ BucketBounds /\ AdmissionBound /\ DeniedOnlyIfBusy
                  /\ SequentialBound /\ DeniedOnlyIfCrowded
<1> SUFFICES ASSUME ServiceInv
             PROVE  /\ BucketBounds /\ AdmissionBound /\ DeniedOnlyIfBusy
                    /\ SequentialBound /\ DeniedOnlyIfCrowded
  OBVIOUS
<1>1. CASE backend = "memory"
  <2>1. MemInv /\ RedisIdle
    BY <1>1 DEF ServiceInv
  <2>2. BucketBounds /\ AdmissionBound /\ DeniedOnlyIfBusy
    BY <2>1, PaidBounds DEF MemInv, IInv
  <2>3. SequentialBound
    <3>1. {r \in Requests : allowed[r] = TRUE /\ r \notin passed /\ Redis!Remembered(r)} = {}
      BY <2>1, RedConstants DEF RedisIdle
    <3>2. 2 * Redis!Cardinality({}) <= Limit + 1
      BY FS_EmptySet, RedisCardinality, RedConstants
    <3> QED
      BY <3>1, <3>2 DEF SequentialBound, Redis!SequentialBound, Limit
  <2>4. DeniedOnlyIfCrowded
    BY <2>1 DEF RedisIdle, DeniedOnlyIfCrowded, Redis!DeniedOnlyIfCrowded, Redis!Answered
  <2> QED
    BY <2>2, <2>3, <2>4
<1>2. CASE backend = "redis"
  <2>1. RedInv /\ MemoryIdle
    BY <1>2 DEF ServiceInv
  <2>2. SequentialBound /\ DeniedOnlyIfCrowded
    BY <2>1, RedSequential, RedCrowded DEF SequentialBound, DeniedOnlyIfCrowded
  <2>3. BucketBounds /\ DeniedOnlyIfBusy
    BY <2>1 DEF MemoryIdle, BucketBounds, DeniedOnlyIfBusy, Denied, Checked
  <2>4. AdmissionBound
    <3> SUFFICES ASSUME NEW r \in Requests, NEW s \in 0..now
                 PROVE  Cardinality(AdmittedSince(TenantOf[r], s)) * Window
                            < MaxLimit(TenantOf[r]) * Window + (now - s) * MaxLimit(TenantOf[r]) + Window
      BY DEF AdmissionBound
    <3> DEFINE m == MaxLimit(TenantOf[r])
    <3>1. AdmittedSince(TenantOf[r], s) = {}
      BY <2>1 DEF MemoryIdle, AdmittedSince, Admitted, Checked
    <3>2. m \in Nat /\ now - s \in Nat /\ Window \in Nat /\ Window > 0
      BY <2>1, MaxLimitOK, Constants DEF RedInv, RedTypes, Times
    <3> HIDE DEF m
    <3>3. m * Window \in Nat /\ (now - s) * m \in Nat
      BY <3>2
    <3>4. 0 * Window < m * Window + (now - s) * m + Window
      BY <3>2, <3>3
    <3> QED
      BY <3>1, <3>4, FS_EmptySet DEF m
  <2> QED
    BY <2>2, <2>3, <2>4
<1> QED
  BY <1>1, <1>2 DEF ServiceInv

\* Whichever limiter serves, no bucket holds more than its capacity or owes a token.
THEOREM ServiceBuckets == ServiceSpec => []BucketBounds
BY InitServiceInv, NextServiceInv, ServiceKeeps, PTL DEF ServiceSpec

\* No interval lets more through than one burst and what flows in, however
\* checks, increments, clean-ups, resets and ticks follow each other.
THEOREM AdmissionBounded == ServiceSpec => []AdmissionBound
BY InitServiceInv, NextServiceInv, ServiceKeeps, PTL DEF ServiceSpec

\* In memory a denial means that another request used the bucket just before.
THEOREM DeniedBusy == ServiceSpec => []DeniedOnlyIfBusy
BY InitServiceInv, NextServiceInv, ServiceKeeps, PTL DEF ServiceSpec

\* Over Redis requests that do not overlap are admitted up to half the limit.
THEOREM HalfTheLimit == ServiceSpec => []SequentialBound
BY InitServiceInv, NextServiceInv, ServiceKeeps, PTL DEF ServiceSpec

\* Over Redis a denial is earned by the requests of the window.
THEOREM DeniedCrowded == ServiceSpec => []DeniedOnlyIfCrowded
BY InitServiceInv, NextServiceInv, ServiceKeeps, PTL DEF ServiceSpec
=============================================================================
