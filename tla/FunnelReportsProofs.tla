-------------------------- MODULE FunnelReportsProofs --------------------------
(***************************************************************************)
(* Whose reports are answered, how long an archived funnel is served, and  *)
(* what becomes of a job: theorems about FunnelReports for every number of *)
(* calls, funnels, tenants, lifetimes, faults and restarts.  Then what the *)
(* reports on a workspace count, and what of them is kept: theorems about  *)
(* WorkspaceAnalytics for every lifetime, skew, size of slots and delay.   *)
(***************************************************************************)
EXTENDS FunnelReports, WorkspaceAnalytics, SequenceTheorems, TLAPS

-----------------------------------------------------------------------------
(* What is assumed.                                                        *)

Entries == [value : Calls, expiresAt : Nat, lastAccessAt : 0..MaxTime]

\* The assumptions on the constants, as the proofs use them.
LEMMA Assumptions ==
    /\ NULL \notin Calls /\ NULL \notin Nat /\ NULL \notin Jobs /\ NULL \notin Queries
    /\ Values = Calls /\ MaxTime \in Nat /\ MaxSize \in Nat
    /\ TTLs \subseteq Nat /\ {ReportTTL, DataTTL, ConfigTTL} \subseteq TTLs
    /\ LeastRefresh \in Nat /\ MostRefresh \in Nat /\ LeastRefresh <= MostRefresh
    /\ \A r \in JobReplies : r \notin Calls \cup {NULL}
BY CacheAssumption, FunnelReportsAssumption, NullAssumption, QueriesAssumption

\* What the cache holds is told apart from nothing.
LEMMA EntryNotNull == \A e \in Entries : e # NULL
<1>1. \A e \in Entries : e \in [value : Values, expiresAt : Nat, lastAccessAt : Nat]
  BY Assumptions DEF Entries
<1> QED
  BY <1>1, CacheAssumption

\* A query is about a report or an export.
LEMMA QueryOK ==
    ASSUME NEW q \in Queries
    PROVE  /\ q # NULL /\ q.op \in Reporting \cup {"export"}
           /\ q.op = "export" => /\ q.type \in DataTypes
                                 /\ ConfigKey(q) \in CacheKeys /\ DataKey(q) \in CacheKeys
           /\ q.op # "export" => Key(q) \in CacheKeys
BY QueriesAssumption, FunnelReportsAssumption

\* Live metrics live no longer than the controller's limit.
LEMMA LifetimeOK ==
    ASSUME NEW q \in Queries
    PROVE  /\ Lifetime(q) \in TTLs /\ Lifetime(q) \in Nat
           /\ q.op = "live" => Lifetime(q) <= MostRefresh
<1>1. CASE q.op = "live"
  <2>1. q.refresh \in Int
    BY <1>1, QueriesAssumption
  <2>2. RefreshInterval(q) \in LeastRefresh..MostRefresh
    BY <2>1, Assumptions DEF RefreshInterval, AtLeast, AtMost
  <2>3. Lifetime(q) \in LeastRefresh..MostRefresh
    BY <1>1, <2>2, Assumptions DEF Lifetime, AtLeast
  <2> QED
    BY <2>3, Assumptions, FunnelReportsAssumption
<1>2. CASE q.op # "live"
  BY <1>2, Assumptions DEF Lifetime
<1> QED
  BY <1>1, <1>2

-----------------------------------------------------------------------------
(* The operations of the cache.                                            *)

\* The entry of a key goes, or stays with its value and its lifetime.
Keeps(k) ==
    cache'[k] # NULL => /\ cache[k] # NULL
                        /\ cache'[k].value = cache[k].value
                        /\ cache'[k].expiresAt = cache[k].expiresAt

\* get keeps what there is, but for an expired entry of its key.
LEMMA GetKeeps ==
    ASSUME CacheOK, NEW k \in CacheKeys, Get(k), UNCHANGED now
    PROVE  CacheOK' /\ \A j \in CacheKeys : Keeps(j)
<1>1. CASE Fresh(k)
  <2> DEFINE e == [cache[k] EXCEPT !.lastAccessAt = now]
  <2>1. cache[k] \in Entries
    BY <1>1, Assumptions DEF Fresh, CacheOK, Entries
  <2>2. e \in Entries /\ e.lastAccessAt = now /\ e.value = cache[k].value /\ e.expiresAt = cache[k].expiresAt
    BY <2>1 DEF Entries, CacheOK
  <2>3. cache' = [cache EXCEPT ![k] = e]
    BY <1>1 DEF Get, Touch
  <2>4. e # NULL /\ cache[k] # NULL
    BY <1>1, <2>2, EntryNotNull DEF Fresh
  <2> HIDE DEF e
  <2> QED
    BY <2>2, <2>3, <2>4, Assumptions DEF CacheOK, Held, Entries, Keeps
<1>2. CASE ~Fresh(k)
  BY <1>2 DEF Get, CacheOK, Held, Keeps
<1> QED
  BY <1>1, <1>2

\* set stores the value for its lifetime and leaves other entries or drops one.
LEMMA SetKeeps ==
    ASSUME CacheOK, NEW k \in CacheKeys, NEW v \in Calls, NEW ttl \in TTLs, Set(k, v, ttl), UNCHANGED now
    PROVE  /\ CacheOK'
           /\ cache'[k] # NULL /\ cache'[k].value = v /\ cache'[k].expiresAt = now + ttl
           /\ \A j \in CacheKeys \ {k} : Keeps(j)
<1> DEFINE e == [value |-> v, expiresAt |-> now + ttl, lastAccessAt |-> now]
<1>1. e \in Entries /\ e.lastAccessAt = now /\ e.value = v /\ e.expiresAt = now + ttl
  BY Assumptions DEF Entries, CacheOK
<1>2. e # NULL
  BY <1>1, EntryNotNull
<1>3. cache' = [cache EXCEPT ![k] = e]
      \/ \E victim \in LeastRecentlyUsed : cache' = [cache EXCEPT ![victim] = NULL, ![k] = e]
  BY DEF Set
<1> HIDE DEF e
<1>4. CASE cache' = [cache EXCEPT ![k] = e]
  BY <1>1, <1>2, <1>4, Assumptions DEF CacheOK, Held, Entries, Keeps
<1>5. ASSUME NEW victim \in LeastRecentlyUsed, cache' = [cache EXCEPT ![victim] = NULL, ![k] = e]
      PROVE  /\ CacheOK'
             /\ cache'[k] = e
             /\ \A j \in CacheKeys \ {k} : Keeps(j)
  BY <1>1, <1>2, <1>5, Assumptions DEF CacheOK, Held, Entries, Keeps, LeastRecentlyUsed
<1> QED
  BY <1>1, <1>2, <1>3, <1>4, <1>5 DEF CacheOK

\* A restart and the clean-up only drop entries.
LEMMA DropKeeps ==
    ASSUME CacheOK, UNCHANGED now, Clear \/ CleanupExpired
    PROVE  CacheOK' /\ \A j \in CacheKeys : Keeps(j)
BY DEF CacheOK, Clear, CleanupExpired, Held, Keeps

\* What is served is what the entry holds, which has not expired.
LEMMA CachedValue ==
    ASSUME CacheOK, NEW k \in CacheKeys
    PROVE  /\ Fresh(k) => /\ cache[k] # NULL /\ now <= cache[k].expiresAt /\ cache[k].expiresAt \in Nat
                          /\ Cached(k) = cache[k].value /\ Cached(k) \in Calls /\ Cached(k) # NULL
           /\ ~Fresh(k) => Cached(k) = NULL
BY Assumptions DEF CacheOK, Fresh, Cached

-----------------------------------------------------------------------------
(* The steps of the plans.                                                 *)

Part(s, kinds) == s \in Seq(Steps) /\ \A i \in 1..Len(s) : s[i].do \in kinds

\* Checks, queries and the other steps.
LEMMA StepKinds ==
    /\ \A q \in Queries : /\ CheckShifted(q) \in Steps /\ CheckShifted(q).do = "check"
                          /\ CheckFunnel(q) \in Steps /\ CheckFunnel(q).do = "check"
    /\ \A m \in DOMAIN Named \cup {"getFunnelSteps"} : Query(m) \in Steps /\ Query(m).do = "query"
    /\ \A d \in Reading \cup Ending \cup {"lookUp", "keepData"} : [do |-> d] \in Steps
<1>1. \A q \in Queries : q.funnel \in Ids /\ q.tenant \in Ids /\ q.workspace \in Ids
  BY DEF Ids
<1>2. \A i, j, k \in Ids : Check(i, j, k) \in Steps /\ Check(i, j, k).do = "check"
  BY DEF Check, Steps
<1>3. \A m \in DOMAIN Named \cup {"getFunnelSteps"} : Query(m) \in Steps /\ Query(m).do = "query"
  BY DEF Query, Steps
<1>4. \A d \in Reading \cup Ending \cup {"lookUp", "keepData"} : [do |-> d] \in Steps
  BY DEF Steps
<1> QED
  BY <1>1, <1>2, <1>3, <1>4 DEF CheckShifted, CheckFunnel

\* A concatenation has the steps of its parts.
LEMMA PartConcat ==
    ASSUME NEW kinds, NEW s, NEW r, Part(s, kinds), Part(r, kinds)
    PROVE  Part(s \o r, kinds) /\ Len(s \o r) = Len(s) + Len(r)
<1>1. s \in Seq(Steps) /\ r \in Seq(Steps)
  BY DEF Part
<1>2. /\ s \o r \in Seq(Steps) /\ Len(s \o r) = Len(s) + Len(r)
      /\ \A i \in 1..(Len(s) + Len(r)) : (s \o r)[i] = IF i <= Len(s) THEN s[i] ELSE r[i - Len(s)]
  BY <1>1, ConcatProperties
<1>3. Len(s) \in Nat /\ Len(r) \in Nat
  BY <1>1, LenProperties
<1>4. ASSUME NEW i \in 1..Len(s \o r) PROVE (s \o r)[i].do \in kinds
  <2>1. CASE i <= Len(s)
    BY <1>2, <1>3, <2>1 DEF Part
  <2>2. CASE ~(i <= Len(s))
    <3>1. i - Len(s) \in 1..Len(r)
      BY <1>2, <1>3, <2>2
    <3> QED
      BY <1>2, <1>3, <2>2, <3>1 DEF Part
  <2> QED
    BY <2>1, <2>2
<1> QED
  BY <1>2, <1>4 DEF Part

\* The statements of the reports.
LEMMA StatementParts ==
    ASSUME NEW q \in Queries
    PROVE  /\ Part(ConversionStatements(q), Asking) /\ Part(DropoffStatements(q), Asking)
           /\ Part(CohortsStatements(q), Asking) /\ Part(TimingQueries, Asking)
           /\ Part(DetailedData(q), Asking)
<1> DEFINE check == CheckShifted(q)
<1>1. /\ check \in Steps /\ check.do \in Asking
      /\ \A m \in DOMAIN Named : Query(m) \in Steps /\ Query(m).do \in Asking
  BY StepKinds DEF Asking
<1>2. CheckFunnel(q) \in Steps /\ CheckFunnel(q).do \in Asking
  BY StepKinds DEF Asking
<1> HIDE DEF check
<1>3. \A x \in Steps : x.do \in Asking => Part(<<x>>, Asking)
  BY DEF Part
<1>4. \A w, x, y, z \in Steps :
          w.do \in Asking /\ x.do \in Asking /\ y.do \in Asking /\ z.do \in Asking
          => Part(<<w, x, y, z>>, Asking)
  BY DEF Part
<1>5. \A v, w, x, y, z \in Steps :
          v.do \in Asking /\ w.do \in Asking /\ x.do \in Asking /\ y.do \in Asking /\ z.do \in Asking
          => Part(<<v, w, x, y, z>>, Asking)
  BY DEF Part
<1>6. Part(ConversionRates(q), Asking)
  <2> DEFINE methods == {"getStepCompletions", "getAverageStepCompletionTime",
                          "getAverageTimeToConvert", "getConversionVelocity"}
  <2>1. methods \subseteq DOMAIN Named
    BY DEF Named
  <2>2. \A m \in methods : Query(m) \in Steps /\ Query(m).do \in Asking
    BY <1>1, <2>1
  <2> QED
    BY <1>1, <2>2, <1>5 DEF ConversionRates, check
<1>7. Part(ConversionStatements(q), Asking)
  <2>1. Part(<<check>>, Asking)
    BY <1>1, <1>3
  <2>2. Part(<<check>> \o ConversionRates(q), Asking)
    BY <1>6, <2>1, PartConcat
  <2> QED
    BY <1>6, <2>2, PartConcat DEF ConversionStatements, check
<1>8. Part(DropoffStatements(q), Asking)
  <2> DEFINE methods == {"getStepDropoffRates", "getBottleneckSeverityScoring",
                          "getExitPathAnalysis", "generateOptimizationRecommendations"}
  <2>1. methods \subseteq DOMAIN Named
    BY DEF Named
  <2>2. \A m \in methods : Query(m) \in Steps /\ Query(m).do \in Asking
    BY <1>1, <2>1
  <2> QED
    BY <1>1, <2>2, <1>5 DEF DropoffStatements, check
<1>9. Part(CohortsStatements(q), Asking)
  <2> DEFINE methods == {"getCohortsByPeriod", "getCohortProgression", "compareCohortStatistics"}
  <2>1. methods \subseteq DOMAIN Named
    BY DEF Named
  <2>2. \A m \in methods : Query(m) \in Steps /\ Query(m).do \in Asking
    BY <1>1, <2>1
  <2> QED
    BY <1>1, <2>2, <1>4 DEF CohortsStatements, check
<1>10. Part(TimingQueries, Asking)
  <2> DEFINE methods == {"getConversionTimingDistribution", "getStepTimingAnalysis",
                          "getVelocityTrends", "getSegmentTimingComparison"}
  <2>1. methods \subseteq DOMAIN Named
    BY DEF Named
  <2>2. \A m \in methods : Query(m) \in Steps /\ Query(m).do \in Asking
    BY <1>1, <2>1
  <2> QED
    BY <1>1, <2>2, <1>4 DEF TimingQueries
<1>11. Part(DetailedData(q), Asking)
  <2>1. Part(ConversionStatements(q) \o DropoffStatements(q), Asking)
    BY <1>7, <1>8, PartConcat
  <2>2. Part(<<CheckFunnel(q)>>, Asking)
    BY <1>2, <1>3
  <2>3. Part(ConversionStatements(q) \o DropoffStatements(q) \o <<CheckFunnel(q)>>, Asking)
    BY <2>1, <2>2, PartConcat
  <2>4. Part(ConversionStatements(q) \o DropoffStatements(q) \o <<CheckFunnel(q)>> \o TimingQueries, Asking)
    BY <1>10, <2>3, PartConcat
  <2> QED
    BY <1>9, <2>4, PartConcat DEF DetailedData
<1> QED
  BY <1>7, <1>8, <1>9, <1>10, <1>11

\* The kinds of steps by the endpoint.
OpKinds(q) ==
    Asking \cup IF q.op = "export" THEN Reading \cup {"start"}
                ELSE IF q.op = "users" THEN {"lookUp", "respond"} ELSE {"lookUp", "store"}

LastOnly(s) == \A i \in 1..Len(s) : s[i].do \in Ending => i = Len(s)

\* Fewer kinds are of more kinds.
LEMMA PartMore == ASSUME NEW s, NEW small, NEW big, Part(s, small), small \subseteq big PROVE Part(s, big)
BY DEF Part

\* What goes on without an end is ended by its last step.
LEMMA Closed ==
    ASSUME NEW kinds, NEW s, Part(s, kinds \ Ending), NEW x \in Steps, x.do \in kinds
    PROVE  Part(s \o <<x>>, kinds) /\ LastOnly(s \o <<x>>) /\ Len(s \o <<x>>) = Len(s) + 1
           /\ Part(s, kinds) /\ LastOnly(s)
<1>1. Part(<<x>>, kinds) /\ Len(<<x>>) = 1
  BY DEF Part
<1>2. Part(s, kinds) /\ s \in Seq(Steps)
  BY DEF Part
<1>3. Part(s \o <<x>>, kinds) /\ Len(s \o <<x>>) = Len(s) + 1 /\ Len(s) \in Nat
  BY <1>1, <1>2, PartConcat, LenProperties
<1>4. \A i \in 1..Len(s) : (s \o <<x>>)[i] = s[i]
  <2>1. <<x>> \in Seq(Steps)
    OBVIOUS
  <2> QED
    BY <1>1, <1>2, <1>3, <2>1, ConcatProperties
<1>5. LastOnly(s) /\ LastOnly(s \o <<x>>)
  BY <1>3, <1>4 DEF LastOnly, Part
<1> QED
  BY <1>2, <1>3, <1>5

\* A report looks up what is kept, asks, and keeps or answers what it has made.
LEMMA ReportPlan ==
    ASSUME NEW q \in Queries, q.op # "export"
    PROVE  Part(Plan(q), OpKinds(q)) /\ LastOnly(Plan(q))
<1> DEFINE K == OpKinds(q)
           end == IF q.op = "users" THEN Respond ELSE Store
           check == CheckShifted(q)
           found == CheckFunnel(q)
<1>1. q.op \in Reporting
  BY QueryOK
<1>2. /\ LookUp \in Steps /\ LookUp.do \in K \ Ending /\ end \in Steps /\ end.do \in K
      /\ Asking \subseteq K \ Ending
  BY StepKinds DEF LookUp, Store, Respond, OpKinds, Ending, Asking
<1>3. /\ check \in Steps /\ check.do \in K \ Ending /\ found \in Steps /\ found.do \in K \ Ending
      /\ \A m \in DOMAIN Named \cup {"getFunnelSteps"} : Query(m) \in Steps /\ Query(m).do \in K \ Ending
  BY <1>2, StepKinds DEF Asking
<1> HIDE DEF K, check, found
<1>4. /\ Part(ConversionStatements(q), K \ Ending) /\ Part(DropoffStatements(q), K \ Ending)
      /\ Part(CohortsStatements(q), K \ Ending) /\ Part(TimingQueries, K \ Ending)
  BY <1>2, StatementParts, PartMore
<1>5. Part(<<LookUp>>, K \ Ending) /\ Part(<<found, LookUp>>, K \ Ending)
  BY <1>2, <1>3 DEF Part
<1>6. ASSUME NEW s, Part(s, K \ Ending)
      PROVE  Part(s \o <<end>>, K) /\ LastOnly(s \o <<end>>) /\ Part(s, K) /\ LastOnly(s)
  BY <1>2, <1>6, Closed
<1>7. CASE q.op = "conversion"
  <2>1. Part(<<LookUp>> \o ConversionStatements(q), K \ Ending)
    BY <1>4, <1>5, PartConcat
  <2> QED
    BY <1>6, <1>7, <2>1 DEF Plan, ConversionPlan, K
<1>8. CASE q.op = "dropoff"
  <2>1. Part(<<LookUp>> \o DropoffStatements(q), K \ Ending)
    BY <1>4, <1>5, PartConcat
  <2> QED
    BY <1>6, <1>8, <2>1 DEF Plan, DropoffPlan, K
<1>9. CASE q.op = "cohorts"
  <2>1. Part(<<LookUp>> \o CohortsStatements(q), K \ Ending)
    BY <1>4, <1>5, PartConcat
  <2> QED
    BY <1>6, <1>9, <2>1 DEF Plan, CohortsPlan, K
<1>10. CASE q.op = "timing"
  <2>1. Part(<<found, LookUp>> \o TimingQueries, K \ Ending)
    BY <1>4, <1>5, PartConcat
  <2> QED
    BY <1>6, <1>10, <2>1 DEF Plan, TimingPlan, K, found
<1> DEFINE asks == {"getStepConversionMetrics", "getConversionTimeSeries", "getUserJourneys",
                    "getTouchpointJourneys", "getAverageConversionRate", "getStepCompletions",
                    "getAverageTimeToConvert", "getLiveMetrics", "getFunnelSteps", "detectAnomalies", "getUserProgression"}
<1>11. \A m \in asks : Query(m) \in Steps /\ Query(m).do \in K \ Ending
  <2>1. asks \subseteq DOMAIN Named \cup {"getFunnelSteps"}
    BY DEF Named
  <2> QED
    BY <1>3, <2>1
<1>12. CASE q.op = "bottlenecks"
  BY <1>2, <1>3, <1>11, <1>12 DEF Plan, BottlenecksPlan, Part, LastOnly, K
<1>13. CASE q.op = "paths"
  BY <1>2, <1>3, <1>11, <1>13 DEF Plan, PathsPlan, Part, LastOnly, K
<1>14. CASE q.op = "attribution"
  BY <1>2, <1>3, <1>11, <1>14 DEF Plan, AttributionPlan, Part, LastOnly, K
<1>15. CASE q.op = "compare"
  BY <1>2, <1>3, <1>11, <1>15 DEF Plan, ComparePlan, Part, LastOnly, K, found
<1>16. CASE q.op = "live"
  BY <1>2, <1>3, <1>11, <1>16 DEF Plan, LivePlan, ReadSteps, Part, LastOnly, K, check
<1>17. CASE q.op = "users"
  BY <1>2, <1>3, <1>11, <1>17 DEF Plan, UsersPlan, Part, LastOnly, K, check
<1> QED
  BY <1>1, <1>7, <1>8, <1>9, <1>10, <1>12, <1>13, <1>14, <1>15, <1>16, <1>17 DEF Reporting

\* A query for an export looks at the configuration twice and starts a job.
LEMMA ExportPlanOK ==
    ASSUME NEW q \in Queries, q.op = "export"
    PROVE  /\ Part(Plan(q), OpKinds(q)) /\ LastOnly(Plan(q))
           /\ Plan(q) = <<[do |-> "config"], [do |-> "config"], [do |-> "start"]>>
<1>1. [do |-> "config"] \in Steps /\ [do |-> "start"] \in Steps
  BY StepKinds DEF Reading, Ending
<1>2. {"config", "start"} \subseteq OpKinds(q)
  BY DEF OpKinds, Reading
<1>3. Plan(q) = ExportPlan
  BY DEF Plan
<1> QED
  BY <1>1, <1>2, <1>3 DEF ExportPlan, Part, LastOnly, Ending

\* A job collects what it writes, unless the data is known.
LEMMA JobSteps ==
    ASSUME NEW q \in Queries, q.op = "export", NEW known \in BOOLEAN
    PROVE  /\ Part(JobPlan(q, known), Asking \cup Reading \cup {"keepData", "write"})
           /\ LastOnly(JobPlan(q, known)) /\ JobPlan(q, known) # <<>>
           /\ \A i \in 1..Len(JobPlan(q, known)) : JobPlan(q, known)[i].do # "keepConfig"
<1> DEFINE L == Asking \cup {"config", "keepData", "write"}
           K == L \ Ending
           config == [do |-> "config"]
           keep == [do |-> "keepData"]
           write == [do |-> "write"]
           collected == CASE q.type = "summary" -> ConversionStatements(q)
                          [] q.type = "detailed" -> DetailedData(q)
                          [] q.type = "raw" -> <<>>
           first == IF known THEN <<>> ELSE CollectPlan(q)
<1>1. config \in Steps /\ keep \in Steps /\ write \in Steps
  BY StepKinds DEF Reading, Ending
<1>2. config.do \in K /\ keep.do \in K /\ write.do \in L /\ Asking \subseteq K
  BY DEF Asking, Ending
<1> HIDE DEF K, L
<1>3. Part(<<>>, K)
  BY DEF Part
<1>4. Part(collected, K)
  <2>1. q.type \in DataTypes
    BY QueryOK
  <2>2. Part(ConversionStatements(q), K) /\ Part(DetailedData(q), K)
    BY <1>2, StatementParts, PartMore
  <2> QED
    BY <1>3, <2>1, <2>2 DEF DataTypes
<1> HIDE DEF collected
<1>5. Part(<<config>>, K) /\ Part(<<keep>>, K)
  BY <1>1, <1>2 DEF Part
<1>6. Part(first, K)
  <2>1. Part(<<config>> \o collected, K)
    BY <1>4, <1>5, PartConcat
  <2>2. Part(<<config>> \o collected \o <<keep>>, K)
    BY <1>5, <2>1, PartConcat
  <2>3. CollectPlan(q) = <<config>> \o collected \o <<keep>>
    BY DEF CollectPlan, collected
  <2> QED
    BY <1>3, <2>2, <2>3
<1> HIDE DEF first
<1>7. JobPlan(q, known) = first \o <<write>>
  BY DEF JobPlan, first
<1>8. /\ Part(first \o <<write>>, L) /\ LastOnly(first \o <<write>>)
      /\ Len(first \o <<write>>) = Len(first) + 1
  BY <1>1, <1>2, <1>6, Closed DEF K
<1>9. Len(first) \in Nat
  BY <1>6, LenProperties DEF Part
<1>10. JobPlan(q, known) # <<>>
  BY <1>7, <1>8, <1>9
<1>11. L \subseteq Asking \cup Reading \cup {"keepData", "write"} /\ "keepConfig" \notin L
  BY DEF L, Reading, Asking
<1> QED
  BY <1>7, <1>8, <1>10, <1>11, PartMore DEF Part

\* What is left when the first step is taken.
LEMMA TailOK ==
    ASSUME NEW s \in Seq(Steps), s # <<>>
    PROVE  /\ Len(s) \in Nat /\ Len(s) >= 1 /\ Head(s) = s[1] /\ 1 \in 1..Len(s)
           /\ Tail(s) \in Seq(Steps) /\ Len(Tail(s)) = Len(s) - 1
           /\ \A i \in 1..Len(Tail(s)) : i + 1 \in 1..Len(s) /\ Tail(s)[i] = s[i + 1]
           /\ Len(s) = 1 => Tail(s) = <<>>
<1>1. Len(s) \in Nat \ {0}
  BY EmptySeq
<1>2. /\ Tail(s) \in Seq(Steps) /\ Len(Tail(s)) = Len(s) - 1
      /\ \A i \in 1..Len(Tail(s)) : Tail(s)[i] = s[i + 1]
  BY HeadTailProperties
<1>3. Len(Tail(s)) = 0 => Tail(s) = <<>>
  BY <1>2, EmptySeq
<1>4. Head(s) = s[1]
  OBVIOUS
<1> QED
  BY <1>1, <1>2, <1>3, <1>4

\* After its first step a task is still well formed, and after an ending is done.
LEMMA TailWellFormed ==
    ASSUME NEW t, NEW s, WellFormed(t, s), s # <<>>
    PROVE  /\ WellFormed(t, Tail(s)) /\ Head(s) \in Steps /\ Head(s).do \in KindsOf(t)
           /\ Head(s).do \in Ending => Tail(s) = <<>>
<1>1. s \in Seq(Steps)
  BY DEF WellFormed
<1> QED
  BY <1>1, TailOK, ElementOfSeq DEF WellFormed

\* The configuration is read in front of what is left.
LEMMA GiveWellFormed ==
    ASSUME NEW t, NEW s, WellFormed(t, s), s # <<>>
    PROVE  LET r == <<[do |-> "readConfig"], [do |-> "keepConfig"]>> \o Tail(s)
           IN /\ WellFormed(t, r) /\ Len(r) = Len(Tail(s)) + 2
              /\ r[1] = [do |-> "readConfig"] /\ r[2] = [do |-> "keepConfig"]
              /\ \A i \in 3..Len(r) : i - 2 \in 1..Len(Tail(s)) /\ r[i] = Tail(s)[i - 2]
<1> DEFINE p == <<[do |-> "readConfig"], [do |-> "keepConfig"]>>
           u == Tail(s)
           r == p \o u
<1>1. p \in Seq(Steps) /\ Len(p) = 2 /\ p[1].do = "readConfig" /\ p[2].do = "keepConfig"
      /\ p[1] = [do |-> "readConfig"] /\ p[2] = [do |-> "keepConfig"]
  <2>1. [do |-> "readConfig"] \in Steps /\ [do |-> "keepConfig"] \in Steps
    BY StepKinds DEF Reading
  <2> QED
    BY <2>1
<1>2. WellFormed(t, u) /\ u \in Seq(Steps) /\ Len(u) \in Nat
  BY TailWellFormed, LenProperties DEF WellFormed
<1> HIDE DEF p, u
<1>3. /\ r \in Seq(Steps) /\ Len(r) = Len(u) + 2
      /\ \A i \in 1..Len(r) : r[i] = IF i <= 2 THEN p[i] ELSE u[i - 2]
  <2>1. /\ p \o u \in Seq(Steps) /\ Len(p \o u) = Len(p) + Len(u)
        /\ \A i \in 1..(Len(p) + Len(u)) : (p \o u)[i] = IF i <= Len(p) THEN p[i] ELSE u[i - Len(p)]
    BY <1>1, <1>2, ConcatProperties
  <2> QED
    BY <1>1, <1>2, <2>1
<1> HIDE DEF r
<1>4. r[1] = p[1] /\ r[2] = p[2] /\ \A i \in 3..Len(r) : i - 2 \in 1..Len(u) /\ r[i] = u[i - 2]
  BY <1>2, <1>3
<1>5. {"readConfig", "keepConfig"} \subseteq KindsOf(t) \ Ending
  BY DEF KindsOf, Reading, Ending
<1>6. WellFormed(t, r)
  <2> SUFFICES ASSUME NEW i \in 1..Len(r)
               PROVE  r[i].do \in KindsOf(t) /\ (r[i].do \in Ending => i = Len(r))
    BY <1>3 DEF WellFormed
  <2>1. CASE i \in 1..2
    BY <1>1, <1>4, <1>5, <2>1
  <2>2. CASE i \in 3..Len(r)
    BY <1>2, <1>3, <1>4, <2>2 DEF WellFormed
  <2> QED
    BY <1>2, <1>3, <2>1, <2>2
<1> QED
  BY <1>1, <1>3, <1>4, <1>6 DEF r, p, u

-----------------------------------------------------------------------------
(* Calls, their tasks and their jobs.                                      *)

IsExport(c) == query[c] \in Queries /\ query[c].op = "export"

\* What is known of a call: nothing before it begins, then the steps of its
\* query; only an export reads the configuration or has a job.
CallOK(c) ==
    /\ pc[c] = "idle" => query[c] = NULL
    /\ todo[<<c, "request">>] # <<>> => /\ query[c] \in Queries
                                        /\ Part(todo[<<c, "request">>], OpKinds(query[c]))
    /\ todo[<<c, "job">>] # <<>> => jobs[c] # NULL
    /\ jobs[c] # NULL => c \in accepted
    /\ c \in accepted \/ keptAt[c] # NULL => IsExport(c)

TypeInv == TypeOK /\ \A c \in Calls : CallOK(c)

\* What is known of a task with steps left.
LEMMA TaskFacts ==
    ASSUME TypeInv, NEW t \in Tasks, todo[t] # <<>>
    PROVE  /\ t[1] \in Calls /\ t[2] \in {"request", "job"} /\ t = <<t[1], t[2]>>
           /\ query[t[1]] \in Queries /\ pc[t[1]] # "idle"
           /\ t[2] = "request" => /\ pc[t[1]] = "running" /\ t[1] \notin accepted
                                  /\ Part(todo[t], OpKinds(query[t[1]]))
           /\ t[2] = "job" => /\ t[1] \in accepted /\ jobs[t[1]] \in Jobs /\ pc[t[1]] = "done"
                              /\ query[t[1]].op = "export"
           /\ WellFormed(t, todo[t]) /\ WellFormed(t, Tail(todo[t]))
           /\ Head(todo[t]) \in Steps /\ Head(todo[t]).do \in KindsOf(t)
           /\ Head(todo[t]).do \in Ending => Tail(todo[t]) = <<>>
<1>1. t[1] \in Calls /\ t[2] \in {"request", "job"} /\ t = <<t[1], t[2]>>
  BY DEF Tasks
<1>2. CallOK(t[1])
  BY <1>1 DEF TypeInv
<1>5. WellFormed(t, todo[t])
  BY DEF TypeInv, TypeOK
<1> DEFINE c == t[1]
<1>6. /\ todo[<<c, "request">>] # <<>> => pc[c] = "running"
      /\ todo[<<c, "job">>] # <<>> => c \in accepted
      /\ c \in accepted => pc[c] = "done" /\ query[c].op = "export"
      /\ jobs[c] \in Jobs \cup {NULL}
  BY <1>1 DEF TypeInv, TypeOK
<1>3. CASE t[2] = "request"
  <2>1. todo[<<c, "request">>] # <<>> /\ todo[<<c, "request">>] = todo[t]
    BY <1>1, <1>3
  <2> QED
    BY <1>1, <1>2, <1>3, <1>5, <1>6, <2>1, TailWellFormed DEF CallOK
<1>4. CASE t[2] = "job"
  <2>1. todo[<<c, "job">>] # <<>>
    BY <1>1, <1>4
  <2> QED
    BY <1>1, <1>2, <1>4, <1>5, <1>6, <2>1, TailWellFormed DEF CallOK, IsExport
<1> QED
  BY <1>1, <1>3, <1>4

\* The kinds of the first step of a request are those of its query.
LEMMA HeadKind ==
    ASSUME TypeInv, NEW t \in Tasks, todo[t] # <<>>
    PROVE  /\ t[2] = "request" => Head(todo[t]).do \in OpKinds(query[t[1]])
           /\ Head(todo[t]).do \in Reading => query[t[1]].op = "export"
           /\ Head(todo[t]).do \in {"lookUp", "store", "respond"} => t[2] = "request" /\ query[t[1]].op # "export"
           /\ Head(todo[t]).do = "start" => t[2] = "request" /\ query[t[1]].op = "export"
           /\ Head(todo[t]).do \in {"keepData", "write"} => t[2] = "job"
<1>1. todo[t] \in Seq(Steps)
  BY TaskFacts DEF WellFormed
<1>2. t[2] = "request" => Head(todo[t]).do \in OpKinds(query[t[1]])
  BY <1>1, TailOK, TaskFacts DEF Part
<1> QED
  BY <1>2, TaskFacts DEF OpKinds, KindsOf, Reading, Asking

\* What a step leaves of its task: nothing, the rest, or the rest behind the
\* reading of the configuration.
Given(s) == <<[do |-> "readConfig"], [do |-> "keepConfig"]>> \o Tail(s)
Leaves(t, u) == u \in {<<>>, Tail(todo[t])} \/ (IsNext(t, "config") /\ u = Given(todo[t]))

\* What a task may leave is well-formed again.
LEMMA LeavesOK ==
    ASSUME TypeInv, NEW t \in Tasks, todo[t] # <<>>, NEW u, Leaves(t, u)
    PROVE  /\ WellFormed(t, u)
           /\ t[2] = "request" => Part(u, OpKinds(query[t[1]]))
<1>1. CASE u = <<>>
  BY <1>1 DEF WellFormed, Part
<1>2. CASE u = Tail(todo[t])
  <2>1. WellFormed(t, u) /\ todo[t] \in Seq(Steps)
    BY <1>2, TaskFacts DEF WellFormed
  <2>2. t[2] = "request" => Part(u, OpKinds(query[t[1]]))
    BY <1>2, <2>1, TaskFacts, TailOK DEF Part
  <2> QED
    BY <2>1, <2>2
<1>3. CASE IsNext(t, "config") /\ u = Given(todo[t])
  <2>1. WellFormed(t, todo[t]) /\ todo[t] \in Seq(Steps)
    BY TaskFacts DEF WellFormed
  <2>2. /\ WellFormed(t, u) /\ Len(u) = Len(Tail(todo[t])) + 2 /\ u \in Seq(Steps)
        /\ u[1] = [do |-> "readConfig"] /\ u[2] = [do |-> "keepConfig"]
        /\ \A i \in 3..Len(u) : i - 2 \in 1..Len(Tail(todo[t])) /\ u[i] = Tail(todo[t])[i - 2]
    <3>1. LET r == Given(todo[t])
          IN /\ WellFormed(t, r) /\ Len(r) = Len(Tail(todo[t])) + 2
             /\ r[1] = [do |-> "readConfig"] /\ r[2] = [do |-> "keepConfig"]
             /\ \A i \in 3..Len(r) : i - 2 \in 1..Len(Tail(todo[t])) /\ r[i] = Tail(todo[t])[i - 2]
      BY <2>1, GiveWellFormed DEF Given
    <3> QED
      BY <1>3, <3>1 DEF WellFormed
  <2>3. t[2] = "request" => Part(Tail(todo[t]), OpKinds(query[t[1]]))
    BY <2>1, TaskFacts, TailOK DEF Part
  <2>4. t[2] = "request" => Reading \subseteq OpKinds(query[t[1]])
    BY <1>3, HeadKind DEF IsNext, Reading, OpKinds
  <2>5. ASSUME t[2] = "request", NEW i \in 1..Len(u) PROVE u[i].do \in OpKinds(query[t[1]])
    <3>1. Len(u) \in Nat
      BY <2>2, LenProperties
    <3>2. i \in 1..2 \/ i \in 3..Len(u)
      BY <3>1
    <3>3. CASE i \in 1..2
      BY <2>2, <2>4, <2>5, <3>3 DEF Reading
    <3>4. CASE i \in 3..Len(u)
      BY <2>2, <2>3, <2>5, <3>4 DEF Part
    <3> QED
      BY <3>2, <3>3, <3>4
  <2> QED
    BY <2>2, <2>5 DEF Part
<1> QED
  BY <1>1, <1>2, <1>3 DEF Leaves

\* A step of a task other than the start of a job.
Works(t, u) ==
    /\ todo[t] # <<>> /\ Leaves(t, u) /\ todo' = [todo EXCEPT ![t] = u]
    /\ UNCHANGED <<now, tenants, funnels, query, restarts, began, before, accepted>>
    /\ CacheOK' /\ faults' \in 0..MaxFaults
    /\ \/ UNCHANGED jobs
       \/ /\ t[2] = "job"
          /\ \E r \in Jobs : /\ jobs' = [jobs EXCEPT ![t[1]] = r]
                             /\ \/ r.status = jobs[t[1]].status
                                \/ u = <<>> /\ r.status \in {"completed", "failed"}
                             /\ r.data = jobs[t[1]].data \/ (IsNext(t, "keepData") /\ r.data = t[1])
    /\ \/ UNCHANGED <<pc, reply, ended>>
       \/ t[2] = "request" /\ u = <<>> /\ \E r \in Calls \cup {NULL} : Answer(t[1], r)
    /\ \/ UNCHANGED keptAt
       \/ keptAt' = [keptAt EXCEPT ![t[1]] = now] /\ IsNext(t, "keepConfig")

\* An error is such a step, of which nothing is left.
LEMMA FailsWorks ==
    ASSUME TypeInv, NEW t \in Tasks, todo[t] # <<>>, TaskFails(t), CacheOK', faults' \in 0..MaxFaults,
           UNCHANGED <<now, tenants, funnels, query, restarts, began, before, accepted, keptAt>>
    PROVE  Works(t, <<>>)
<1>1. CASE t[2] = "job"
  <2> DEFINE r == [jobs[t[1]] EXCEPT !.status = "failed"]
  <2>1. r \in Jobs /\ r.status = "failed" /\ r.data = jobs[t[1]].data
    BY <1>1, TaskFacts DEF Jobs, Statuses
  <2>2. jobs' = [jobs EXCEPT ![t[1]] = r] /\ UNCHANGED <<pc, reply, ended>>
    BY <1>1 DEF TaskFails, Catch, SetStatus, NoAnswer
  <2> HIDE DEF r
  <2> QED
    BY <1>1, <2>1, <2>2 DEF Works, Leaves, TaskFails
<1>2. CASE t[2] # "job"
  BY <1>2, TaskFacts DEF Works, Leaves, TaskFails, Catch
<1> QED
  BY <1>1, <1>2

\* A step that goes on or fails.
LEMMA EitherWorks ==
    ASSUME TypeInv, NEW t \in Tasks, todo[t] # <<>>, NEW P, Either(t, P)
    PROVE  \E u : Works(t, u)
<1>1. CacheOK' /\ faults' \in 0..MaxFaults
  BY DEF Either, TypeInv, TypeOK, CacheOK, Held
<1>2. CASE P
  <2>1. Works(t, Tail(todo[t]))
    BY <1>1, <1>2 DEF Either, Works, Leaves, Proceed, NoAnswer
  <2> QED
    BY <2>1
<1>3. CASE ~P
  <2>1. Works(t, <<>>)
    BY <1>1, <1>3, FailsWorks DEF Either
  <2> QED
    BY <2>1
<1> QED
  BY <1>2, <1>3

\* The keys of a query.
LEMMA KeysOK ==
    ASSUME TypeInv, NEW t \in Tasks, todo[t] # <<>>
    PROVE  LET q == query[t[1]]
           IN IF q.op = "export" THEN ConfigKey(q) \in CacheKeys /\ DataKey(q) \in CacheKeys
                                 ELSE Key(q) \in CacheKeys
BY TaskFacts, QueryOK

\* All steps but the start of a job are such steps.
LEMMA StepWorks ==
    ASSUME TypeInv, NEW t \in Tasks, (Step(t) /\ ~StartJob(t)) \/ Fault(t)
    PROVE  \E u : Works(t, u)
<1> DEFINE c == t[1]
           q == query[c]
<1>1. todo[t] # <<>>
  BY DEF Step, LookUpReport, CheckRow, RunQuery, StoreReport, RespondUnkept, LookUpConfig, ReadConfig,
     KeepConfig, StartJob, KeepData, WriteFile, Fault, IsNext
<1>2. CacheOK /\ faults \in 0..MaxFaults /\ now \in 0..MaxTime
  BY DEF TypeInv, TypeOK, CacheOK
<1>3. /\ c \in Calls /\ q \in Queries /\ (t[2] = "job" => jobs[c] \in Jobs)
      /\ Head(todo[t]).do \in Ending => Tail(todo[t]) = <<>>
  BY <1>1, TaskFacts
<1>4. CASE LookUpReport(t)
  <2>1. q.op # "export" /\ t[2] = "request"
    BY <1>1, <1>4, HeadKind DEF LookUpReport, IsNext
  <2>2. Key(q) \in CacheKeys
    BY <1>3, <2>1, QueryOK
  <2>3. CacheOK' /\ Cached(Key(q)) \in Calls \cup {NULL}
    BY <1>2, <1>4, <2>2, GetKeeps, CachedValue DEF LookUpReport
  <2>4. CASE Cached(Key(q)) = NULL
    <3>1. Works(t, Tail(todo[t]))
      BY <1>1, <1>2, <1>4, <2>3, <2>4 DEF LookUpReport, Works, Leaves, Proceed, NoAnswer
    <3> QED
      BY <3>1
  <2>5. CASE Cached(Key(q)) # NULL
    <3>1. Works(t, <<>>)
      BY <1>1, <1>2, <1>4, <2>1, <2>3, <2>5 DEF LookUpReport, Works, Leaves
    <3> QED
      BY <3>1
  <2> QED
    BY <2>4, <2>5
<1>5. CASE CheckRow(t)
  BY <1>1, <1>5, EitherWorks DEF CheckRow
<1>6. CASE RunQuery(t)
  BY <1>1, <1>6, EitherWorks DEF RunQuery
<1>7. CASE StoreReport(t)
  <2>1. q.op # "export" /\ t[2] = "request"
    BY <1>1, <1>7, HeadKind DEF StoreReport, IsNext
  <2>2. Key(q) \in CacheKeys /\ Lifetime(q) \in TTLs
    BY <1>3, <2>1, QueryOK, LifetimeOK
  <2>3. CacheOK'
    BY <1>2, <1>3, <1>7, <2>2, SetKeeps DEF StoreReport
  <2>4. Tail(todo[t]) = <<>>
    BY <1>3, <1>7 DEF StoreReport, IsNext, Ending
  <2>5. Works(t, <<>>)
    BY <1>1, <1>2, <1>3, <1>7, <2>1, <2>3, <2>4 DEF StoreReport, Works, Leaves, Proceed
  <2> QED
    BY <2>5
<1>8. CASE RespondUnkept(t)
  <2>1. t[2] = "request"
    BY <1>1, <1>8, HeadKind DEF RespondUnkept, IsNext
  <2>2. Tail(todo[t]) = <<>>
    BY <1>3, <1>8 DEF RespondUnkept, IsNext, Ending
  <2>3. CacheOK'
    BY <1>2, <1>8 DEF RespondUnkept, CacheOK, Held
  <2>4. Works(t, <<>>)
    BY <1>1, <1>2, <1>3, <1>8, <2>1, <2>2, <2>3 DEF RespondUnkept, Works, Leaves, Proceed
  <2> QED
    BY <2>4
<1>9. CASE LookUpConfig(t)
  <2>1. ConfigKey(q) \in CacheKeys
    BY <1>1, <1>3, <1>9, HeadKind, QueryOK DEF LookUpConfig, IsNext, Reading
  <2>2. CacheOK'
    BY <1>2, <1>9, <2>1, GetKeeps DEF LookUpConfig
  <2>3. CASE Fresh(ConfigKey(q))
    <3>1. Works(t, Tail(todo[t]))
      BY <1>1, <1>2, <1>9, <2>2, <2>3 DEF LookUpConfig, Works, Leaves, Proceed, history
    <3> QED
      BY <3>1
  <2>4. CASE ~Fresh(ConfigKey(q))
    <3>1. Works(t, Given(todo[t]))
      BY <1>1, <1>2, <1>9, <2>2, <2>4 DEF LookUpConfig, Works, Leaves, Give, Given, history
    <3> QED
      BY <3>1
  <2> QED
    BY <2>3, <2>4
<1>10. CASE ReadConfig(t)
  BY <1>1, <1>10, EitherWorks DEF ReadConfig
<1>11. CASE KeepConfig(t)
  <2>1. ConfigKey(q) \in CacheKeys /\ ConfigTTL \in TTLs
    BY <1>1, <1>3, <1>11, HeadKind, QueryOK, Assumptions DEF KeepConfig, IsNext, Reading
  <2>2. CacheOK'
    BY <1>2, <1>3, <1>11, <2>1, SetKeeps DEF KeepConfig
  <2>3. Works(t, Tail(todo[t]))
    BY <1>1, <1>2, <1>11, <2>2 DEF KeepConfig, Works, Leaves, Proceed
  <2> QED
    BY <2>3
<1>12. CASE KeepData(t)
  <2>1. t[2] = "job"
    BY <1>1, <1>12, HeadKind DEF KeepData, IsNext
  <2>2. DataKey(q) \in CacheKeys /\ DataTTL \in TTLs
    BY <1>1, <2>1, TaskFacts, QueryOK, Assumptions
  <2>3. CacheOK'
    BY <1>2, <1>3, <1>12, <2>2, SetKeeps DEF KeepData
  <2> DEFINE r == [jobs[c] EXCEPT !.data = c]
  <2>4. r \in Jobs /\ r.status = jobs[c].status /\ r.data = c
    BY <1>3, <2>1 DEF Jobs
  <2>5. jobs' = [jobs EXCEPT ![c] = r]
    BY <1>12 DEF KeepData
  <2> HIDE DEF r
  <2>6. Works(t, Tail(todo[t]))
    BY <1>1, <1>2, <1>12, <2>1, <2>3, <2>4, <2>5 DEF KeepData, Works, Leaves, Proceed, history
  <2> QED
    BY <2>6
<1>13. CASE WriteFile(t)
  <2>1. t[2] = "job"
    BY <1>1, <1>13, HeadKind DEF WriteFile, IsNext
  <2>2. Tail(todo[t]) = <<>>
    BY <1>3, <1>13 DEF WriteFile, IsNext, Ending
  <2>3. CacheOK'
    BY <1>2, <1>13 DEF WriteFile, CacheOK, Held
  <2> DEFINE r == [jobs[c] EXCEPT !.status = "completed"]
  <2>4. r \in Jobs /\ r.status = "completed" /\ r.data = jobs[c].data
    BY <1>3, <2>1 DEF Jobs, Statuses
  <2>5. jobs' = [jobs EXCEPT ![c] = r]
    BY <1>13 DEF WriteFile, SetStatus
  <2> HIDE DEF r
  <2>6. Works(t, <<>>)
    BY <1>1, <1>2, <1>13, <2>1, <2>2, <2>3, <2>4, <2>5 DEF WriteFile, Works, Leaves, Proceed, history
  <2> QED
    BY <2>6
<1>14. CASE Fault(t)
  <2>1. CacheOK' /\ faults' \in 0..MaxFaults
    <3>1. UNCHANGED <<now, cache>> /\ faults < MaxFaults /\ faults' = faults + 1 /\ MaxFaults \in Nat
      BY <1>14, FunnelReportsAssumption DEF Fault
    <3> QED
      BY <1>2, <3>1 DEF CacheOK, Held
  <2>2. Works(t, <<>>)
    BY <1>1, <1>14, <2>1, FailsWorks DEF Fault
  <2> QED
    BY <2>2
<1> QED
  BY <1>4, <1>5, <1>6, <1>7, <1>8, <1>9, <1>10, <1>11, <1>12, <1>13, <1>14 DEF Step

\* Such a step keeps the types.
LEMMA WorksTypes ==
    ASSUME TypeInv, NEW t \in Tasks, NEW u, Works(t, u)
    PROVE  TypeInv'
<1> DEFINE c == t[1]
<1>1. /\ c \in Calls /\ t[2] \in {"request", "job"} /\ t = <<c, t[2]>> /\ query[c] \in Queries
      /\ t[2] = "request" => pc[c] = "running" /\ c \notin accepted
      /\ t[2] = "job" => c \in accepted /\ pc[c] = "done"
  BY TaskFacts DEF Works
<1>2. WellFormed(t, u) /\ (t[2] = "request" => Part(u, OpKinds(query[c])))
  BY LeavesOK DEF Works
<1>3. /\ todo' = [todo EXCEPT ![t] = u]
      /\ todo = [s \in Tasks |-> todo[s]] /\ \A s \in Tasks : WellFormed(s, todo[s])
  BY DEF Works, TypeInv, TypeOK
<1>4. todo' = [s \in Tasks |-> todo'[s]] /\ \A s \in Tasks : WellFormed(s, todo'[s])
  BY <1>2, <1>3
<1>5. jobs' \in [Calls -> Jobs \cup {NULL}] /\ \A d \in Calls : jobs'[d] # NULL <=> jobs[d] # NULL
  <2>1. jobs \in [Calls -> Jobs \cup {NULL}]
    BY DEF TypeInv, TypeOK
  <2>2. t[2] = "job" => jobs[c] # NULL
    BY TaskFacts, Assumptions DEF Works
  <2>3. CASE UNCHANGED jobs
    BY <2>1, <2>3
  <2>4. ASSUME t[2] = "job", NEW r \in Jobs, jobs' = [jobs EXCEPT ![c] = r]
        PROVE  jobs' \in [Calls -> Jobs \cup {NULL}] /\ \A d \in Calls : jobs'[d] # NULL <=> jobs[d] # NULL
    BY <1>1, <2>1, <2>2, <2>4, Assumptions
  <2> QED
    BY <2>3, <2>4 DEF Works
<1>6. /\ pc' \in [Calls -> {"idle", "running", "done", "lost"}]
      /\ reply' \in [Calls -> Calls \cup {NULL} \cup JobReplies]
      /\ ended' \in [Calls -> 0..now']
      /\ \A d \in Calls : pc'[d] = pc[d] \/ (d = c /\ t[2] = "request" /\ u = <<>> /\ pc'[d] = "done")
  <2>1. /\ pc \in [Calls -> {"idle", "running", "done", "lost"}]
        /\ reply \in [Calls -> Calls \cup {NULL} \cup JobReplies]
        /\ ended \in [Calls -> 0..now] /\ now' = now /\ now \in 0..MaxTime /\ MaxTime \in Nat
    BY Assumptions DEF TypeInv, TypeOK, CacheOK, Works
  <2>2. CASE UNCHANGED <<pc, reply, ended>>
    BY <2>1, <2>2
  <2>3. ASSUME t[2] = "request", u = <<>>, NEW r \in Calls \cup {NULL}, Answer(c, r)
        PROVE  <1>6!:
    <3>1. now \in 0..now
      BY <2>1
    <3> QED
      BY <1>1, <2>1, <2>3, <3>1 DEF Answer
  <2> QED
    BY <2>2, <2>3 DEF Works
<1>7. /\ keptAt' \in [Calls -> (0..now') \cup {NULL}]
      /\ \A d \in Calls : keptAt'[d] # NULL => keptAt[d] # NULL \/ (d = c /\ query[c].op = "export")
  <2>1. keptAt \in [Calls -> (0..now) \cup {NULL}] /\ now' = now /\ now \in 0..MaxTime /\ MaxTime \in Nat
    BY Assumptions DEF TypeInv, TypeOK, CacheOK, Works
  <2>2. CASE UNCHANGED keptAt
    BY <2>1, <2>2
  <2>3. CASE keptAt' = [keptAt EXCEPT ![c] = now] /\ IsNext(t, "keepConfig")
    <3>1. now \in 0..now
      BY <2>1
    <3>2. query[c].op = "export"
      BY <2>3, HeadKind DEF IsNext, Reading
    <3> QED
      BY <1>1, <2>1, <2>3, <3>1, <3>2
  <2> QED
    BY <2>2, <2>3 DEF Works
<1>8. \A s \in Tasks : s # t => todo'[s] = todo[s]
  BY <1>3
<1>9. todo'[t] = u
  BY <1>3
<1>10. ASSUME NEW d \in Calls
       PROVE  /\ todo'[<<d, "request">>] # <<>> => pc'[d] = "running"
              /\ todo'[<<d, "job">>] # <<>> => d \in accepted
              /\ d \in accepted' => pc'[d] = "done" /\ query'[d].op = "export"
              /\ pc'[d] = "running" => query'[d] # NULL
              /\ CallOK(d)'
  <2>1. /\ todo[<<d, "request">>] # <<>> => pc[d] = "running"
        /\ todo[<<d, "job">>] # <<>> => d \in accepted
        /\ d \in accepted => pc[d] = "done" /\ query[d].op = "export"
        /\ pc[d] = "running" => query[d] # NULL
        /\ pc[d] \in {"idle", "running", "done", "lost"}
    BY DEF TypeInv, TypeOK
  <2>2. CallOK(d)
    BY DEF TypeInv
  <2>3. /\ query' = query /\ accepted' = accepted /\ <<d, "request">> \in Tasks /\ <<d, "job">> \in Tasks
    BY DEF Works, Tasks
  <2>4. /\ <<d, "request">> = t <=> d = c /\ t[2] = "request"
        /\ <<d, "job">> = t <=> d = c /\ t[2] = "job"
    BY <1>1
  <2>5. todo'[<<d, "request">>] = IF d = c /\ t[2] = "request" THEN u ELSE todo[<<d, "request">>]
    BY <1>8, <1>9, <2>3, <2>4
  <2>6. todo'[<<d, "job">>] = IF d = c /\ t[2] = "job" THEN u ELSE todo[<<d, "job">>]
    BY <1>8, <1>9, <2>3, <2>4
  <2>7. t[2] = "job" => todo[<<c, "job">>] # <<>>
    BY <1>1 DEF Works
  <2>8. t[2] = "request" => todo[<<c, "request">>] # <<>>
    BY <1>1 DEF Works
  <2>9. /\ todo'[<<d, "request">>] # <<>> => todo[<<d, "request">>] # <<>>
        /\ todo'[<<d, "job">>] # <<>> => todo[<<d, "job">>] # <<>>
    BY <2>5, <2>6, <2>7, <2>8
  <2>10. /\ todo'[<<d, "request">>] # <<>> => pc'[d] = "running"
         /\ todo'[<<d, "job">>] # <<>> => d \in accepted
    BY <1>1, <1>6, <2>1, <2>5, <2>9
  <2>11. pc'[d] = "idle" => pc[d] = "idle"
    BY <1>6
  <2>12. d \in accepted' => pc'[d] = "done" /\ query'[d].op = "export"
    BY <1>6, <2>1, <2>3
  <2>13. pc'[d] = "running" => query'[d] # NULL
    BY <1>6, <2>1, <2>3
  <2>14. CallOK(d)'
    <3>1. todo'[<<d, "request">>] # <<>> => Part(todo'[<<d, "request">>], OpKinds(query[d])) /\ query[d] \in Queries
      BY <1>1, <1>2, <2>2, <2>5, <2>9 DEF CallOK
    <3>2. todo'[<<d, "job">>] # <<>> => jobs'[d] # NULL
      BY <1>5, <2>2, <2>9 DEF CallOK
    <3>3. jobs'[d] # NULL => d \in accepted
      BY <1>5, <2>2 DEF CallOK
    <3>4. d \in accepted \/ keptAt'[d] # NULL => query[d] \in Queries /\ query[d].op = "export"
      BY <1>1, <1>7, <2>2 DEF CallOK, IsExport
    <3>5. pc'[d] = "idle" => query[d] = NULL
      BY <2>2, <2>11 DEF CallOK
    <3> QED
      BY <2>3, <3>1, <3>2, <3>3, <3>4, <3>5 DEF CallOK, IsExport, Part, OpKinds
  <2> QED
    BY <2>3, <2>10, <2>12, <2>13, <2>14
<1>11. TypeOK'
  <2>1. /\ CacheOK' /\ restarts' \in 0..MaxRestarts /\ faults' \in 0..MaxFaults
        /\ query' \in [Calls -> Queries \cup {NULL}]
        /\ began' \in [Calls -> 0..now'] /\ before' \in [Calls -> SUBSET Calls] /\ accepted' \subseteq Calls
    BY DEF TypeInv, TypeOK, Works
  <2>2. \A f \in funnels' : /\ f = [Row(f.id, f.tenant, f.workspace) EXCEPT !.archivedAt = f.archivedAt]
                            /\ f.archivedAt \in (0..now') \cup {NULL}
    BY DEF TypeInv, TypeOK, Works
  <2>3. accepted' = accepted
    BY DEF Works
  <2> QED
    BY <1>4, <1>5, <1>6, <1>7, <1>10, <2>1, <2>2, <2>3 DEF TypeOK, WellFormed, KindsOf
<1> QED
  BY <1>10, <1>11 DEF TypeInv

\* What TypeOK says of calls.
LEMMA CallTypes ==
    ASSUME TypeInv, NEW d \in Calls
    PROVE  /\ todo[<<d, "request">>] # <<>> => pc[d] = "running"
           /\ todo[<<d, "job">>] # <<>> => d \in accepted
           /\ d \in accepted => pc[d] = "done" /\ query[d].op = "export"
           /\ pc[d] = "running" => query[d] # NULL
           /\ pc[d] \in {"idle", "running", "done", "lost"}
           /\ CallOK(d)
BY DEF TypeInv, TypeOK

\* A call that is not under way has no steps left, and one that begins no job.
LEMMA NoSteps ==
    ASSUME TypeInv, NEW d \in Calls
    PROVE  /\ pc[d] # "running" => todo[<<d, "request">>] = <<>>
           /\ pc[d] # "done" => todo[<<d, "job">>] = <<>> /\ jobs[d] = NULL /\ d \notin accepted
           /\ pc[d] = "idle" => keptAt[d] = NULL
<1>1. NULL \notin Queries
  BY Assumptions
<1> QED
  BY <1>1, CallTypes DEF CallOK, IsExport

\* Types that a step leaves alone stay.
LEMMA OthersTypes ==
    ASSUME TypeInv, CacheOK', now' \in Nat, now <= now'
    PROVE  /\ UNCHANGED funnels =>
                \A f \in funnels' : /\ f = [Row(f.id, f.tenant, f.workspace) EXCEPT !.archivedAt = f.archivedAt]
                                    /\ f.archivedAt \in (0..now') \cup {NULL}
           /\ UNCHANGED jobs => jobs' \in [Calls -> Jobs \cup {NULL}]
           /\ UNCHANGED pc => pc' \in [Calls -> {"idle", "running", "done", "lost"}]
           /\ UNCHANGED query => query' \in [Calls -> Queries \cup {NULL}]
           /\ UNCHANGED todo => todo' = [t \in Tasks |-> todo'[t]] /\ \A t \in Tasks : WellFormed(t, todo'[t])
           /\ UNCHANGED reply => reply' \in [Calls -> Calls \cup {NULL} \cup JobReplies]
           /\ UNCHANGED restarts => restarts' \in 0..MaxRestarts
           /\ UNCHANGED faults => faults' \in 0..MaxFaults
           /\ UNCHANGED began => began' \in [Calls -> 0..now']
           /\ UNCHANGED ended => ended' \in [Calls -> 0..now']
           /\ UNCHANGED before => before' \in [Calls -> SUBSET Calls]
           /\ UNCHANGED accepted => accepted' \subseteq Calls
           /\ UNCHANGED keptAt => keptAt' \in [Calls -> (0..now') \cup {NULL}]
<1>1. now \in Nat
  BY Assumptions DEF TypeInv, TypeOK, CacheOK
<1>2. 0..now \subseteq 0..now'
  BY <1>1
<1>3. TypeOK
  BY DEF TypeInv
<1>4. UNCHANGED funnels =>
          \A f \in funnels' : /\ f = [Row(f.id, f.tenant, f.workspace) EXCEPT !.archivedAt = f.archivedAt]
                              /\ f.archivedAt \in (0..now') \cup {NULL}
  BY <1>2, <1>3 DEF TypeOK
<1>5. UNCHANGED todo => todo' = [t \in Tasks |-> todo'[t]] /\ \A t \in Tasks : WellFormed(t, todo'[t])
  BY <1>3 DEF TypeOK
<1>6. /\ UNCHANGED began => began' \in [Calls -> 0..now']
      /\ UNCHANGED ended => ended' \in [Calls -> 0..now']
  <2>1. began \in [Calls -> 0..now] /\ ended \in [Calls -> 0..now]
    BY <1>3 DEF TypeOK
  <2> QED
    BY <1>2, <2>1
<1>7. UNCHANGED keptAt => keptAt' \in [Calls -> (0..now') \cup {NULL}]
  <2>1. keptAt \in [Calls -> (0..now) \cup {NULL}]
    BY <1>3 DEF TypeOK
  <2> QED
    BY <1>2, <2>1
<1> QED
  BY <1>3, <1>4, <1>5, <1>6, <1>7 DEF TypeOK

\* Putting the parts together.
LEMMA TypesTogether ==
    ASSUME CacheOK',
           \A f \in funnels' : /\ f = [Row(f.id, f.tenant, f.workspace) EXCEPT !.archivedAt = f.archivedAt]
                               /\ f.archivedAt \in (0..now') \cup {NULL},
           jobs' \in [Calls -> Jobs \cup {NULL}],
           pc' \in [Calls -> {"idle", "running", "done", "lost"}],
           query' \in [Calls -> Queries \cup {NULL}],
           todo' = [t \in Tasks |-> todo'[t]], \A t \in Tasks : WellFormed(t, todo'[t]),
           reply' \in [Calls -> Calls \cup {NULL} \cup JobReplies],
           restarts' \in 0..MaxRestarts, faults' \in 0..MaxFaults,
           began' \in [Calls -> 0..now'], ended' \in [Calls -> 0..now'],
           before' \in [Calls -> SUBSET Calls], accepted' \subseteq Calls,
           keptAt' \in [Calls -> (0..now') \cup {NULL}],
           \A d \in Calls :
               /\ todo'[<<d, "request">>] # <<>> => /\ pc'[d] = "running" /\ query'[d] \in Queries
                                                    /\ Part(todo'[<<d, "request">>], OpKinds(query'[d]))
               /\ todo'[<<d, "job">>] # <<>> => d \in accepted' /\ jobs'[d] # NULL
               /\ d \in accepted' => pc'[d] = "done" /\ query'[d] \in Queries /\ query'[d].op = "export"
               /\ keptAt'[d] # NULL => query'[d] \in Queries /\ query'[d].op = "export"
               /\ pc'[d] = "running" => query'[d] # NULL
               /\ pc'[d] = "idle" => query'[d] = NULL
               /\ jobs'[d] # NULL => d \in accepted'
    PROVE  TypeInv'
<1>1. TypeOK'
  BY DEF TypeOK, WellFormed, KindsOf
<1>2. \A d \in Calls : CallOK(d)'
  BY DEF CallOK, IsExport, Part, OpKinds
<1> QED
  BY <1>1, <1>2 DEF TypeInv

\* At the start nothing is cached, asked or under way.
LEMMA InitTypes == Init => TypeInv
<1> SUFFICES ASSUME Init PROVE TypeInv
  OBVIOUS
<1>1. CacheOK
  BY Assumptions DEF Init, CacheInit, CacheOK, Held
<1>2. \A f \in funnels : /\ f = [Row(f.id, f.tenant, f.workspace) EXCEPT !.archivedAt = f.archivedAt]
                         /\ f.archivedAt \in (0..now) \cup {NULL}
  <2>1. \A f \in funnels : f = Row(f.id, f.tenant, f.workspace)
    BY BeginningsAssumption DEF Init
  <2>2. \A f \in funnels : f.archivedAt = NULL
    BY <2>1 DEF Row
  <2>3. \A i, j, k : Row(i, j, k) = [Row(i, j, k) EXCEPT !.archivedAt = NULL]
    BY DEF Row
  <2> QED
    BY <2>1, <2>2, <2>3
<1>3. <<>> \in Seq(Steps) /\ Len(<<>>) = 0
  OBVIOUS
<1>4. \A t \in Tasks : todo[t] = <<>> /\ WellFormed(t, todo[t])
  BY <1>3 DEF Init, WellFormed
<1>5. 0 \in 0..now /\ 0 \in 0..MaxRestarts /\ 0 \in 0..MaxFaults
  BY FunnelReportsAssumption DEF Init, CacheInit
<1>6. TypeOK
  <2>1. todo = [t \in Tasks |-> todo[t]]
    BY DEF Init
  <2>2. \A c \in Calls : todo[<<c, "request">>] = <<>> /\ todo[<<c, "job">>] = <<>>
    BY <1>4 DEF Tasks
  <2> QED
    BY <1>1, <1>2, <1>4, <1>5, <2>1, <2>2 DEF Init, TypeOK
<1>7. \A c \in Calls : todo[<<c, "request">>] = <<>> /\ todo[<<c, "job">>] = <<>>
  BY <1>4 DEF Tasks
<1>8. \A c \in Calls : CallOK(c)
  BY <1>7 DEF Init, CallOK
<1> QED
  BY <1>6, <1>8 DEF TypeInv

\* A query arrives.
LEMMA BeginTypes ==
    ASSUME TypeInv, NEW c \in Calls, Begin(c)
    PROVE  TypeInv'
<1> PICK q \in Queries : /\ query' = [query EXCEPT ![c] = q]
                         /\ IF Refused(q)
                            THEN Answer(c, NULL) /\ UNCHANGED todo
                            ELSE /\ pc' = [pc EXCEPT ![c] = "running"]
                                 /\ todo' = [todo EXCEPT ![<<c, "request">>] = Plan(q)]
                                 /\ UNCHANGED <<reply, ended>>
  BY DEF Begin
<1>1. /\ pc[c] = "idle" /\ UNCHANGED <<now, cache, tenants, funnels, jobs, restarts, faults, accepted, keptAt>>
      /\ began' = [began EXCEPT ![c] = now]
      /\ before' = [before EXCEPT ![c] = {d \in Calls : pc[d] = "done"}]
  BY DEF Begin
<1>2. CacheOK' /\ now' \in Nat /\ now <= now' /\ now \in 0..now
  BY <1>1, Assumptions DEF TypeInv, TypeOK, CacheOK, Held
<1>3. Part(Plan(q), OpKinds(q)) /\ LastOnly(Plan(q))
  BY ReportPlan, ExportPlanOK
<1>4. WellFormed(<<c, "request">>, Plan(q))
  BY <1>3 DEF Part, LastOnly, WellFormed, OpKinds, KindsOf
<1>5. <<c, "request">> \in Tasks
  BY DEF Tasks
<1>6. todo' = [t \in Tasks |-> todo'[t]] /\ \A t \in Tasks : WellFormed(t, todo'[t])
  <2>1. todo = [t \in Tasks |-> todo[t]] /\ \A t \in Tasks : WellFormed(t, todo[t])
    BY DEF TypeInv, TypeOK
  <2> QED
    BY <1>4, <1>5, <2>1
<1>7. /\ pc' \in [Calls -> {"idle", "running", "done", "lost"}]
      /\ reply' \in [Calls -> Calls \cup {NULL} \cup JobReplies]
      /\ ended' \in [Calls -> 0..now']
      /\ began' \in [Calls -> 0..now']
      /\ before' \in [Calls -> SUBSET Calls]
      /\ query' \in [Calls -> Queries \cup {NULL}]
  <2>1. /\ pc \in [Calls -> {"idle", "running", "done", "lost"}]
        /\ reply \in [Calls -> Calls \cup {NULL} \cup JobReplies]
        /\ ended \in [Calls -> 0..now] /\ began \in [Calls -> 0..now]
        /\ before \in [Calls -> SUBSET Calls] /\ query \in [Calls -> Queries \cup {NULL}]
    BY DEF TypeInv, TypeOK
  <2> QED
    BY <1>1, <1>2, <2>1 DEF Answer
<1>8. ASSUME NEW d \in Calls
      PROVE  /\ todo'[<<d, "request">>] # <<>> => /\ pc'[d] = "running" /\ query'[d] \in Queries
                                                  /\ Part(todo'[<<d, "request">>], OpKinds(query'[d]))
             /\ todo'[<<d, "job">>] # <<>> => d \in accepted' /\ jobs'[d] # NULL
             /\ d \in accepted' => pc'[d] = "done" /\ query'[d] \in Queries /\ query'[d].op = "export"
             /\ keptAt'[d] # NULL => query'[d] \in Queries /\ query'[d].op = "export"
             /\ pc'[d] = "running" => query'[d] # NULL
             /\ pc'[d] = "idle" => query'[d] = NULL
             /\ jobs'[d] # NULL => d \in accepted'
  <2>1. /\ <<d, "request">> \in Tasks /\ <<d, "job">> \in Tasks /\ <<d, "job">> # <<c, "request">>
        /\ <<d, "request">> = <<c, "request">> <=> d = c
    BY DEF Tasks
  <2>2. /\ todo = [t \in Tasks |-> todo[t]] /\ pc \in [Calls -> {"idle", "running", "done", "lost"}]
        /\ query \in [Calls -> Queries \cup {NULL}]
    BY DEF TypeInv, TypeOK
  <2>3. todo'[<<d, "job">>] = todo[<<d, "job">>]
    BY <2>1, <2>2
  <2>4. CASE d # c
    <3>1. todo'[<<d, "request">>] = todo[<<d, "request">>] /\ pc'[d] = pc[d] /\ query'[d] = query[d]
      BY <2>1, <2>2, <2>4 DEF Answer
    <3> QED
      BY <1>1, <2>3, <3>1, CallTypes DEF CallOK, IsExport
  <2>5. CASE d = c
    <3>1. /\ todo[<<d, "request">>] = <<>> /\ todo[<<d, "job">>] = <<>> /\ jobs[d] = NULL
          /\ d \notin accepted /\ keptAt[d] = NULL
      BY <1>1, <2>5, NoSteps
    <3>2. /\ query'[d] = q /\ q # NULL
          /\ pc'[d] \in {"running", "done"}
          /\ todo'[<<d, "request">>] # <<>> => pc'[d] = "running" /\ todo'[<<d, "request">>] = Plan(q)
      BY <2>1, <2>2, <2>5, <3>1, QueryOK DEF Answer
    <3> QED
      BY <1>1, <1>3, <2>3, <3>1, <3>2
  <2> QED
    BY <2>4, <2>5
<1>9. /\ \A f \in funnels' : /\ f = [Row(f.id, f.tenant, f.workspace) EXCEPT !.archivedAt = f.archivedAt]
                            /\ f.archivedAt \in (0..now') \cup {NULL}
      /\ jobs' \in [Calls -> Jobs \cup {NULL}] /\ restarts' \in 0..MaxRestarts /\ faults' \in 0..MaxFaults
      /\ accepted' \subseteq Calls /\ keptAt' \in [Calls -> (0..now') \cup {NULL}]
  BY <1>1, <1>2, OthersTypes
<1> QED
  BY <1>2, <1>6, <1>7, <1>8, <1>9, TypesTogether

\* The status of a job is asked for.
LEMMA AskTypes ==
    ASSUME TypeInv, NEW c \in Calls, AskStatus(c)
    PROVE  /\ TypeInv'
           /\ \E r \in JobReplies : Answer(c, r) /\ \E d \in Calls :
                /\ pc[d] = "done" /\ reply[d] \in JobReplies /\ r.job = reply[d].job
                /\ r.status = IF jobs[r.job] = NULL THEN "missing" ELSE jobs[r.job].status
<1> PICK d \in Calls : /\ pc[d] = "done" /\ IsJobReply(reply[d])
                       /\ Answer(c, [job |-> reply[d].job,
                                     status |-> IF jobs[reply[d].job] = NULL THEN "missing" ELSE jobs[reply[d].job].status])
  BY DEF AskStatus
<1>1. /\ pc[c] = "idle"
      /\ UNCHANGED <<now, cache, tenants, funnels, jobs, query, todo, restarts, faults, accepted, keptAt>>
      /\ began' = [began EXCEPT ![c] = now]
      /\ before' = [before EXCEPT ![c] = {e \in Calls : pc[e] = "done"}]
  BY DEF AskStatus
<1> DEFINE j == reply[d].job
           r == [job |-> j, status |-> IF jobs[j] = NULL THEN "missing" ELSE jobs[j].status]
<1>2. reply[d] \in JobReplies /\ j \in Calls
  BY DEF TypeInv, TypeOK, IsJobReply, JobReplies
<1>3. r \in JobReplies /\ r.job = j /\ r.status = IF jobs[j] = NULL THEN "missing" ELSE jobs[j].status
  <2>1. jobs[j] \in Jobs \cup {NULL}
    BY <1>2 DEF TypeInv, TypeOK
  <2> QED
    BY <1>2, <2>1 DEF JobReplies, Jobs
<1>4. Answer(c, r)
  OBVIOUS
<1> HIDE DEF r
<1>5. CacheOK' /\ now' \in Nat /\ now <= now' /\ now \in 0..now
  BY <1>1, Assumptions DEF TypeInv, TypeOK, CacheOK, Held
<1>6. /\ pc' \in [Calls -> {"idle", "running", "done", "lost"}]
      /\ reply' \in [Calls -> Calls \cup {NULL} \cup JobReplies]
      /\ ended' \in [Calls -> 0..now']
      /\ began' \in [Calls -> 0..now']
      /\ before' \in [Calls -> SUBSET Calls]
      /\ query' \in [Calls -> Queries \cup {NULL}]
  <2>1. /\ pc \in [Calls -> {"idle", "running", "done", "lost"}]
        /\ reply \in [Calls -> Calls \cup {NULL} \cup JobReplies]
        /\ ended \in [Calls -> 0..now] /\ began \in [Calls -> 0..now]
        /\ before \in [Calls -> SUBSET Calls] /\ query \in [Calls -> Queries \cup {NULL}]
    BY DEF TypeInv, TypeOK
  <2> QED
    BY <1>1, <1>3, <1>4, <1>5, <2>1 DEF Answer
<1>7. ASSUME NEW e \in Calls
      PROVE  /\ todo'[<<e, "request">>] # <<>> => /\ pc'[e] = "running" /\ query'[e] \in Queries
                                                  /\ Part(todo'[<<e, "request">>], OpKinds(query'[e]))
             /\ todo'[<<e, "job">>] # <<>> => e \in accepted' /\ jobs'[e] # NULL
             /\ e \in accepted' => pc'[e] = "done" /\ query'[e] \in Queries /\ query'[e].op = "export"
             /\ keptAt'[e] # NULL => query'[e] \in Queries /\ query'[e].op = "export"
             /\ pc'[e] = "running" => query'[e] # NULL
             /\ pc'[e] = "idle" => query'[e] = NULL
             /\ jobs'[e] # NULL => e \in accepted'
  <2>1. pc'[e] = IF e = c THEN "done" ELSE pc[e]
    BY <1>4 DEF Answer, TypeInv, TypeOK
  <2>2. e = c => todo[<<e, "request">>] = <<>>
    BY <1>1, NoSteps
  <2> QED
    BY <1>1, <2>1, <2>2, CallTypes DEF CallOK, IsExport
<1>8. /\ \A f \in funnels' : /\ f = [Row(f.id, f.tenant, f.workspace) EXCEPT !.archivedAt = f.archivedAt]
                            /\ f.archivedAt \in (0..now') \cup {NULL}
      /\ jobs' \in [Calls -> Jobs \cup {NULL}] /\ restarts' \in 0..MaxRestarts /\ faults' \in 0..MaxFaults
      /\ accepted' \subseteq Calls /\ keptAt' \in [Calls -> (0..now') \cup {NULL}]
      /\ todo' = [t \in Tasks |-> todo'[t]] /\ \A t \in Tasks : WellFormed(t, todo'[t])
  BY <1>1, <1>5, OthersTypes
<1>9. TypeInv'
  BY <1>5, <1>6, <1>7, <1>8, TypesTogether
<1> QED
  BY <1>2, <1>3, <1>4, <1>9

\* What the start of a job does.
Starts(c) ==
    /\ IsNext(<<c, "request">>, "start") /\ pc[c] = "running" /\ query[c].op = "export"
    /\ todo' = [todo EXCEPT ![<<c, "request">>] = <<>>,
                            ![<<c, "job">>] = JobPlan(query[c], Cached(DataKey(query[c])) # NULL)]
    /\ jobs' = [jobs EXCEPT ![c] = [status |-> "processing", data |-> Cached(DataKey(query[c]))]]
    /\ Cached(DataKey(query[c])) \in Calls \cup {NULL}
    /\ accepted' = accepted \cup {c}
    /\ Answer(c, [job |-> c, status |-> "processing"])
    /\ CacheOK' /\ \A k \in CacheKeys : Keeps(k)
    /\ UNCHANGED <<now, tenants, funnels, query, restarts, faults, began, before, keptAt>>

\* StartJob is a step of a request for an export, and its last.
LEMMA StartShape ==
    ASSUME TypeInv, NEW t \in Tasks, StartJob(t)
    PROVE  t = <<t[1], "request">> /\ t[1] \in Calls /\ Starts(t[1])
<1> DEFINE c == t[1]
<1>1. todo[t] # <<>> /\ Head(todo[t]).do = "start"
  BY DEF StartJob, IsNext
<1>2. /\ c \in Calls /\ t[2] = "request" /\ t = <<c, "request">> /\ query[c] \in Queries /\ query[c].op = "export"
      /\ pc[c] = "running" /\ Tail(todo[t]) = <<>>
  BY <1>1, TaskFacts, HeadKind DEF Ending
<1>3. /\ CacheOK' /\ Cached(DataKey(query[c])) \in Calls \cup {NULL}
      /\ \A k \in CacheKeys : Keeps(k)
  <2>1. DataKey(query[c]) \in CacheKeys /\ CacheOK
    BY <1>2, QueryOK DEF TypeInv, TypeOK
  <2>2. UNCHANGED now /\ Get(DataKey(query[c]))
    BY DEF StartJob
  <2> QED
    BY <2>1, <2>2, GetKeeps, CachedValue
<1>4. /\ todo' = [todo EXCEPT ![t] = Tail(@), ![<<c, "job">>] = JobPlan(query[c], Cached(DataKey(query[c])) # NULL)]
      /\ jobs' = [jobs EXCEPT ![c] = [status |-> "processing", data |-> Cached(DataKey(query[c]))]]
      /\ accepted' = accepted \cup {c}
      /\ Answer(c, [job |-> c, status |-> "processing"])
      /\ UNCHANGED <<now, tenants, funnels, query, restarts, faults, began, before, keptAt>>
  BY DEF StartJob
<1>5. todo' = [todo EXCEPT ![t] = <<>>, ![<<c, "job">>] = JobPlan(query[c], Cached(DataKey(query[c])) # NULL)]
  BY <1>2, <1>4
<1> QED
  BY <1>1, <1>2, <1>3, <1>4, <1>5 DEF Starts, IsNext

\* A job is started.
LEMMA StartTypes ==
    ASSUME TypeInv, NEW c \in Calls, Starts(c)
    PROVE  TypeInv'
<1> DEFINE known == Cached(DataKey(query[c]))
           plan == JobPlan(query[c], known # NULL)
           row == [status |-> "processing", data |-> known]
           told == [job |-> c, status |-> "processing"]
<1>1. /\ todo[<<c, "request">>] # <<>> /\ pc[c] = "running" /\ query[c].op = "export"
      /\ todo' = [todo EXCEPT ![<<c, "request">>] = <<>>, ![<<c, "job">>] = plan]
      /\ jobs' = [jobs EXCEPT ![c] = row] /\ known \in Calls \cup {NULL}
      /\ accepted' = accepted \cup {c} /\ Answer(c, told)
      /\ CacheOK' /\ UNCHANGED <<now, tenants, funnels, query, restarts, faults, began, before, keptAt>>
  BY DEF Starts, IsNext
<1>2. query[c] \in Queries
  BY <1>1, CallTypes DEF CallOK
<1>3. now' \in Nat /\ now <= now' /\ now \in 0..now
  BY <1>1, Assumptions DEF TypeInv, TypeOK, CacheOK
<1>4. plan # <<>> /\ WellFormed(<<c, "job">>, plan)
  <2>1. (known # NULL) \in BOOLEAN
    OBVIOUS
  <2> QED
    BY <1>1, <1>2, <2>1, JobSteps DEF Part, LastOnly, WellFormed, KindsOf
<1>5. row \in Jobs /\ told \in JobReplies
  BY <1>1 DEF Jobs, Statuses, JobReplies
<1> HIDE DEF row, told, plan
<1>6. <<c, "job">> \in Tasks /\ <<c, "request">> \in Tasks /\ <<c, "job">> # <<c, "request">>
  BY DEF Tasks
<1>7. todo' = [t \in Tasks |-> todo'[t]] /\ \A t \in Tasks : WellFormed(t, todo'[t])
  <2>1. todo = [t \in Tasks |-> todo[t]] /\ \A t \in Tasks : WellFormed(t, todo[t])
    BY DEF TypeInv, TypeOK
  <2>2. WellFormed(<<c, "request">>, <<>>)
    BY DEF WellFormed
  <2> QED
    BY <1>1, <1>4, <1>6, <2>1, <2>2
<1>8. /\ pc' \in [Calls -> {"idle", "running", "done", "lost"}]
      /\ reply' \in [Calls -> Calls \cup {NULL} \cup JobReplies]
      /\ ended' \in [Calls -> 0..now']
      /\ jobs' \in [Calls -> Jobs \cup {NULL}]
      /\ accepted' \subseteq Calls
  <2>1. /\ pc \in [Calls -> {"idle", "running", "done", "lost"}]
        /\ reply \in [Calls -> Calls \cup {NULL} \cup JobReplies]
        /\ ended \in [Calls -> 0..now] /\ jobs \in [Calls -> Jobs \cup {NULL}] /\ accepted \subseteq Calls
    BY DEF TypeInv, TypeOK
  <2> QED
    BY <1>1, <1>3, <1>5, <2>1 DEF Answer
<1>9. ASSUME NEW d \in Calls
      PROVE  /\ todo'[<<d, "request">>] # <<>> => /\ pc'[d] = "running" /\ query'[d] \in Queries
                                                  /\ Part(todo'[<<d, "request">>], OpKinds(query'[d]))
             /\ todo'[<<d, "job">>] # <<>> => d \in accepted' /\ jobs'[d] # NULL
             /\ d \in accepted' => pc'[d] = "done" /\ query'[d] \in Queries /\ query'[d].op = "export"
             /\ keptAt'[d] # NULL => query'[d] \in Queries /\ query'[d].op = "export"
             /\ pc'[d] = "running" => query'[d] # NULL
             /\ pc'[d] = "idle" => query'[d] = NULL
             /\ jobs'[d] # NULL => d \in accepted'
  <2>1. /\ todo = [t \in Tasks |-> todo[t]] /\ pc \in [Calls -> {"idle", "running", "done", "lost"}]
        /\ jobs \in [Calls -> Jobs \cup {NULL}]
    BY DEF TypeInv, TypeOK
  <2>2. CASE d # c
    <3>1. /\ todo'[<<d, "request">>] = todo[<<d, "request">>] /\ todo'[<<d, "job">>] = todo[<<d, "job">>]
          /\ pc'[d] = pc[d] /\ jobs'[d] = jobs[d]
      BY <1>1, <2>1, <2>2 DEF Answer, Tasks
    <3> QED
      BY <1>1, <2>2, <3>1, CallTypes DEF CallOK, IsExport
  <2>3. CASE d = c
    <3>1. todo'[<<d, "request">>] = <<>> /\ pc'[d] = "done" /\ jobs'[d] = row
      BY <1>1, <1>6, <2>1, <2>3 DEF Answer
    <3>2. jobs'[d] # NULL /\ query[c] # NULL
      BY <1>2, <1>5, <3>1, Assumptions
    <3> QED
      BY <1>1, <1>2, <2>3, <3>1, <3>2
  <2> QED
    BY <2>2, <2>3
<1>10. /\ \A f \in funnels' : /\ f = [Row(f.id, f.tenant, f.workspace) EXCEPT !.archivedAt = f.archivedAt]
                              /\ f.archivedAt \in (0..now') \cup {NULL}
       /\ query' \in [Calls -> Queries \cup {NULL}] /\ restarts' \in 0..MaxRestarts /\ faults' \in 0..MaxFaults
       /\ began' \in [Calls -> 0..now'] /\ before' \in [Calls -> SUBSET Calls]
       /\ keptAt' \in [Calls -> (0..now') \cup {NULL}]
  BY <1>1, <1>3, OthersTypes
<1> QED
  BY <1>1, <1>7, <1>8, <1>9, <1>10, TypesTogether

\* What happens outside the calls.
Outside == (\E f \in funnels : Archive(f) \/ Invalidate(f)) \/ Tick \/ Expire

\* Nothing of that touches a call, a task or a job.
LEMMA OutsideTypes ==
    ASSUME TypeInv, Outside
    PROVE  /\ TypeInv'
           /\ UNCHANGED <<jobs, pc, query, todo, reply, restarts, faults, history>>
           /\ \A k \in CacheKeys : Keeps(k)
<1>1. UNCHANGED <<jobs, pc, query, todo, reply, restarts, faults, began, ended, before, accepted, keptAt>>
  BY DEF Outside, Archive, Invalidate, Tick, Expire, history
<1>2. CacheOK' /\ now' \in Nat /\ now <= now' /\ \A k \in CacheKeys : Keeps(k)
  <2>1. CacheOK /\ now \in 0..MaxTime /\ MaxTime \in Nat
    BY Assumptions DEF TypeInv, TypeOK, CacheOK
  <2>2. CASE UNCHANGED <<now, cache>>
    BY <2>1, <2>2 DEF CacheOK, Held, Keeps
  <2>3. CASE Tick
    BY <2>1, <2>3 DEF Tick, Advance, CacheOK, Held, Keeps
  <2>4. CASE Expire
    BY <2>1, <2>4, DropKeeps DEF Expire
  <2>5. ASSUME NEW f \in funnels, Invalidate(f)
        PROVE  CacheOK' /\ now' \in Nat /\ now <= now' /\ \A k \in CacheKeys : Keeps(k)
    BY <2>1, <2>5 DEF Invalidate, CacheOK, Held, Keeps
  <2> QED
    BY <2>2, <2>3, <2>4, <2>5 DEF Outside, Archive
<1>3. \A f \in funnels' : /\ f = [Row(f.id, f.tenant, f.workspace) EXCEPT !.archivedAt = f.archivedAt]
                          /\ f.archivedAt \in (0..now') \cup {NULL}
  <2>1. CASE UNCHANGED funnels
    BY <1>2, <2>1, OthersTypes
  <2>2. ASSUME NEW f \in funnels, Archive(f)
        PROVE  \A g \in funnels' : /\ g = [Row(g.id, g.tenant, g.workspace) EXCEPT !.archivedAt = g.archivedAt]
                                   /\ g.archivedAt \in (0..now') \cup {NULL}
    <3>1. \A g \in funnels : /\ g = [Row(g.id, g.tenant, g.workspace) EXCEPT !.archivedAt = g.archivedAt]
                             /\ g.archivedAt \in (0..now') \cup {NULL}
      BY <2>2 DEF TypeInv, TypeOK, Archive
    <3> DEFINE h == [f EXCEPT !.archivedAt = now]
    <3>2. funnels' = (funnels \ {f}) \cup {h} /\ now' = now
      BY <2>2 DEF Archive
    <3>3. h = [Row(h.id, h.tenant, h.workspace) EXCEPT !.archivedAt = h.archivedAt] /\ h.archivedAt = now
      BY <3>1 DEF Row
    <3>4. now \in 0..now'
      BY <1>2, <3>2
    <3> HIDE DEF h
    <3> QED
      BY <3>1, <3>2, <3>3, <3>4
  <2> QED
    BY <2>1, <2>2 DEF Outside, Invalidate, Tick, Expire
<1>4. ASSUME NEW d \in Calls
      PROVE  /\ todo'[<<d, "request">>] # <<>> => /\ pc'[d] = "running" /\ query'[d] \in Queries
                                                  /\ Part(todo'[<<d, "request">>], OpKinds(query'[d]))
             /\ todo'[<<d, "job">>] # <<>> => d \in accepted' /\ jobs'[d] # NULL
             /\ d \in accepted' => pc'[d] = "done" /\ query'[d] \in Queries /\ query'[d].op = "export"
             /\ keptAt'[d] # NULL => query'[d] \in Queries /\ query'[d].op = "export"
             /\ pc'[d] = "running" => query'[d] # NULL
             /\ pc'[d] = "idle" => query'[d] = NULL
             /\ jobs'[d] # NULL => d \in accepted'
  BY <1>1, CallTypes DEF CallOK, IsExport
<1>5. /\ jobs' \in [Calls -> Jobs \cup {NULL}] /\ pc' \in [Calls -> {"idle", "running", "done", "lost"}]
      /\ query' \in [Calls -> Queries \cup {NULL}]
      /\ todo' = [t \in Tasks |-> todo'[t]] /\ \A t \in Tasks : WellFormed(t, todo'[t])
      /\ reply' \in [Calls -> Calls \cup {NULL} \cup JobReplies]
      /\ restarts' \in 0..MaxRestarts /\ faults' \in 0..MaxFaults
      /\ began' \in [Calls -> 0..now'] /\ ended' \in [Calls -> 0..now'] /\ before' \in [Calls -> SUBSET Calls]
      /\ accepted' \subseteq Calls /\ keptAt' \in [Calls -> (0..now') \cup {NULL}]
  BY <1>1, <1>2, OthersTypes
<1>6. TypeInv'
  BY <1>2, <1>3, <1>4, <1>5, TypesTogether
<1> QED
  BY <1>1, <1>2, <1>6 DEF history

\* A restart ends the calls under way, and the jobs and the cache are gone.
LEMMA RestartTypes ==
    ASSUME TypeInv, Restart
    PROVE  TypeInv' /\ \A k \in CacheKeys : Keeps(k)
<1>1. /\ restarts' = restarts + 1 /\ restarts < MaxRestarts /\ Clear
      /\ jobs' = [j \in Calls |-> NULL] /\ todo' = [t \in Tasks |-> <<>>]
      /\ pc' = [c \in Calls |-> IF pc[c] = "running" THEN "lost" ELSE pc[c]]
      /\ UNCHANGED <<now, tenants, funnels, query, reply, faults, began, ended, before, accepted, keptAt>>
  BY DEF Restart, history
<1>2. CacheOK' /\ now' \in Nat /\ now <= now' /\ \A k \in CacheKeys : Keeps(k)
  <2>1. CacheOK /\ now \in 0..MaxTime /\ MaxTime \in Nat
    BY Assumptions DEF TypeInv, TypeOK, CacheOK
  <2> QED
    BY <1>1, <2>1, DropKeeps
<1>3. /\ jobs' \in [Calls -> Jobs \cup {NULL}] /\ pc' \in [Calls -> {"idle", "running", "done", "lost"}]
      /\ restarts' \in 0..MaxRestarts
  BY <1>1, FunnelReportsAssumption DEF TypeInv, TypeOK
<1>4. todo' = [t \in Tasks |-> todo'[t]] /\ \A t \in Tasks : WellFormed(t, todo'[t])
  BY <1>1 DEF WellFormed
<1>5. ASSUME NEW d \in Calls
      PROVE  /\ todo'[<<d, "request">>] # <<>> => /\ pc'[d] = "running" /\ query'[d] \in Queries
                                                  /\ Part(todo'[<<d, "request">>], OpKinds(query'[d]))
             /\ todo'[<<d, "job">>] # <<>> => d \in accepted' /\ jobs'[d] # NULL
             /\ d \in accepted' => pc'[d] = "done" /\ query'[d] \in Queries /\ query'[d].op = "export"
             /\ keptAt'[d] # NULL => query'[d] \in Queries /\ query'[d].op = "export"
             /\ pc'[d] = "running" => query'[d] # NULL
             /\ pc'[d] = "idle" => query'[d] = NULL
             /\ jobs'[d] # NULL => d \in accepted'
  <2>1. todo'[<<d, "request">>] = <<>> /\ todo'[<<d, "job">>] = <<>> /\ jobs'[d] = NULL
    BY <1>1 DEF Tasks
  <2>2. pc'[d] = IF pc[d] = "running" THEN "lost" ELSE pc[d]
    BY <1>1
  <2> QED
    BY <1>1, <2>1, <2>2, CallTypes DEF CallOK, IsExport
<1>6. /\ \A f \in funnels' : /\ f = [Row(f.id, f.tenant, f.workspace) EXCEPT !.archivedAt = f.archivedAt]
                             /\ f.archivedAt \in (0..now') \cup {NULL}
      /\ query' \in [Calls -> Queries \cup {NULL}]
      /\ reply' \in [Calls -> Calls \cup {NULL} \cup JobReplies]
      /\ faults' \in 0..MaxFaults
      /\ began' \in [Calls -> 0..now'] /\ ended' \in [Calls -> 0..now'] /\ before' \in [Calls -> SUBSET Calls]
      /\ accepted' \subseteq Calls /\ keptAt' \in [Calls -> (0..now') \cup {NULL}]
  BY <1>1, <1>2, OthersTypes
<1> QED
  BY <1>2, <1>3, <1>4, <1>5, <1>6, TypesTogether

\* A step is one of six kinds.
LEMMA StepKind ==
    ASSUME TypeInv, Next
    PROVE  \/ \E c \in Calls : Begin(c) \/ AskStatus(c) \/ Starts(c)
           \/ \E t \in Tasks : \E u : Works(t, u)
           \/ Outside
           \/ Restart
<1>1. ASSUME NEW t \in Tasks, Step(t) \/ Fault(t)
      PROVE  (\E c \in Calls : Starts(c)) \/ \E u : Works(t, u)
  BY <1>1, StartShape, StepWorks
<1> QED
  BY <1>1 DEF Next, Outside

\* Every step keeps the types.
LEMMA NextTypes == TypeInv /\ [Next]_vars => TypeInv'
<1> SUFFICES ASSUME TypeInv, [Next]_vars PROVE TypeInv'
  OBVIOUS
<1>1. CASE Next
  BY <1>1, StepKind, BeginTypes, AskTypes, StartTypes, WorksTypes, OutsideTypes, RestartTypes
<1>2. CASE UNCHANGED vars
  BY <1>2 DEF vars, history, TypeInv, TypeOK, CacheOK, Held, WellFormed, KindsOf, CallOK, IsExport,
     Part, OpKinds
<1> QED
  BY <1>1, <1>2

\* Every variable keeps its type, whatever is asked for, fails and restarts:
\* the requests and jobs of FunnelAnalyticsController and FunnelExportService
\* take only steps of their endpoint, and a job has a record while it runs.
THEOREM ReportTypes == Spec => []TypeOK
<1>1. TypeInv => TypeOK
  BY DEF TypeInv
<1> QED
  BY <1>1, InitTypes, NextTypes, PTL DEF Spec

-----------------------------------------------------------------------------
(* What a step leaves.                                                     *)

\* A call that has begun keeps its query and its times, and one that is done its answer.
CallStays(d) ==
    /\ pc[d] # "idle" => /\ pc'[d] # "idle" /\ query'[d] = query[d]
                         /\ began'[d] = began[d] /\ before'[d] = before[d]
                         /\ keptAt[d] # NULL => keptAt'[d] # NULL /\ keptAt'[d] >= keptAt[d]
    /\ pc[d] = "done" => pc'[d] = "done" /\ reply'[d] = reply[d] /\ ended'[d] = ended[d]

\* A row stays, or is archived now.
RowStays(f) ==
    \E g \in funnels' : /\ g.id = f.id /\ g.tenant = f.tenant /\ g.workspace = f.workspace
                        /\ g.archivedAt = f.archivedAt \/ (f.archivedAt = NULL /\ g.archivedAt = now)

Grows == /\ accepted \subseteq accepted'
         /\ \A d \in Calls : CallStays(d)
         /\ \A f \in funnels : RowStays(f)

\* Calls, answers and rows stay what they were.
LEMMA NextGrows ==
    ASSUME TypeInv, Next
    PROVE  Grows
<1>1. /\ pc \in [Calls -> {"idle", "running", "done", "lost"}] /\ query \in [Calls -> Queries \cup {NULL}]
      /\ reply \in [Calls -> Calls \cup {NULL} \cup JobReplies] /\ ended \in [Calls -> 0..now]
      /\ began \in [Calls -> 0..now] /\ before \in [Calls -> SUBSET Calls]
      /\ keptAt \in [Calls -> (0..now) \cup {NULL}] /\ now \in Nat
  BY Assumptions DEF TypeInv, TypeOK, CacheOK
<1>2. UNCHANGED keptAt => \A d \in Calls : keptAt[d] # NULL => keptAt'[d] # NULL /\ keptAt'[d] >= keptAt[d]
  BY <1>1
<1>3. UNCHANGED funnels => \A f \in funnels : RowStays(f)
  BY DEF RowStays
<1>4. ASSUME NEW c \in Calls, Begin(c) \/ AskStatus(c) \/ Starts(c) PROVE Grows
  <2>1. /\ pc[c] = "idle" \/ (pc[c] = "running" /\ UNCHANGED <<query, began, before>>)
        /\ \A d \in Calls \ {c} : /\ pc'[d] = pc[d] /\ query'[d] = query[d] /\ began'[d] = began[d]
                                  /\ before'[d] = before[d] /\ reply'[d] = reply[d] /\ ended'[d] = ended[d]
        /\ UNCHANGED <<keptAt, funnels>> /\ accepted \subseteq accepted'
        /\ pc[c] = "running" => pc'[c] # "idle"
    BY <1>1, <1>4 DEF Begin, AskStatus, Starts, Answer
  <2> QED
    BY <1>2, <1>3, <2>1 DEF Grows, CallStays
<1>5. ASSUME NEW t \in Tasks, NEW u, Works(t, u) PROVE Grows
  <2>1. t[1] \in Calls /\ (t[2] = "request" => pc[t[1]] = "running")
    BY <1>5, TaskFacts DEF Works
  <2>2. UNCHANGED <<funnels, query, began, before, accepted>>
    BY <1>5 DEF Works
  <2>3. \A d \in Calls : /\ pc'[d] = pc[d] \/ (pc[d] = "running" /\ pc'[d] = "done")
                         /\ pc[d] = "done" => reply'[d] = reply[d] /\ ended'[d] = ended[d]
    BY <1>1, <1>5, <2>1 DEF Works, Answer
  <2>4. \A d \in Calls : keptAt[d] # NULL => keptAt'[d] # NULL /\ keptAt'[d] >= keptAt[d]
    <3>1. UNCHANGED keptAt \/ keptAt' = [keptAt EXCEPT ![t[1]] = now]
      BY <1>5 DEF Works
    <3>2. CASE keptAt' = [keptAt EXCEPT ![t[1]] = now]
      BY <1>1, <2>1, <3>2, Assumptions
    <3> QED
      BY <1>2, <3>1, <3>2
  <2> QED
    BY <1>3, <2>2, <2>3, <2>4 DEF Grows, CallStays
<1>6. CASE Outside
  <2>1. UNCHANGED <<pc, query, reply, began, ended, before, accepted, keptAt>>
    BY <1>6, OutsideTypes DEF history
  <2>2. \A f \in funnels : RowStays(f)
    <3>1. CASE UNCHANGED funnels
      BY <1>3, <3>1
    <3>2. ASSUME NEW f \in funnels, Archive(f) PROVE \A h \in funnels : RowStays(h)
      <4> DEFINE g == [f EXCEPT !.archivedAt = now]
      <4>1. funnels' = (funnels \ {f}) \cup {g} /\ f.archivedAt = NULL
        BY <3>2 DEF Archive
      <4>2. g.id = f.id /\ g.tenant = f.tenant /\ g.workspace = f.workspace /\ g.archivedAt = now
        BY DEF TypeInv, TypeOK, Row
      <4> HIDE DEF g
      <4> QED
        BY <4>1, <4>2 DEF RowStays
    <3> QED
      BY <1>6, <3>1, <3>2 DEF Outside, Invalidate, Tick, Expire
  <2> QED
    BY <1>2, <2>1, <2>2 DEF Grows, CallStays
<1>7. CASE Restart
  <2>1. UNCHANGED <<funnels, query, reply, began, ended, before, accepted, keptAt>>
    BY <1>7 DEF Restart, history
  <2>2. \A d \in Calls : (pc[d] # "idle" => pc'[d] # "idle") /\ (pc[d] = "done" => pc'[d] = "done")
    BY <1>7 DEF Restart
  <2> QED
    BY <1>2, <1>3, <2>1, <2>2 DEF Grows, CallStays
<1> QED
  BY <1>4, <1>5, <1>6, <1>7, StepKind

-----------------------------------------------------------------------------
(* What becomes of a job.                                                  *)

\* What a client would be told of a job now.
StatusIn(js, j) == IF js[j] = NULL THEN "missing" ELSE js[j].status
StatusNow(j) == StatusIn(jobs, j)

\* A job with steps left is processing.
WorkOK(c) == todo[<<c, "job">>] # <<>> => jobs[c].status = "processing"

\* Whoever was told of a job was told of one that was accepted, and nothing
\* that came later than what is the case now.
ToldOK(d) == d \in Told => /\ reply[d] \in JobReplies
                           /\ reply[d].job \in accepted
                           /\ NoEarlier(StatusNow(reply[d].job), reply[d].status)

JobInv ==
    /\ \A c \in Calls : WorkOK(c) /\ ToldOK(c)
    /\ \A c \in Calls : \A d \in before[c] : pc[d] = "done"
    /\ StatusNeverGoesBack

\* A later status comes after all that an earlier one comes after.
LEMMA NoEarlierFacts ==
    LET S == Statuses \cup {"missing"}
    IN /\ \A s \in S : NoEarlier(s, s) /\ NoEarlier("missing", s)
       /\ NoEarlier("completed", "processing") /\ NoEarlier("failed", "processing")
       /\ \A r, s, t \in S : NoEarlier(t, s) /\ NoEarlier(s, r) => NoEarlier(t, r)
<1>1. /\ Rank("processing") = 1 /\ Rank("completed") = 2 /\ Rank("failed") = 2 /\ Rank("missing") = 3
  BY DEF Rank
<1>2. \A s \in Statuses \cup {"missing"} : s \in {"processing", "completed", "failed", "missing"}
  BY DEF Statuses
<1>3. \A s \in Statuses \cup {"missing"} : Rank(s) \in Int
  BY <1>1, <1>2
<1> QED
  BY <1>1, <1>2, <1>3 DEF NoEarlier

\* A job has a status or is missing.
LEMMA StatusTypes ==
    ASSUME TypeInv, NEW j \in Calls
    PROVE  StatusNow(j) \in Statuses \cup {"missing"}
<1>1. jobs[j] \in Jobs \cup {NULL}
  BY DEF TypeInv, TypeOK
<1> QED
  BY <1>1 DEF StatusNow, StatusIn, Jobs

\* So it is after a step.
LEMMA StatusTypesNext ==
    ASSUME TypeInv', NEW j \in Calls
    PROVE  StatusIn(jobs', j) \in Statuses \cup {"missing"}
<1>1. jobs'[j] \in Jobs \cup {NULL}
  BY DEF TypeInv, TypeOK
<1> QED
  BY <1>1 DEF StatusIn, Jobs

\* A step keeps the order of what is told, if no status goes back and whoever
\* is told something is told what is the case.
LEMMA ToldStep ==
    ASSUME TypeInv, TypeInv', JobInv, Grows,
           \A j \in accepted : NoEarlier(StatusIn(jobs', j), StatusNow(j)),
           \A d \in Calls : d \in Told' => \/ d \in Told
                                           \/ /\ pc[d] # "done" /\ reply'[d] \in JobReplies
                                              /\ reply'[d].job \in accepted'
                                              /\ reply'[d].status = StatusIn(jobs', reply'[d].job),
           \A c \in Calls : WorkOK(c)',
           \A c \in Calls : \A d \in before'[c] : pc[d] = "done"
    PROVE  JobInv'
<1>1. accepted \subseteq Calls /\ accepted' \subseteq Calls
  BY DEF TypeInv, TypeOK
<1>2. before \in [Calls -> SUBSET Calls] /\ before' \in [Calls -> SUBSET Calls]
  BY DEF TypeInv, TypeOK
<1>3. \A d \in Told : d \in Calls /\ pc[d] = "done" /\ reply'[d] = reply[d] /\ before'[d] = before[d]
  BY DEF Told, Grows, CallStays
<1>4. \A d \in Told' : d \in Calls
  BY DEF Told
<1>5. ASSUME NEW d \in Calls PROVE ToldOK(d)'
  <2>1. CASE d \in Told
    <3> DEFINE j == reply[d].job
    <3>1. reply[d] \in JobReplies /\ j \in accepted /\ NoEarlier(StatusNow(j), reply[d].status)
      BY <2>1, <1>3 DEF JobInv, ToldOK
    <3>2. reply[d].status \in Statuses \cup {"missing"} /\ j \in Calls
      BY <1>1, <3>1 DEF JobReplies
    <3>3. StatusNow(j) \in Statuses \cup {"missing"} /\ StatusIn(jobs', j) \in Statuses \cup {"missing"}
      BY <3>2, StatusTypes, StatusTypesNext
    <3>4. NoEarlier(StatusIn(jobs', j), reply[d].status)
      BY <3>1, <3>2, <3>3, NoEarlierFacts
    <3> QED
      BY <1>3, <2>1, <3>1, <3>4 DEF ToldOK, StatusNow, StatusIn, Grows
  <2>2. CASE d \in Told' /\ d \notin Told
    <3>1. /\ reply'[d] \in JobReplies /\ reply'[d].job \in accepted'
          /\ reply'[d].status = StatusIn(jobs', reply'[d].job)
      BY <2>2
    <3>2. reply'[d].status \in Statuses \cup {"missing"}
      BY <3>1 DEF JobReplies
    <3> QED
      BY <3>1, <3>2, NoEarlierFacts DEF ToldOK, StatusNow, StatusIn
  <2> QED
    BY <2>1, <2>2 DEF ToldOK
<1>6. ASSUME NEW c \in Told', NEW d \in Told' \cap before'[c], reply'[d].job = reply'[c].job
      PROVE  NoEarlier(reply'[c].status, reply'[d].status)
  <2>1. c \in Calls /\ d \in Calls /\ pc[d] = "done"
    BY <1>4
  <2>2. d \in Told
    BY <1>6, <2>1
  <2>3. CASE c \in Told
    <3>1. d \in before[c] /\ reply[d].job = reply[c].job /\ StatusNeverGoesBack
      BY <1>3, <1>6, <2>2, <2>3 DEF JobInv
    <3> QED
      BY <1>3, <2>1, <2>2, <2>3, <3>1 DEF StatusNeverGoesBack
  <2>4. CASE c \notin Told
    <3> DEFINE j == reply[d].job
    <3>1. /\ reply[d] \in JobReplies /\ j \in accepted /\ NoEarlier(StatusNow(j), reply[d].status)
      BY <2>1, <2>2 DEF JobInv, ToldOK
    <3>2. /\ reply'[c].status = StatusIn(jobs', reply'[c].job) /\ reply'[c].job = j /\ reply'[d] = reply[d]
      BY <1>3, <1>6, <2>1, <2>2, <2>4
    <3>3. reply[d].status \in Statuses \cup {"missing"} /\ j \in Calls
      BY <1>1, <3>1 DEF JobReplies
    <3>4. StatusNow(j) \in Statuses \cup {"missing"} /\ StatusIn(jobs', j) \in Statuses \cup {"missing"}
      BY <3>3, StatusTypes, StatusTypesNext
    <3>5. NoEarlier(StatusIn(jobs', j), StatusNow(j)) /\ StatusIn(jobs', reply'[c].job) = StatusIn(jobs', j)
      BY <3>1, <3>2 DEF StatusNow, StatusIn
    <3> QED
      BY <3>1, <3>2, <3>3, <3>4, <3>5, NoEarlierFacts
  <2> QED
    BY <2>3, <2>4
<1>7. StatusNeverGoesBack'
  BY <1>4, <1>6 DEF StatusNeverGoesBack
<1>8. \A c \in Calls : \A d \in before'[c] : pc'[d] = "done"
  BY <1>2 DEF Grows, CallStays
<1> QED
  BY <1>5, <1>7, <1>8 DEF JobInv

\* At the start there is no job to tell of.
LEMMA InitJobs == Init => JobInv
<1> SUFFICES ASSUME Init PROVE JobInv
  OBVIOUS
<1>1. Told = {} /\ \A c \in Calls : before[c] = {}
  BY DEF Init, Told
<1>2. \A c \in Calls : todo[<<c, "job">>] = <<>>
  BY DEF Init, Tasks
<1> QED
  BY <1>1, <1>2 DEF JobInv, WorkOK, ToldOK, StatusNeverGoesBack

\* Every step keeps what clients were told in order.
LEMMA NextJobs == TypeInv /\ JobInv /\ [Next]_vars => JobInv'
<1> SUFFICES ASSUME TypeInv, JobInv, [Next]_vars PROVE JobInv'
  OBVIOUS
<1>1. CASE UNCHANGED vars
  BY <1>1 DEF vars, history, JobInv, WorkOK, ToldOK, StatusNeverGoesBack, Told, StatusNow, StatusIn
<1> SUFFICES ASSUME Next PROVE JobInv'
  BY <1>1
<1>2. TypeInv' /\ Grows
  BY NextTypes, NextGrows
<1>3. /\ pc \in [Calls -> {"idle", "running", "done", "lost"}]
      /\ reply \in [Calls -> Calls \cup {NULL} \cup JobReplies]
      /\ jobs \in [Calls -> Jobs \cup {NULL}] /\ accepted \subseteq Calls
      /\ todo = [t \in Tasks |-> todo[t]] /\ before \in [Calls -> SUBSET Calls]
  BY DEF TypeInv, TypeOK
<1>4. \A j \in Calls : StatusNow(j) \in Statuses \cup {"missing"}
  BY StatusTypes
<1>5. UNCHANGED jobs => \A j \in accepted : NoEarlier(StatusIn(jobs', j), StatusNow(j))
  BY <1>3, <1>4, NoEarlierFacts DEF StatusNow, StatusIn
<1>6. \A c \in Calls : \A d \in before[c] : pc[d] = "done"
  BY DEF JobInv
<1>7. ASSUME NEW c \in Calls, Begin(c) PROVE JobInv'
  <2>1. /\ UNCHANGED jobs
        /\ \A d \in Calls \ {c} : pc'[d] = pc[d] /\ reply'[d] = reply[d]
        /\ pc[c] = "idle" /\ (pc'[c] = "done" => reply'[c] = NULL)
        /\ \A d \in Calls : todo'[<<d, "job">>] = todo[<<d, "job">>]
        /\ \A d \in Calls : before'[d] = before[d] \/ before'[d] = {e \in Calls : pc[e] = "done"}
    BY <1>3, <1>7 DEF Begin, Answer, Tasks
  <2>2. \A d \in Calls : d \in Told' => d \in Told
    BY <2>1 DEF Told, IsJobReply
  <2>3. \A d \in Calls : WorkOK(d)'
    BY <2>1 DEF JobInv, WorkOK
  <2>4. \A d \in Calls : \A e \in before'[d] : pc[e] = "done"
    BY <1>6, <2>1
  <2> QED
    BY <1>2, <1>5, <2>1, <2>2, <2>3, <2>4, ToldStep
<1>8. ASSUME NEW c \in Calls, AskStatus(c) PROVE JobInv'
  <2>1. PICK r \in JobReplies : Answer(c, r) /\ \E d \in Calls :
                /\ pc[d] = "done" /\ reply[d] \in JobReplies /\ r.job = reply[d].job
                /\ r.status = IF jobs[r.job] = NULL THEN "missing" ELSE jobs[r.job].status
    BY <1>8, AskTypes
  <2>2. /\ UNCHANGED <<jobs, todo, accepted>> /\ pc[c] = "idle"
        /\ \A d \in Calls : before'[d] = before[d] \/ before'[d] = {e \in Calls : pc[e] = "done"}
    BY <1>3, <1>8 DEF AskStatus
  <2>3. \A d \in Calls \ {c} : pc'[d] = pc[d] /\ reply'[d] = reply[d]
    BY <1>3, <2>1 DEF Answer
  <2>4. reply'[c] = r
    BY <1>3, <2>1 DEF Answer
  <2>5. r.job \in accepted
    BY <2>1, Assumptions DEF JobInv, ToldOK, Told, IsJobReply
  <2>6. r.status = StatusIn(jobs', r.job)
    BY <2>1, <2>2 DEF StatusNow, StatusIn
  <2>7. \A d \in Calls : d \in Told' => \/ d \in Told
                                        \/ /\ pc[d] # "done" /\ reply'[d] \in JobReplies
                                           /\ reply'[d].job \in accepted'
                                           /\ reply'[d].status = StatusIn(jobs', reply'[d].job)
    BY <2>1, <2>2, <2>3, <2>4, <2>5, <2>6 DEF Told, StatusNow, StatusIn
  <2>8. \A d \in Calls : WorkOK(d)'
    BY <2>2 DEF JobInv, WorkOK
  <2>9. \A d \in Calls : \A e \in before'[d] : pc[e] = "done"
    BY <1>6, <2>2
  <2> QED
    BY <1>2, <1>5, <2>2, <2>7, <2>8, <2>9, ToldStep
<1>9. ASSUME NEW c \in Calls, Starts(c) PROVE JobInv'
  <2> DEFINE told == [job |-> c, status |-> "processing"]
             row == [status |-> "processing", data |-> Cached(DataKey(query[c]))]
  <2>1. /\ jobs' = [jobs EXCEPT ![c] = row] /\ accepted' = accepted \cup {c} /\ Answer(c, told)
        /\ UNCHANGED before /\ pc[c] = "running"
        /\ Cached(DataKey(query[c])) \in Calls \cup {NULL}
        /\ \A d \in Calls \ {c} : todo'[<<d, "job">>] = todo[<<d, "job">>]
    BY <1>3, <1>9 DEF Starts, Tasks
  <2>2. row \in Jobs /\ told \in JobReplies /\ row.status = "processing" /\ told.job = c /\ told.status = "processing"
    BY <2>1 DEF Jobs, Statuses, JobReplies
  <2> HIDE DEF row, told
  <2>3. jobs'[c] = row /\ row # NULL /\ \A d \in Calls \ {c} : jobs'[d] = jobs[d]
    BY <1>3, <2>1, <2>2, Assumptions
  <2>4. c \notin accepted
    BY <2>1, NoSteps
  <2>5. \A j \in accepted : NoEarlier(StatusIn(jobs', j), StatusNow(j))
    BY <1>3, <1>4, <2>3, <2>4, NoEarlierFacts DEF StatusNow, StatusIn
  <2>6. \A d \in Calls \ {c} : pc'[d] = pc[d] /\ reply'[d] = reply[d]
    BY <1>3, <2>1 DEF Answer
  <2>7. reply'[c] = told
    BY <1>3, <2>1 DEF Answer
  <2>8. \A d \in Calls : d \in Told' => \/ d \in Told
                                        \/ /\ pc[d] # "done" /\ reply'[d] \in JobReplies
                                           /\ reply'[d].job \in accepted'
                                           /\ reply'[d].status = StatusIn(jobs', reply'[d].job)
    BY <2>1, <2>2, <2>3, <2>6, <2>7 DEF Told, StatusNow, StatusIn
  <2>9. \A d \in Calls : WorkOK(d)'
    BY <2>1, <2>2, <2>3 DEF JobInv, WorkOK
  <2> QED
    BY <1>2, <1>6, <2>1, <2>5, <2>8, <2>9, ToldStep
<1>10. ASSUME NEW t \in Tasks, NEW u, Works(t, u) PROVE JobInv'
  <2> DEFINE c == t[1]
  <2>1. /\ c \in Calls /\ t[2] \in {"request", "job"} /\ t = <<c, t[2]>>
        /\ t[2] = "job" => jobs[c] \in Jobs
    BY <1>10, TaskFacts DEF Works
  <2>2. /\ todo[t] # <<>> /\ todo' = [todo EXCEPT ![t] = u] /\ UNCHANGED <<accepted, before>>
        /\ \/ UNCHANGED jobs
           \/ /\ t[2] = "job"
              /\ \E r \in Jobs : /\ jobs' = [jobs EXCEPT ![c] = r]
                                 /\ \/ r.status = jobs[c].status
                                    \/ u = <<>> /\ r.status \in {"completed", "failed"}
        /\ \/ UNCHANGED <<pc, reply>>
           \/ \E r \in Calls \cup {NULL} : Answer(c, r)
    BY <1>10 DEF Works
  <2>3. t[2] = "job" => jobs[c] # NULL /\ jobs[c].status = "processing"
    BY <2>1, <2>2, Assumptions DEF JobInv, WorkOK
  <2>4. \A d \in Calls : d # c \/ t[2] = "request" => todo'[<<d, "job">>] = todo[<<d, "job">>]
    BY <1>3, <2>1, <2>2 DEF Tasks
  <2>5. t[2] = "job" => todo'[<<c, "job">>] = u
    BY <1>3, <2>1, <2>2
  <2>6. \A d \in Calls : d \in Told' => d \in Told
    BY <1>3, <2>1, <2>2 DEF Told, IsJobReply, Answer
  <2>7. CASE UNCHANGED jobs
    <3>1. \A d \in Calls : WorkOK(d)'
      BY <2>1, <2>3, <2>4, <2>7 DEF JobInv, WorkOK
    <3> QED
      BY <1>2, <1>5, <1>6, <2>2, <2>6, <2>7, <3>1, ToldStep
  <2>8. ASSUME t[2] = "job", NEW r \in Jobs, jobs' = [jobs EXCEPT ![c] = r],
               r.status = jobs[c].status \/ (u = <<>> /\ r.status \in {"completed", "failed"})
        PROVE  JobInv'
    <3>1. jobs'[c] = r /\ r # NULL /\ \A d \in Calls \ {c} : jobs'[d] = jobs[d]
      BY <1>3, <2>1, <2>8, Assumptions
    <3>2. NoEarlier(r.status, jobs[c].status)
      BY <2>3, <2>8, NoEarlierFacts DEF Statuses
    <3>3. \A j \in accepted : NoEarlier(StatusIn(jobs', j), StatusNow(j))
      BY <1>3, <1>4, <2>3, <2>8, <3>1, <3>2, NoEarlierFacts DEF StatusNow, StatusIn
    <3>4. \A d \in Calls : WorkOK(d)'
      BY <2>3, <2>4, <2>5, <2>8, <3>1 DEF JobInv, WorkOK
    <3> QED
      BY <1>2, <1>6, <2>2, <2>6, <3>3, <3>4, ToldStep
  <2> QED
    BY <2>2, <2>7, <2>8
<1>11. CASE Outside
  <2>1. UNCHANGED <<jobs, pc, todo, reply, before, accepted>>
    BY <1>11, OutsideTypes DEF history
  <2>2. (\A d \in Calls : d \in Told' => d \in Told) /\ \A d \in Calls : WorkOK(d)'
    BY <2>1 DEF Told, JobInv, WorkOK
  <2> QED
    BY <1>2, <1>5, <1>6, <2>1, <2>2, ToldStep
<1>12. CASE Restart
  <2>1. /\ UNCHANGED <<reply, before, accepted>> /\ jobs' = [j \in Calls |-> NULL] /\ todo' = [t \in Tasks |-> <<>>]
        /\ pc' = [c \in Calls |-> IF pc[c] = "running" THEN "lost" ELSE pc[c]]
    BY <1>12 DEF Restart, history
  <2>2. \A d \in Calls : d \in Told' => d \in Told
    BY <2>1 DEF Told, IsJobReply
  <2>3. \A d \in Calls : WorkOK(d)'
    BY <2>1 DEF WorkOK, Tasks
  <2>4. \A j \in accepted : NoEarlier(StatusIn(jobs', j), StatusNow(j))
    BY <1>3, <1>4, <2>1, NoEarlierFacts DEF StatusNow, StatusIn
  <2> QED
    BY <1>2, <1>6, <2>1, <2>2, <2>3, <2>4, ToldStep
<1> QED
  BY <1>7, <1>8, <1>9, <1>10, <1>11, <1>12, StepKind

\* Whatever fails, is archived or restarts, no client who asks getExportStatus
\* again is told of an earlier state of a job than he was told before.
THEOREM StatusOnlyMovesOn == Spec => []StatusNeverGoesBack
<1>1. TypeInv /\ JobInv => StatusNeverGoesBack
  BY DEF JobInv
<1>2. Init => TypeInv /\ JobInv
  BY InitTypes, InitJobs
<1>3. TypeInv /\ JobInv /\ [Next]_vars => TypeInv' /\ JobInv'
  BY NextTypes, NextJobs
<1> QED
  BY <1>1, <1>2, <1>3, PTL DEF Spec

-----------------------------------------------------------------------------
(* The jobs implement what ExportJobs promises, but for its liveness.      *)

Outcome == [j \in Calls |-> StatusOf(j)]

\* Every step is a step of the promise, or leaves the outcome of every job alone.
LEMMA StepOutcome == TypeInv /\ JobInv /\ [Next]_vars => [Promise!Next]_Outcome
<1> SUFFICES ASSUME TypeInv, JobInv, [Next]_vars PROVE Promise!Next \/ Outcome' = Outcome
  OBVIOUS
<1>1. /\ jobs \in [Calls -> Jobs \cup {NULL}] /\ accepted \subseteq Calls
      /\ todo = [t \in Tasks |-> todo[t]]
  BY DEF TypeInv, TypeOK
<1>2. UNCHANGED <<jobs, accepted>> => Outcome' = Outcome
  BY DEF Outcome, StatusOf
<1>3. CASE UNCHANGED vars
  BY <1>2, <1>3 DEF vars, history
<1>4. ASSUME NEW c \in Calls, Begin(c) \/ AskStatus(c) PROVE Outcome' = Outcome
  BY <1>2, <1>4 DEF Begin, AskStatus
<1>5. ASSUME NEW c \in Calls, Starts(c) PROVE Promise!Accept(c)
  <2> DEFINE row == [status |-> "processing", data |-> Cached(DataKey(query[c]))]
  <2>1. /\ jobs' = [jobs EXCEPT ![c] = row] /\ accepted' = accepted \cup {c} /\ pc[c] = "running"
        /\ Cached(DataKey(query[c])) \in Calls \cup {NULL}
    BY <1>5 DEF Starts
  <2>2. row \in Jobs /\ row.status = "processing"
    BY <2>1 DEF Jobs, Statuses
  <2> HIDE DEF row
  <2>3. jobs'[c] = row /\ row # NULL /\ \A d \in Calls \ {c} : jobs'[d] = jobs[d]
    BY <1>1, <2>1, <2>2, Assumptions
  <2>4. c \notin accepted
    BY <2>1, NoSteps
  <2>5. Outcome[c] = "none" /\ Outcome' = [Outcome EXCEPT ![c] = "processing"]
    <3>1. \A d \in Calls \ {c} : StatusOf(d)' = StatusOf(d)
      BY <2>1, <2>3 DEF StatusOf
    <3>2. StatusOf(c) = "none" /\ StatusOf(c)' = "processing"
      BY <2>1, <2>2, <2>3, <2>4 DEF StatusOf
    <3> QED
      BY <3>1, <3>2 DEF Outcome
  <2> QED
    BY <2>5 DEF Promise!Accept, Outcome
<1>6. ASSUME NEW t \in Tasks, NEW u, Works(t, u) PROVE Outcome' = Outcome \/ Promise!Finish(t[1])
  <2> DEFINE c == t[1]
  <2>1. c \in Calls /\ t = <<c, t[2]>> /\ (t[2] = "job" => c \in accepted /\ jobs[c] \in Jobs)
    BY <1>6, TaskFacts DEF Works
  <2>2. /\ todo[t] # <<>> /\ UNCHANGED accepted
        /\ \/ UNCHANGED jobs
           \/ /\ t[2] = "job"
              /\ \E r \in Jobs : /\ jobs' = [jobs EXCEPT ![c] = r]
                                 /\ r.status = jobs[c].status \/ r.status \in {"completed", "failed"}
    BY <1>6 DEF Works
  <2>3. t[2] = "job" => jobs[c] # NULL /\ jobs[c].status = "processing"
    BY <2>1, <2>2, Assumptions DEF JobInv, WorkOK
  <2>4. ASSUME t[2] = "job", NEW r \in Jobs, jobs' = [jobs EXCEPT ![c] = r],
               r.status = jobs[c].status \/ r.status \in {"completed", "failed"}
        PROVE  Outcome' = Outcome \/ Promise!Finish(c)
    <3>1. jobs'[c] = r /\ r # NULL /\ \A d \in Calls \ {c} : jobs'[d] = jobs[d]
      BY <1>1, <2>1, <2>4, Assumptions
    <3>2. Outcome[c] = "processing" /\ Outcome' = [Outcome EXCEPT ![c] = r.status]
      <4>1. \A d \in Calls \ {c} : StatusOf(d)' = StatusOf(d)
        BY <2>2, <3>1 DEF StatusOf
      <4>2. StatusOf(c) = "processing" /\ StatusOf(c)' = r.status
        BY <2>1, <2>2, <2>3, <2>4, <3>1 DEF StatusOf
      <4> QED
        BY <2>1, <4>1, <4>2 DEF Outcome
    <3>3. CASE r.status = jobs[c].status
      BY <2>1, <2>3, <2>4, <3>2, <3>3 DEF Outcome
    <3>4. CASE r.status \in {"completed", "failed"}
      BY <3>2, <3>4 DEF Promise!Finish, Outcome
    <3> QED
      BY <2>4, <3>3, <3>4
  <2> QED
    BY <1>2, <2>2, <2>4
<1>7. CASE Outside
  BY <1>2, <1>7, OutsideTypes DEF history
<1>8. CASE Restart
  <2>1. UNCHANGED accepted /\ jobs' = [j \in Calls |-> NULL]
    BY <1>8 DEF Restart, history
  <2>2. \A j \in Calls : StatusOf(j) = "none" <=> j \notin accepted
    BY <1>1 DEF StatusOf, Jobs, Statuses
  <2>3. Outcome' = [j \in Calls |-> IF Outcome[j] = "none" THEN "none" ELSE "forgotten"]
    BY <2>1, <2>2 DEF Outcome, StatusOf
  <2> QED
    BY <2>3 DEF Promise!Next, Promise!ForgetAll, Outcome
<1> QED
  BY <1>3, <1>4, <1>5, <1>6, <1>7, <1>8, StepKind, TaskFacts DEF Promise!Next, Works

\* Every history of the jobs of FunnelExportService is one that ExportJobs
\* allows: a job is accepted once, is processing until it is completed or has
\* failed, and changes no more until a restart forgets them all.
THEOREM JobsKeepPromise == Spec => Promise!Init /\ [][Promise!Next]_Outcome
<1>1. Init => Promise!Init
  BY DEF Init, Promise!Init, StatusOf
<1>2. Init => TypeInv /\ JobInv
  BY InitTypes, InitJobs
<1>3. TypeInv /\ JobInv /\ [Next]_vars => TypeInv' /\ JobInv'
  BY NextTypes, NextJobs
<1> QED
  BY <1>1, <1>2, <1>3, StepOutcome, PTL DEF Spec

-----------------------------------------------------------------------------
(* Copies of reports, configurations and data.                             *)

\* There is such a row, and if it was archived, then not before that time.
SeenIn(kept, since, id, tenant, workspace) ==
    \E f \in kept : /\ f.id = id /\ f.tenant = tenant /\ f.workspace = workspace
                    /\ f.archivedAt = NULL \/ f.archivedAt >= since

\* As the check of live metrics has it, and as the configuration is read.
LiveChecked(c) == SeenIn(funnels, began[c], query[c].tenant, query[c].workspace, query[c].funnel)
ConfigRead(c) == SeenIn(funnels, began[c], query[c].funnel, query[c].tenant, query[c].workspace)

\* An export may start on a configuration that it read or that another read not long ago.
Founded(c) ==
    \/ ConfigRead(c)
    \/ \E r \in Calls : /\ keptAt[r] # NULL /\ ConfigKey(query[r]) = ConfigKey(query[c])
                        /\ ConfigRead(r) /\ began[c] <= keptAt[r] + ConfigTTL

\* What the cache holds is a report, a configuration or the data of an export,
\* under the key of the call that stored it.
EntryOf(k, v, until) ==
    \/ /\ query[v] \in Queries /\ query[v].op # "export" /\ k = Key(query[v]) /\ pc[v] = "done"
       /\ query[v].op = "live" => LiveChecked(v) /\ until <= ended[v] + MostRefresh
    \/ /\ keptAt[v] # NULL /\ k = ConfigKey(query[v])
       /\ ConfigRead(v) /\ until <= keptAt[v] + ConfigTTL
    \/ v \in accepted /\ k = DataKey(query[v])

EntryOK(k) == cache[k] # NULL => EntryOf(k, cache[k].value, cache[k].expiresAt)

\* A report comes from a call that asked for the same, and was made, if it is
\* of live metrics, after a check and not longer ago than the limit.
ReportOf(c, r) ==
    /\ query[c] \in Queries /\ query[r] \in Queries /\ query[c].op # "export"
    /\ pc[r] = "done" /\ SameSubject(r, c)
    /\ query[c].op = "live" => LiveChecked(r) /\ began[c] <= ended[r] + MostRefresh

ReportOK(c) == c \in Reports => ReportOf(c, reply[c])

\* The data of a job comes from an export of the same.
DataOK(j) ==
    jobs[j] # NULL /\ jobs[j].data # NULL => jobs[j].data \in accepted /\ SameSubject(jobs[j].data, j)

\* Before a report of live metrics is kept, its check is made; before a job is
\* started, the configuration is looked up or read.
GuardOf(c, s) ==
    \A i \in 1..Len(s) :
       /\ s[i].do = "store" /\ query[c].op = "live" =>
             LiveChecked(c) \/ \E j \in 1..(i - 1) : s[j] = CheckShifted(query[c])
       /\ s[i].do = "start" =>
             Founded(c) \/ \E j \in 1..(i - 1) : s[j].do \in {"config", "readConfig"}

GuardOK(c) == GuardOf(c, todo[<<c, "request">>])

\* A configuration is kept right after it was read.
KeepOf(c, s) ==
    \A i \in 1..Len(s) : s[i].do = "keepConfig" =>
        \/ i = 1 /\ ConfigRead(c)
        \/ i = 2 /\ s[1].do = "readConfig"

KeepOK(t) == KeepOf(t[1], todo[t])

UniqueIds == \A f, g \in funnels : f.id = g.id => f = g

CopiesInv ==
    /\ UniqueIds
    /\ \A k \in CacheKeys : EntryOK(k)
    /\ \A c \in Calls : /\ ReportOK(c) /\ DataOK(c) /\ GuardOK(c)
                        /\ c \in accepted => Founded(c)
    /\ \A t \in Tasks : KeepOK(t)

\* What has been seen stays seen.
LEMMA SeenStays ==
    ASSUME TypeInv, TypeInv', Grows, NEW c \in Calls, pc[c] # "idle"
    PROVE  /\ LiveChecked(c) => LiveChecked(c)'
           /\ ConfigRead(c) => ConfigRead(c)'
           /\ Founded(c) => Founded(c)'
<1>1. ASSUME NEW d \in Calls, pc[d] # "idle"
      PROVE  /\ query'[d] = query[d] /\ began'[d] = began[d]
             /\ \A i, t, w : SeenIn(funnels, began[d], i, t, w) => SeenIn(funnels', began'[d], i, t, w)
  <2>1. query'[d] = query[d] /\ began'[d] = began[d]
    BY <1>1 DEF Grows, CallStays
  <2>2. began[d] \in 0..now /\ now \in Nat
    BY Assumptions DEF TypeInv, TypeOK, CacheOK
  <2>3. ASSUME NEW i, NEW t, NEW w, SeenIn(funnels, began[d], i, t, w)
        PROVE  SeenIn(funnels', began'[d], i, t, w)
    <3>1. PICK f \in funnels : /\ f.id = i /\ f.tenant = t /\ f.workspace = w
                               /\ f.archivedAt = NULL \/ f.archivedAt >= began[d]
      BY <2>3 DEF SeenIn
    <3>2. RowStays(f)
      BY DEF Grows
    <3>3. PICK g \in funnels' : /\ g.id = i /\ g.tenant = t /\ g.workspace = w
                                /\ g.archivedAt = f.archivedAt \/ (f.archivedAt = NULL /\ g.archivedAt = now)
      BY <3>1, <3>2 DEF RowStays
    <3>4. g.archivedAt = NULL \/ g.archivedAt >= began'[d]
      BY <2>1, <2>2, <3>1, <3>3
    <3> QED
      BY <3>3, <3>4 DEF SeenIn
  <2> QED
    BY <2>1, <2>3
<1>2. LiveChecked(c) => LiveChecked(c)'
  BY <1>1 DEF LiveChecked
<1>3. \A d \in Calls : pc[d] # "idle" /\ ConfigRead(d) => ConfigRead(d)'
  BY <1>1 DEF ConfigRead
<1>4. ASSUME Founded(c) PROVE Founded(c)'
  <2>1. CASE ConfigRead(c)
    BY <1>3, <2>1 DEF Founded
  <2>2. ASSUME NEW r \in Calls, keptAt[r] # NULL, ConfigKey(query[r]) = ConfigKey(query[c]),
               ConfigRead(r), began[c] <= keptAt[r] + ConfigTTL
        PROVE  Founded(c)'
    <3>1. pc[r] # "idle"
      BY <2>2, NoSteps
    <3>2. /\ ConfigRead(r)' /\ query'[r] = query[r] /\ query'[c] = query[c] /\ began'[c] = began[c]
          /\ keptAt'[r] # NULL /\ keptAt'[r] >= keptAt[r]
      BY <1>1, <1>3, <2>2, <3>1 DEF Grows, CallStays
    <3>3. ConfigTTL \in Nat /\ keptAt[r] \in Nat /\ began[c] \in Nat
      <4>1. now \in Nat
        BY Assumptions DEF TypeInv, TypeOK, CacheOK
      <4> QED
        BY <2>2, <4>1, Assumptions DEF TypeInv, TypeOK
    <3>4. keptAt'[r] \in Int
      <4>1. now' \in Nat
        BY Assumptions DEF TypeInv, TypeOK, CacheOK
      <4> QED
        BY <3>2, <4>1 DEF TypeInv, TypeOK
    <3>5. began'[c] <= keptAt'[r] + ConfigTTL
      BY <2>2, <3>2, <3>3, <3>4
    <3>6. ConfigKey(query'[r]) = ConfigKey(query'[c])
      BY <2>2, <3>2
    <3> QED
      BY <3>2, <3>5, <3>6 DEF Founded, ConfigKey
  <2> QED
    BY <1>4, <2>1, <2>2 DEF Founded
<1> QED
  BY <1>2, <1>3, <1>4

\* Calls that ask for the same go on doing so.
LEMMA SameStays ==
    ASSUME Grows, NEW c \in Calls, NEW d \in Calls, pc[c] # "idle", pc[d] # "idle", SameSubject(c, d)
    PROVE  SameSubject(c, d)'
<1>1. query'[c] = query[c] /\ query'[d] = query[d]
  BY DEF Grows, CallStays
<1> QED
  BY <1>1 DEF SameSubject

\* An entry that stays is still one of its key.
LEMMA EntryStays ==
    ASSUME TypeInv, TypeInv', Grows, NEW k \in CacheKeys, EntryOK(k), Keeps(k)
    PROVE  EntryOK(k)'
<1> SUFFICES ASSUME cache'[k] # NULL PROVE EntryOf(k, cache[k].value, cache[k].expiresAt)'
  BY DEF EntryOK, Keeps
<1>1. cache[k] # NULL /\ cache[k] \in Entries
  BY Assumptions DEF Keeps, TypeInv, TypeOK, CacheOK, Entries
<1>2. cache[k].value \in Calls /\ cache[k].expiresAt \in Nat
  BY <1>1 DEF Entries
<1> PICK v \in Calls, until \in Nat : v = cache[k].value /\ until = cache[k].expiresAt
  BY <1>2
<1>3. cache'[k].value = v /\ cache'[k].expiresAt = until
  BY DEF Keeps
<1>4. EntryOf(k, v, until)
  BY <1>1 DEF EntryOK
<1>5. pc[v] # "idle"
  BY <1>4, NoSteps DEF EntryOf
<1>6. /\ query'[v] = query[v] /\ (LiveChecked(v) => LiveChecked(v)') /\ (ConfigRead(v) => ConfigRead(v)')
      /\ pc[v] = "done" => pc'[v] = "done" /\ ended'[v] = ended[v]
      /\ keptAt[v] # NULL => keptAt'[v] # NULL /\ keptAt'[v] >= keptAt[v]
      /\ v \in accepted => v \in accepted'
  BY <1>5, SeenStays DEF Grows, CallStays
<1>7. EntryOf(k, v, until)'
  <2>1. CASE /\ query[v] \in Queries /\ query[v].op # "export" /\ k = Key(query[v]) /\ pc[v] = "done"
             /\ query[v].op = "live" => LiveChecked(v) /\ until <= ended[v] + MostRefresh
    BY <1>6, <2>1 DEF EntryOf, Key
  <2>2. CASE keptAt[v] # NULL /\ k = ConfigKey(query[v]) /\ ConfigRead(v) /\ until <= keptAt[v] + ConfigTTL
    <3>1. ConfigTTL \in Nat /\ keptAt[v] \in Nat /\ keptAt'[v] \in Nat
      <4>1. now \in Nat /\ now' \in Nat
        BY Assumptions DEF TypeInv, TypeOK, CacheOK
      <4>2. keptAt \in [Calls -> (0..now) \cup {NULL}] /\ keptAt' \in [Calls -> (0..now') \cup {NULL}]
        BY DEF TypeInv, TypeOK
      <4>3. keptAt[v] # NULL /\ keptAt'[v] # NULL
        BY <1>6, <2>2
      <4>4. keptAt[v] \in 0..now /\ keptAt'[v] \in 0..now'
        BY <4>2, <4>3
      <4>5. ConfigTTL \in Nat
        BY Assumptions
      <4> QED
        BY <4>1, <4>4, <4>5
    <3>2. until <= keptAt'[v] + ConfigTTL
      <4>1. until <= keptAt[v] + ConfigTTL /\ keptAt'[v] >= keptAt[v] /\ until \in Nat
        BY <1>6, <2>2
      <4> QED
        BY <3>1, <4>1
    <3> QED
      BY <1>6, <2>2, <3>2 DEF EntryOf, ConfigKey
  <2>3. CASE v \in accepted /\ k = DataKey(query[v])
    BY <1>6, <2>3 DEF EntryOf, DataKey
  <2> QED
    BY <1>4, <2>1, <2>2, <2>3 DEF EntryOf
<1> QED
  BY <1>3, <1>7 DEF EntryOf

\* A report that was answered is still what it was.
LEMMA ReportStays ==
    ASSUME TypeInv, TypeInv', Grows, NEW c \in Calls, c \in Reports, ReportOK(c)
    PROVE  ReportOK(c)'
<1>1. reply[c] \in Calls /\ pc[c] = "done"
  BY DEF Reports
<1> PICK r \in Calls : r = reply[c]
  BY <1>1
<1>2. ReportOf(c, r)
  BY DEF ReportOK
<1>3. /\ pc'[c] = "done" /\ reply'[c] = r /\ query'[c] = query[c] /\ began'[c] = began[c]
      /\ pc'[r] = "done" /\ ended'[r] = ended[r] /\ query'[r] = query[r]
      /\ LiveChecked(r) => LiveChecked(r)'
  BY <1>1, <1>2, SeenStays DEF Grows, CallStays, ReportOf
<1>4. SameSubject(r, c)'
  BY <1>1, <1>2, SameStays DEF ReportOf
<1>5. ReportOf(c, r)'
  BY <1>2, <1>3, <1>4 DEF ReportOf
<1> QED
  BY <1>3, <1>5 DEF ReportOK, ReportOf

\* What is left to do is still guarded.
LEMMA GuardStays ==
    ASSUME TypeInv, TypeInv', Grows, NEW c \in Calls, pc[c] # "idle", NEW s
    PROVE  (GuardOf(c, s) => GuardOf(c, s)') /\ (KeepOf(c, s) => KeepOf(c, s)')
<1>1. /\ query'[c] = query[c] /\ (LiveChecked(c) => LiveChecked(c)') /\ (Founded(c) => Founded(c)')
      /\ ConfigRead(c) => ConfigRead(c)'
  BY SeenStays DEF Grows, CallStays
<1>2. CheckShifted(query[c])' = CheckShifted(query[c])
  BY <1>1 DEF CheckShifted, Check
<1> QED
  BY <1>1, <1>2 DEF GuardOf, KeepOf

-----------------------------------------------------------------------------
(* What is found in the cache.                                             *)

\* A key tells what is kept under it, and of what.
LEMMA KeyKinds ==
    ASSUME NEW p, NEW q
    PROVE  /\ p.op \in Reporting => Key(p) # ConfigKey(q)
           /\ p.op \in Reporting /\ q.type \in DataTypes => Key(p) # DataKey(q)
           /\ q.type \in DataTypes => ConfigKey(p) # DataKey(q)
           /\ Key(p) = Key(q) => /\ p.op = q.op /\ p.tenant = q.tenant
                                 /\ p.workspace = q.workspace /\ p.funnel = q.funnel
           /\ ConfigKey(p) = ConfigKey(q) => p.tenant = q.tenant /\ p.workspace = q.workspace /\ p.funnel = q.funnel
           /\ DataKey(p) = DataKey(q) => p.type = q.type /\ p.funnel = q.funnel
BY DEF Key, ConfigKey, DataKey, Reporting, DataTypes

\* An export, or a report.
LEMMA QueryKinds ==
    ASSUME NEW q \in Queries
    PROVE  (q.op = "export" => q.type \in DataTypes) /\ (q.op # "export" => q.op \in Reporting)
BY QueryOK

\* The entry that a look-up finds.
LEMMA Found ==
    ASSUME TypeInv, CopiesInv, NEW k \in CacheKeys, Fresh(k)
    PROVE  \E v \in Calls, until \in Nat :
              /\ Cached(k) = v /\ now <= until /\ EntryOf(k, v, until)
              /\ v \in accepted \/ keptAt[v] # NULL => query[v] \in Queries /\ query[v].op = "export"
<1>1. CacheOK
  BY DEF TypeInv, TypeOK
<1>2. /\ cache[k] # NULL /\ now <= cache[k].expiresAt /\ cache[k].expiresAt \in Nat
      /\ Cached(k) = cache[k].value /\ Cached(k) \in Calls
  BY <1>1, CachedValue
<1>3. EntryOf(k, cache[k].value, cache[k].expiresAt)
  BY <1>2 DEF CopiesInv, EntryOK
<1>4. \A v \in Calls : v \in accepted \/ keptAt[v] # NULL => query[v] \in Queries /\ query[v].op = "export"
  BY CallTypes DEF CallOK, IsExport
<1> QED
  BY <1>2, <1>3, <1>4

\* A report is found under its key.
LEMMA ReportFound ==
    ASSUME TypeInv, CopiesInv, NEW c \in Calls, pc[c] # "idle", query[c] \in Queries, query[c].op # "export",
           NEW r \in Calls, Cached(Key(query[c])) = r
    PROVE  ReportOf(c, r)
<1> DEFINE k == Key(query[c])
<1>1. k \in CacheKeys /\ query[c].op \in Reporting /\ CacheOK
  BY QueryOK, QueryKinds DEF TypeInv, TypeOK
<1>2. Fresh(k)
  BY <1>1, CachedValue, Assumptions
<1>3. PICK until \in Nat : now <= until /\ EntryOf(k, r, until)
                           /\ (r \in accepted \/ keptAt[r] # NULL => query[r] \in Queries /\ query[r].op = "export")
  BY <1>1, <1>2, Found
<1>4. /\ query[r] \in Queries /\ query[r].op # "export" /\ k = Key(query[r]) /\ pc[r] = "done"
      /\ query[r].op = "live" => LiveChecked(r) /\ until <= ended[r] + MostRefresh
  BY <1>1, <1>3, KeyKinds, QueryKinds DEF EntryOf
<1>5. SameSubject(r, c)
  BY <1>4, KeyKinds DEF SameSubject
<1>6. query[c].op = "live" => began[c] <= ended[r] + MostRefresh
  <2>1. began[c] \in 0..now /\ ended[r] \in 0..now /\ now \in Nat /\ MostRefresh \in Nat
    BY Assumptions DEF TypeInv, TypeOK, CacheOK
  <2>2. query[c].op = "live" => until <= ended[r] + MostRefresh
    BY <1>4, <1>5 DEF SameSubject
  <2> QED
    BY <1>3, <2>1, <2>2
<1> QED
  BY <1>4, <1>5, <1>6 DEF ReportOf, SameSubject

\* A configuration is found under its key.
LEMMA ConfigFound ==
    ASSUME TypeInv, CopiesInv, NEW c \in Calls, query[c] \in Queries, query[c].op = "export",
           Fresh(ConfigKey(query[c]))
    PROVE  Founded(c)
<1> DEFINE k == ConfigKey(query[c])
<1>1. k \in CacheKeys
  BY QueryOK
<1>2. PICK v \in Calls, until \in Nat :
          /\ now <= until /\ EntryOf(k, v, until)
          /\ v \in accepted \/ keptAt[v] # NULL => query[v] \in Queries /\ query[v].op = "export"
  BY <1>1, Found
<1>3. keptAt[v] # NULL /\ k = ConfigKey(query[v]) /\ ConfigRead(v) /\ until <= keptAt[v] + ConfigTTL
  BY <1>2, KeyKinds, QueryKinds DEF EntryOf
<1>4. /\ began[c] \in 0..now /\ now \in Nat /\ keptAt[v] \in 0..now /\ ConfigTTL \in Nat /\ v \in Calls /\ until \in Nat
  <2>1. keptAt \in [Calls -> (0..now) \cup {NULL}] /\ began \in [Calls -> 0..now]
    BY DEF TypeInv, TypeOK
  <2>2. now \in Nat /\ ConfigTTL \in Nat
    BY Assumptions DEF TypeInv, TypeOK, CacheOK
  <2> QED
    BY <1>3, <2>1, <2>2
<1>5. began[c] <= keptAt[v] + ConfigTTL
  BY <1>2, <1>3, <1>4
<1> QED
  BY <1>3, <1>4, <1>5 DEF Founded

\* A row that was found or is cached is in the table.
LEMMA FoundedRow ==
    ASSUME NEW c \in Calls, Founded(c)
    PROVE  \E f \in funnels : f.id = query[c].funnel /\ f.tenant = query[c].tenant /\ f.workspace = query[c].workspace
<1>1. CASE ConfigRead(c)
  BY <1>1 DEF ConfigRead, SeenIn
<1>2. ASSUME NEW r \in Calls, ConfigKey(query[r]) = ConfigKey(query[c]), ConfigRead(r)
      PROVE  \E f \in funnels : f.id = query[c].funnel /\ f.tenant = query[c].tenant /\ f.workspace = query[c].workspace
  BY <1>2, KeyKinds DEF ConfigRead, SeenIn
<1> QED
  BY <1>1, <1>2 DEF Founded

\* The data of an export is found under its key, which names no workspace; but
\* both exports have found their funnel, of which there is one.
LEMMA DataFound ==
    ASSUME TypeInv, CopiesInv, NEW c \in Calls, query[c] \in Queries, query[c].op = "export", Founded(c),
           NEW v \in Calls, Cached(DataKey(query[c])) = v
    PROVE  v \in accepted /\ SameSubject(v, c)
<1> DEFINE k == DataKey(query[c])
<1>1. k \in CacheKeys /\ query[c].type \in DataTypes /\ CacheOK
  BY QueryOK DEF TypeInv, TypeOK
<1>2. Fresh(k)
  BY <1>1, CachedValue, Assumptions
<1>3. PICK until \in Nat : EntryOf(k, v, until)
                           /\ (v \in accepted \/ keptAt[v] # NULL => query[v] \in Queries /\ query[v].op = "export")
  BY <1>1, <1>2, Found
<1>4. v \in accepted /\ k = DataKey(query[v]) /\ query[v].op = "export"
  BY <1>1, <1>3, KeyKinds, QueryKinds DEF EntryOf
<1>5. query[v].funnel = query[c].funnel /\ query[v].type = query[c].type
  BY <1>4, KeyKinds
<1>6. Founded(v)
  BY <1>4 DEF CopiesInv
<1>7. query[v].tenant = query[c].tenant /\ query[v].workspace = query[c].workspace
  BY <1>5, <1>6, FoundedRow DEF CopiesInv, UniqueIds
<1> QED
  BY <1>4, <1>5, <1>7 DEF SameSubject

-----------------------------------------------------------------------------
(* What is left to do.                                                     *)

\* A row that is not archived has not been archived before.
LEMMA RowsSeen ==
    ASSUME NEW i, NEW t, NEW w, NEW since, Rows(i, t, w) # {}
    PROVE  SeenIn(funnels, since, i, t, w)
BY DEF Rows, SeenIn

\* What a task knows when it goes on after its first step.
Passed(t) ==
    /\ Head(todo[t]) = CheckShifted(query[t[1]]) => LiveChecked(t[1])
    /\ Head(todo[t]).do \in {"config", "readConfig"} => Founded(t[1])
    /\ Head(todo[t]).do = "readConfig" => ConfigRead(t[1])

\* A task that goes on has found what its first step looks for.
LEMMA GoesOn ==
    ASSUME TypeInv, CopiesInv, NEW t \in Tasks, Step(t) \/ Fault(t), todo[t] # <<>>,
           todo'[t] = Tail(todo[t]), Tail(todo[t]) # <<>>
    PROVE  Passed(t)
<1> DEFINE c == t[1]
           q == query[c]
           h == Head(todo[t])
<1>1. c \in Calls /\ q \in Queries /\ todo[t] \in Seq(Steps) /\ todo = [s \in Tasks |-> todo[s]]
  BY TaskFacts DEF TypeInv, TypeOK, WellFormed
<1>2. ~Fault(t) /\ Step(t)
  BY <1>1 DEF Fault, TaskFails
<1>3. ~TaskFails(t)
  BY <1>1 DEF TaskFails
<1>4. ASSUME h = CheckShifted(q) PROVE LiveChecked(c)
  <2>1. h.do = "check" /\ h.id = q.tenant /\ h.tenant = q.workspace /\ h.workspace = q.funnel
    BY <1>4 DEF CheckShifted, Check
  <2>2. CheckRow(t)
    BY <1>2, <2>1 DEF Step, LookUpReport, RunQuery, StoreReport, RespondUnkept, LookUpConfig,
       ReadConfig, KeepConfig, StartJob, KeepData, WriteFile, IsNext
  <2>3. Rows(q.tenant, q.workspace, q.funnel) # {}
    BY <1>3, <2>1, <2>2 DEF CheckRow, Either
  <2> QED
    BY <2>3, RowsSeen DEF LiveChecked
<1>5. ASSUME h.do = "readConfig" PROVE ConfigRead(c)
  <2>1. ReadConfig(t)
    BY <1>2, <1>5 DEF Step, LookUpReport, CheckRow, RunQuery, StoreReport, RespondUnkept, LookUpConfig,
       KeepConfig, StartJob, KeepData, WriteFile, IsNext
  <2>2. Rows(q.funnel, q.tenant, q.workspace) # {}
    BY <1>3, <2>1 DEF ReadConfig, Either
  <2> QED
    BY <2>2, RowsSeen DEF ConfigRead
<1>6. ASSUME h.do = "config" PROVE Founded(c)
  <2>1. LookUpConfig(t)
    BY <1>2, <1>6 DEF Step, LookUpReport, CheckRow, RunQuery, StoreReport, RespondUnkept, ReadConfig,
       KeepConfig, StartJob, KeepData, WriteFile, IsNext
  <2>2. q.op = "export"
    BY <1>6, HeadKind DEF Reading
  <2>3. CASE Fresh(ConfigKey(q))
    BY <1>1, <2>2, <2>3, ConfigFound
  <2>4. CASE ~Fresh(ConfigKey(q))
    <3>1. todo'[t] = Given(todo[t])
      BY <1>1, <2>1, <2>4 DEF LookUpConfig, Give, Given
    <3>2. Len(Given(todo[t])) = Len(Tail(todo[t])) + 2
      <4>1. WellFormed(t, todo[t])
        BY DEF TypeInv, TypeOK
      <4> QED
        BY <4>1, GiveWellFormed DEF Given
    <3>3. Len(Tail(todo[t])) \in Nat
      BY <1>1, TailOK, LenProperties
    <3>4. Len(Given(todo[t])) = Len(Tail(todo[t]))
      BY <3>1
    <3>5. \A m, n \in Nat : ~(m = n /\ m = n + 2)
      OBVIOUS
    <3> QED
      BY <3>2, <3>3, <3>4, <3>5
  <2> QED
    BY <2>3, <2>4
<1>7. h.do = "readConfig" => Founded(c)
  BY <1>5 DEF Founded
<1> QED
  BY <1>4, <1>5, <1>6, <1>7 DEF Passed

\* Nothing is guarded where nothing is left.
LEMMA NothingLeft == ASSUME NEW c PROVE GuardOf(c, <<>>) /\ KeepOf(c, <<>>)
BY DEF GuardOf, KeepOf

\* A task that is left alone is guarded as before.
LEMMA GuardsKept ==
    ASSUME TypeInv, TypeInv', CopiesInv, Grows, NEW t \in Tasks, todo'[t] = todo[t]
    PROVE  KeepOK(t)' /\ (t[2] = "request" => GuardOK(t[1])')
<1>1. t[1] \in Calls /\ t = <<t[1], t[2]>>
  BY DEF Tasks
<1> DEFINE c == t[1]
<1>2. KeepOf(c, todo[t]) /\ (t[2] = "request" => GuardOf(c, todo[t]))
  BY <1>1 DEF CopiesInv, KeepOK, GuardOK
<1> PICK s : s = todo[t]
  OBVIOUS
<1>3. KeepOf(c, s)' /\ (t[2] = "request" => GuardOf(c, s)')
  <2>1. CASE s = <<>>
    BY <2>1, NothingLeft DEF GuardOf, KeepOf
  <2>2. CASE s # <<>>
    <3>1. pc[c] # "idle"
      BY <2>2, TaskFacts
    <3> QED
      BY <1>1, <1>2, <3>1, GuardStays
  <2> QED
    BY <2>1, <2>2
<1>4. t[2] = "request" => <<c, "request">> = t
  BY <1>1
<1> QED
  BY <1>3, <1>4 DEF KeepOK, GuardOK, KeepOf, GuardOf

\* What a task leaves is guarded, if what it passed is known.
LEMMA LeftGuarded ==
    ASSUME TypeInv, CopiesInv, NEW t \in Tasks, todo[t] # <<>>, NEW u, Leaves(t, u),
           u = Tail(todo[t]) /\ u # <<>> => Passed(t)
    PROVE  KeepOf(t[1], u) /\ (t[2] = "request" => GuardOf(t[1], u))
<1> DEFINE c == t[1]
           s == todo[t]
           v == Tail(s)
<1>1. /\ c \in Calls /\ t = <<c, t[2]>> /\ s \in Seq(Steps) /\ WellFormed(t, s)
  BY TaskFacts DEF WellFormed
<1>2. KeepOf(c, s) /\ (t[2] = "request" => GuardOf(c, s))
  BY <1>1 DEF CopiesInv, KeepOK, GuardOK
<1>3. /\ Len(s) \in Nat /\ Len(s) >= 1 /\ Head(s) = s[1] /\ v \in Seq(Steps) /\ Len(v) = Len(s) - 1
      /\ \A i \in 1..Len(v) : i + 1 \in 1..Len(s) /\ v[i] = s[i + 1]
  BY <1>1, TailOK
<1>4. Len(v) \in Nat
  BY <1>3, LenProperties
<1> HIDE DEF s, v
<1>5. CASE u = <<>>
  BY <1>5, NothingLeft
<1>6. CASE u = v /\ u # <<>>
  <2>1. Passed(t)
    BY <1>6 DEF s, v
  <2>2. ASSUME NEW i \in 1..Len(v), v[i].do = "keepConfig" PROVE i = 1 /\ ConfigRead(c)
    <3>1. i + 1 \in 1..Len(s) /\ s[i + 1].do = "keepConfig"
      BY <1>3, <2>2
    <3>2. (i + 1 = 1 /\ ConfigRead(c)) \/ (i + 1 = 2 /\ s[1].do = "readConfig")
      BY <1>2, <3>1 DEF KeepOf
    <3> QED
      BY <1>3, <2>1, <3>2 DEF Passed, s
  <2>3. ASSUME t[2] = "request", NEW i \in 1..Len(v), v[i].do = "store", query[c].op = "live"
        PROVE  LiveChecked(c) \/ \E j \in 1..(i - 1) : v[j] = CheckShifted(query[c])
    <3>1. i + 1 \in 1..Len(s) /\ s[i + 1].do = "store"
      BY <1>3, <2>3
    <3>2. CASE LiveChecked(c)
      BY <3>2
    <3>3. ASSUME NEW j \in 1..(i + 1 - 1), s[j] = CheckShifted(query[c])
          PROVE  LiveChecked(c) \/ \E k \in 1..(i - 1) : v[k] = CheckShifted(query[c])
      <4>1. CASE j = 1
        BY <1>3, <2>1, <3>3, <4>1 DEF Passed, s
      <4>2. CASE j # 1
        <5>1. j - 1 \in 1..(i - 1) /\ j - 1 \in 1..Len(v) /\ (j - 1) + 1 = j
          BY <1>4, <4>2
        <5>2. v[j - 1] = s[j]
          BY <1>3, <5>1
        <5> QED
          BY <3>3, <5>1, <5>2
      <4> QED
        BY <4>1, <4>2
    <3> QED
      BY <1>2, <2>3, <3>1, <3>2, <3>3 DEF GuardOf
  <2>4. ASSUME t[2] = "request", NEW i \in 1..Len(v), v[i].do = "start"
        PROVE  Founded(c) \/ \E j \in 1..(i - 1) : v[j].do \in {"config", "readConfig"}
    <3>1. i + 1 \in 1..Len(s) /\ s[i + 1].do = "start"
      BY <1>3, <2>4
    <3>2. CASE Founded(c)
      BY <3>2
    <3>3. ASSUME NEW j \in 1..(i + 1 - 1), s[j].do \in {"config", "readConfig"}
          PROVE  Founded(c) \/ \E k \in 1..(i - 1) : v[k].do \in {"config", "readConfig"}
      <4>1. CASE j = 1
        BY <1>3, <2>1, <3>3, <4>1 DEF Passed, s
      <4>2. CASE j # 1
        <5>1. j - 1 \in 1..(i - 1) /\ j - 1 \in 1..Len(v) /\ (j - 1) + 1 = j
          BY <1>4, <4>2
        <5>2. v[j - 1] = s[j]
          BY <1>3, <5>1
        <5> QED
          BY <3>3, <5>1, <5>2
      <4> QED
        BY <4>1, <4>2
    <3> QED
      BY <1>2, <2>4, <3>1, <3>2, <3>3 DEF GuardOf
  <2> QED
    BY <1>6, <2>2, <2>3, <2>4 DEF KeepOf, GuardOf
<1>7. CASE IsNext(t, "config") /\ u = Given(s)
  <2>1. /\ Len(u) = Len(v) + 2
        /\ u[1].do = "readConfig" /\ u[2].do = "keepConfig"
        /\ \A i \in 3..Len(u) : i - 2 \in 1..Len(v) /\ u[i] = v[i - 2]
    BY <1>1, <1>7, GiveWellFormed DEF Given, s, v
  <2>2. s[1].do = "config" /\ query[c].op = "export"
    BY <1>3, <1>7, HeadKind DEF IsNext, s, Reading
  <2>3. ASSUME NEW i \in 3..Len(u)
        PROVE  i - 1 \in 1..Len(s) /\ u[i] = s[i - 1]
    <3>1. i - 2 \in 1..Len(v) /\ u[i] = v[i - 2] /\ (i - 2) + 1 = i - 1
      BY <2>1, <2>3
    <3> QED
      BY <1>3, <3>1
  <2>4. ASSUME NEW i \in 1..Len(u), u[i].do = "keepConfig" PROVE i = 2
    <3>1. i # 1
      BY <2>1, <2>4
    <3>2. CASE i \in 3..Len(u)
      <4>1. i - 1 \in 1..Len(s) /\ s[i - 1].do = "keepConfig"
        BY <2>3, <2>4, <3>2
      <4>2. i - 1 = 1 \/ s[1].do = "readConfig"
        BY <1>2, <4>1 DEF KeepOf
      <4> QED
        BY <2>2, <3>2, <4>2
    <3>3. Len(u) \in Nat
      BY <1>4, <2>1
    <3> QED
      BY <3>1, <3>2, <3>3
  <2>5. query[c].op # "live"
    BY <2>2
  <2>6. ASSUME NEW i \in 1..Len(u), u[i].do = "start"
        PROVE  \E j \in 1..(i - 1) : u[j].do \in {"config", "readConfig"}
    <3>1. i # 1 /\ 1 \in 1..(i - 1)
      <4>1. i # 1
        BY <2>1, <2>6
      <4> QED
        BY <1>4, <2>1, <4>1
    <3> QED
      BY <2>1, <3>1
  <2> QED
    BY <2>1, <2>4, <2>5, <2>6 DEF KeepOf, GuardOf
<1> QED
  BY <1>5, <1>6, <1>7 DEF Leaves, s, v

\* So every step of a task leaves all tasks guarded.
LEMMA WorksGuarded ==
    ASSUME TypeInv, TypeInv', CopiesInv, Grows, NEW t \in Tasks, NEW u, Works(t, u),
           Step(t) \/ Fault(t)
    PROVE  (\A r \in Tasks : KeepOK(r)') /\ (\A d \in Calls : GuardOK(d)')
<1> DEFINE c == t[1]
<1>1. /\ todo[t] # <<>> /\ Leaves(t, u) /\ todo' = [todo EXCEPT ![t] = u] /\ todo = [s \in Tasks |-> todo[s]]
  BY DEF Works, TypeInv, TypeOK
<1>2. todo'[t] = u /\ \A r \in Tasks \ {t} : todo'[r] = todo[r]
  BY <1>1
<1>3. c \in Calls /\ pc[c] # "idle" /\ t = <<c, t[2]>> /\ t[2] \in {"request", "job"}
  BY <1>1, TaskFacts
<1>4. KeepOf(c, u) /\ (t[2] = "request" => GuardOf(c, u))
  <2>1. u = Tail(todo[t]) /\ u # <<>> => Passed(t)
    BY <1>1, <1>2, GoesOn
  <2> QED
    BY <1>1, <2>1, LeftGuarded
<1>5. KeepOf(c, u)' /\ (t[2] = "request" => GuardOf(c, u)')
  BY <1>3, <1>4, GuardStays
<1>6. KeepOK(t)' /\ (t[2] = "request" => GuardOK(c)')
  BY <1>2, <1>3, <1>5 DEF KeepOK, GuardOK, KeepOf, GuardOf
<1>7. \A r \in Tasks : KeepOK(r)'
  BY <1>2, <1>6, GuardsKept
<1>8. ASSUME NEW d \in Calls PROVE GuardOK(d)'
  <2> DEFINE r == <<d, "request">>
  <2>1. r \in Tasks /\ r[1] = d /\ r[2] = "request"
    BY DEF Tasks
  <2>2. CASE r = t
    BY <1>3, <1>6, <2>2
  <2>3. CASE r # t
    BY <1>2, <2>1, <2>3, GuardsKept
  <2> QED
    BY <2>2, <2>3
<1> QED
  BY <1>7, <1>8

-----------------------------------------------------------------------------
(* Every step keeps the copies right.                                      *)

\* The data of a job stays as it is.
LEMMA DataStays ==
    ASSUME TypeInv, Grows, NEW j \in Calls, DataOK(j),
           jobs'[j] # NULL => jobs[j] # NULL /\ jobs'[j].data = jobs[j].data
    PROVE  DataOK(j)'
<1> SUFFICES ASSUME jobs'[j] # NULL, jobs'[j].data # NULL
             PROVE  (jobs[j].data \in accepted /\ SameSubject(jobs[j].data, j))'
  BY DEF DataOK
<1>1. jobs[j] # NULL /\ jobs[j].data # NULL /\ jobs'[j].data = jobs[j].data
  OBVIOUS
<1>2. jobs[j].data \in accepted /\ SameSubject(jobs[j].data, j)
  BY <1>1 DEF DataOK
<1>3. accepted \subseteq Calls
  BY DEF TypeInv, TypeOK
<1> PICK d \in Calls : d = jobs[j].data
  BY <1>2, <1>3
<1>4. d \in accepted /\ SameSubject(d, j) /\ jobs'[j].data = d
  BY <1>1, <1>2
<1>5. pc[d] # "idle" /\ pc[j] # "idle"
  BY <1>1, <1>4, NoSteps
<1>6. SameSubject(d, j)' /\ accepted \subseteq accepted'
  BY <1>4, <1>5, SameStays DEF Grows
<1> QED
  BY <1>4, <1>6 DEF SameSubject

\* What a report rests on stays as it is.
LEMMA OriginStays ==
    ASSUME TypeInv, TypeInv', Grows, NEW c \in Calls, NEW r \in Calls, pc[c] # "idle", ReportOf(c, r)
    PROVE  ReportOf(c, r)'
<1>1. /\ query[c] \in Queries /\ query[r] \in Queries /\ query[c].op # "export"
      /\ pc[r] = "done" /\ SameSubject(r, c)
      /\ query[c].op = "live" => LiveChecked(r) /\ began[c] <= ended[r] + MostRefresh
  BY DEF ReportOf
<1>2. /\ query'[c] = query[c] /\ query'[r] = query[r] /\ pc'[r] = "done"
      /\ began'[c] = began[c] /\ ended'[r] = ended[r]
  BY <1>1 DEF Grows, CallStays
<1>3. SameSubject(r, c)' /\ (LiveChecked(r) => LiveChecked(r)')
  BY <1>1, SameStays, SeenStays
<1> QED
  BY <1>1, <1>2, <1>3 DEF ReportOf

\* No step makes an id one of two rows.
LEMMA IdsStay ==
    ASSUME TypeInv, UniqueIds, Next
    PROVE  UniqueIds'
<1>1. CASE UNCHANGED funnels
  BY <1>1 DEF UniqueIds
<1>2. ASSUME NEW f \in funnels, Archive(f) PROVE UniqueIds'
  <2> DEFINE g == [f EXCEPT !.archivedAt = now]
  <2>1. funnels' = (funnels \ {f}) \cup {g}
    BY <1>2 DEF Archive
  <2>2. g.id = f.id
    BY DEF TypeInv, TypeOK, Row
  <2> HIDE DEF g
  <2> QED
    BY <2>1, <2>2 DEF UniqueIds
<1>3. UNCHANGED funnels \/ \E f \in funnels : Archive(f)
  <2>1. ASSUME NEW c \in Calls, Begin(c) \/ AskStatus(c) \/ Starts(c) PROVE UNCHANGED funnels
    BY <2>1 DEF Begin, AskStatus, Starts
  <2>2. ASSUME NEW t \in Tasks, NEW u, Works(t, u) PROVE UNCHANGED funnels
    BY <2>2 DEF Works
  <2>3. CASE Outside
    BY <2>3 DEF Outside, Invalidate, Tick, Expire
  <2>4. CASE Restart
    BY <2>4 DEF Restart
  <2> QED
    BY <2>1, <2>2, <2>3, <2>4, StepKind
<1> QED
  BY <1>1, <1>2, <1>3

\* What a step has to show: what is new is right, and what is left is guarded.
LEMMA CopiesStep ==
    ASSUME TypeInv, TypeInv', CopiesInv, Grows, UniqueIds',
           \A k \in CacheKeys : Keeps(k) \/ EntryOK(k)',
           \A c \in Calls : (c \in Reports)' => c \in Reports \/ ReportOf(c, reply[c])',
           \A c \in Calls : DataOK(c)' \/ (jobs'[c] # NULL => jobs[c] # NULL /\ jobs'[c].data = jobs[c].data),
           \A c \in Calls : c \in accepted' => c \in accepted \/ Founded(c)',
           \A c \in Calls : GuardOK(c)',
           \A t \in Tasks : KeepOK(t)'
    PROVE  CopiesInv'
<1>1. \A k \in CacheKeys : EntryOK(k)'
  BY EntryStays DEF CopiesInv
<1>2. ASSUME NEW c \in Calls PROVE ReportOK(c)' /\ DataOK(c)' /\ (c \in accepted' => Founded(c)')
  <2>1. ReportOK(c)'
    <3>1. CASE c \in Reports
      BY <3>1, ReportStays DEF CopiesInv
    <3>2. CASE c \notin Reports
      BY <3>2 DEF ReportOK
    <3> QED
      BY <3>1, <3>2
  <2>2. DataOK(c)'
    BY DataStays DEF CopiesInv
  <2>3. ASSUME c \in accepted PROVE Founded(c)'
    <3>1. Founded(c) /\ pc[c] # "idle"
      BY <2>3, NoSteps DEF CopiesInv
    <3> QED
      BY <3>1, SeenStays
  <2> QED
    BY <2>1, <2>2, <2>3
<1> QED
  BY <1>1, <1>2 DEF CopiesInv

\* A report that is to be kept has been checked, and a job that is to be
\* started has its configuration.
LEMMA FirstGuards ==
    ASSUME TypeInv, CopiesInv, NEW t \in Tasks, todo[t] # <<>>
    PROVE  LET c == t[1]
               d == Head(todo[t]).do
           IN /\ t[2] = "request" /\ d = "store" /\ query[c].op = "live" => LiveChecked(c)
              /\ t[2] = "request" /\ d = "start" => Founded(c)
              /\ d = "keepConfig" => ConfigRead(c)
<1> DEFINE c == t[1]
           s == todo[t]
<1>1. c \in Calls /\ t = <<c, t[2]>> /\ s \in Seq(Steps)
  BY TaskFacts DEF WellFormed
<1>2. KeepOf(c, s) /\ (t[2] = "request" => GuardOf(c, s))
  BY <1>1 DEF CopiesInv, KeepOK, GuardOK
<1>3. 1 \in 1..Len(s) /\ Head(s) = s[1]
  BY <1>1, TailOK
<1> HIDE DEF s
<1> QED
  BY <1>2, <1>3 DEF KeepOf, GuardOf, s

\* What a task puts into the cache.
LEMMA WorksEntries ==
    ASSUME TypeInv, TypeInv', CopiesInv, Grows, NEW t \in Tasks, (Step(t) /\ ~StartJob(t)) \/ Fault(t)
    PROVE  \A k \in CacheKeys : Keeps(k) \/ EntryOK(k)'
<1> DEFINE c == t[1]
           q == query[c]
<1>1. todo[t] # <<>>
  BY DEF Step, LookUpReport, CheckRow, RunQuery, StoreReport, RespondUnkept, LookUpConfig, ReadConfig,
     KeepConfig, StartJob, KeepData, WriteFile, Fault, IsNext
<1>2. /\ CacheOK /\ now \in Nat /\ MostRefresh \in Nat /\ ConfigTTL \in Nat
      /\ {ReportTTL, DataTTL, ConfigTTL} \subseteq TTLs
  BY Assumptions DEF TypeInv, TypeOK, CacheOK
<1>3. c \in Calls /\ q \in Queries /\ pc[c] # "idle" /\ q # NULL
  BY <1>1, TaskFacts, QueryOK
<1>4. query'[c] = q
  BY <1>3 DEF Grows, CallStays
<1>5. CASE UNCHANGED cache
  BY <1>5 DEF Keeps
<1>6. CASE LookUpReport(t)
  <2>1. Key(q) \in CacheKeys
    BY <1>1, <1>3, <1>6, HeadKind, QueryOK DEF LookUpReport, IsNext
  <2>2. UNCHANGED now /\ Get(Key(q))
    BY <1>6 DEF LookUpReport
  <2> QED
    BY <1>2, <2>1, <2>2, GetKeeps
<1>7. CASE LookUpConfig(t)
  <2>1. ConfigKey(q) \in CacheKeys
    BY <1>1, <1>3, <1>7, HeadKind, QueryOK DEF LookUpConfig, IsNext, Reading
  <2>2. UNCHANGED now /\ Get(ConfigKey(q))
    BY <1>7 DEF LookUpConfig
  <2> QED
    BY <1>2, <2>1, <2>2, GetKeeps
<1>8. CASE StoreReport(t)
  <2>1. /\ q.op # "export" /\ t[2] = "request" /\ (q.op = "live" => LiveChecked(c))
    BY <1>1, <1>8, HeadKind, FirstGuards DEF StoreReport, IsNext
  <2>2. /\ Key(q) \in CacheKeys /\ Lifetime(q) \in TTLs /\ Lifetime(q) \in Nat
        /\ q.op = "live" => Lifetime(q) <= MostRefresh
    BY <1>3, <2>1, QueryOK, LifetimeOK
  <2> PICK k \in CacheKeys, until \in Nat : k = Key(q) /\ until = now + Lifetime(q)
    BY <1>2, <2>2
  <2>3. UNCHANGED now /\ Set(k, c, Lifetime(q)) /\ Answer(c, c)
    BY <1>8 DEF StoreReport
  <2>4. /\ cache'[k].value = c /\ cache'[k].expiresAt = until
        /\ \A j \in CacheKeys \ {k} : Keeps(j)
    BY <1>2, <1>3, <2>2, <2>3, SetKeeps
  <2>5. pc'[c] = "done" /\ ended'[c] = now
    BY <1>3, <2>3 DEF Answer, TypeInv, TypeOK
  <2>6. q.op = "live" => LiveChecked(c)' /\ now + Lifetime(q) <= ended'[c] + MostRefresh
    <3>1. LiveChecked(c) => LiveChecked(c)'
      BY <1>3, SeenStays
    <3> QED
      BY <1>2, <2>1, <2>2, <2>5, <3>1
  <2>7. EntryOf(k, c, until)'
    BY <1>3, <1>4, <2>1, <2>5, <2>6 DEF EntryOf, Key
  <2>8. EntryOK(k)'
    BY <2>4, <2>7 DEF EntryOK, EntryOf
  <2> QED
    BY <2>4, <2>8
<1>9. CASE KeepConfig(t)
  <2>1. ConfigKey(q) \in CacheKeys /\ ConfigRead(c)
    BY <1>1, <1>3, <1>9, HeadKind, QueryOK, FirstGuards DEF KeepConfig, IsNext, Reading
  <2> PICK k \in CacheKeys, until \in Nat : k = ConfigKey(q) /\ until = now + ConfigTTL
    BY <1>2, <2>1, Assumptions
  <2>2. UNCHANGED now /\ Set(k, c, ConfigTTL) /\ keptAt' = [keptAt EXCEPT ![c] = now]
    BY <1>9 DEF KeepConfig
  <2>3. /\ cache'[k].value = c /\ cache'[k].expiresAt = until
        /\ \A j \in CacheKeys \ {k} : Keeps(j)
    BY <1>2, <1>3, <2>1, <2>2, SetKeeps
  <2>4. keptAt'[c] = now /\ now # NULL
    BY <1>2, <1>3, <2>2, Assumptions DEF TypeInv, TypeOK
  <2>5. ConfigRead(c)'
    BY <1>3, <2>1, SeenStays
  <2>6. EntryOf(k, c, until)'
    BY <1>2, <1>4, <2>4, <2>5 DEF EntryOf, ConfigKey
  <2>7. EntryOK(k)'
    BY <2>3, <2>6 DEF EntryOK, EntryOf
  <2> QED
    BY <2>3, <2>7
<1>10. CASE KeepData(t)
  <2>1. t[2] = "job"
    BY <1>1, <1>10, HeadKind DEF KeepData, IsNext
  <2>2. c \in accepted /\ q.op = "export" /\ DataKey(q) \in CacheKeys
    BY <1>1, <1>3, <2>1, TaskFacts, QueryOK
  <2> PICK k \in CacheKeys : k = DataKey(q)
    BY <2>2
  <2>3. UNCHANGED <<now, accepted>> /\ Set(k, c, DataTTL)
    BY <1>10 DEF KeepData, history
  <2>4. /\ cache'[k].value = c
        /\ \A j \in CacheKeys \ {k} : Keeps(j)
    BY <1>2, <1>3, <2>2, <2>3, SetKeeps
  <2>5. EntryOK(k)'
    BY <1>4, <2>2, <2>3, <2>4 DEF EntryOK, EntryOf, DataKey
  <2> QED
    BY <2>4, <2>5
<1>11. UNCHANGED cache \/ LookUpReport(t) \/ LookUpConfig(t) \/ StoreReport(t) \/ KeepConfig(t) \/ KeepData(t)
  BY DEF Step, CheckRow, RunQuery, RespondUnkept, ReadConfig, WriteFile, Fault, Either
<1> QED
  BY <1>5, <1>6, <1>7, <1>8, <1>9, <1>10, <1>11

\* What a task answers.
LEMMA WorksReports ==
    ASSUME TypeInv, TypeInv', CopiesInv, Grows, NEW t \in Tasks, (Step(t) /\ ~StartJob(t)) \/ Fault(t),
           NEW d \in Calls, (d \in Reports)', d \notin Reports
    PROVE  ReportOf(d, reply[d])'
<1> DEFINE c == t[1]
           q == query[c]
<1>1. todo[t] # <<>>
  BY DEF Step, LookUpReport, CheckRow, RunQuery, StoreReport, RespondUnkept, LookUpConfig, ReadConfig,
     KeepConfig, StartJob, KeepData, WriteFile, Fault, IsNext
<1>2. /\ c \in Calls /\ q \in Queries /\ pc[c] # "idle" /\ query'[c] = q
      /\ began[c] \in 0..now /\ now \in Nat /\ began'[c] = began[c] /\ MostRefresh \in Nat
  <2>1. c \in Calls /\ q \in Queries /\ pc[c] # "idle"
    BY <1>1, TaskFacts
  <2> QED
    BY <2>1, Assumptions DEF Grows, CallStays, TypeInv, TypeOK, CacheOK
<1>3. /\ pc'[d] = "done" /\ reply'[d] \in Calls
      /\ ~(pc[d] = "done" /\ reply[d] \in Calls)
  BY DEF Reports
<1>4. /\ pc \in [Calls -> {"idle", "running", "done", "lost"}]
      /\ reply \in [Calls -> Calls \cup {NULL} \cup JobReplies] /\ ended \in [Calls -> 0..now]
  BY DEF TypeInv, TypeOK
<1>5. \A r : Answer(c, r) => d = c /\ reply'[c] = r /\ r \in Calls /\ pc'[c] = "done" /\ ended'[c] = now
  BY <1>2, <1>3, <1>4 DEF Answer
<1>6. NoAnswer => FALSE
  BY <1>3 DEF NoAnswer
<1>7. TaskFails(t) => FALSE
  <2>1. NULL \notin Calls
    BY Assumptions
  <2> QED
    BY <1>5, <1>6, <2>1 DEF TaskFails, Catch
<1>8. CASE LookUpReport(t)
  <2> DEFINE r == Cached(Key(q))
  <2>1. Answer(c, r)
    BY <1>6, <1>8 DEF LookUpReport
  <2>2. d = c /\ r \in Calls /\ reply'[c] = r
    BY <1>5, <2>1
  <2>3. q.op # "export"
    BY <1>1, <1>8, HeadKind DEF LookUpReport, IsNext
  <2> PICK v \in Calls : v = r
    BY <2>2
  <2>4. ReportOf(c, v)
    BY <1>2, <2>3, ReportFound
  <2>5. ReportOf(c, v)'
    BY <1>2, <2>4, OriginStays
  <2>6. reply'[c] = v
    BY <2>2
  <2> QED
    BY <2>2, <2>5, <2>6 DEF ReportOf, SameSubject
<1>9. CASE StoreReport(t) \/ RespondUnkept(t)
  <2>1. Answer(c, c)
    BY <1>9 DEF StoreReport, RespondUnkept
  <2>2. d = c /\ reply'[c] = c /\ pc'[c] = "done" /\ ended'[c] = now
    BY <1>5, <2>1
  <2>3. q.op # "export" /\ (q.op = "live" => LiveChecked(c))
    <3>1. CASE StoreReport(t)
      BY <1>1, <3>1, HeadKind, FirstGuards DEF StoreReport, IsNext
    <3>2. CASE RespondUnkept(t)
      <4>1. Head(todo[t]).do = "respond"
        BY <3>2 DEF RespondUnkept, IsNext
      <4>2. t[2] = "request" /\ q.op # "export" /\ "respond" \in OpKinds(q)
        BY <1>1, <4>1, HeadKind
      <4>3. q.op = "users"
        BY <4>2 DEF OpKinds, Asking
      <4> QED
        BY <4>3
    <3> QED
      BY <1>9, <3>1, <3>2
  <2>4. q.op = "live" => LiveChecked(c)' /\ began'[c] <= ended'[c] + MostRefresh
    BY <1>2, <2>2, <2>3, SeenStays
  <2>5. ReportOf(c, c)'
    BY <1>2, <2>2, <2>3, <2>4 DEF ReportOf, SameSubject
  <2> QED
    BY <2>2, <2>5 DEF ReportOf, SameSubject
<1>10. LookUpReport(t) \/ StoreReport(t) \/ RespondUnkept(t) \/ NoAnswer \/ TaskFails(t)
  BY DEF Step, CheckRow, RunQuery, LookUpConfig, ReadConfig, KeepConfig, KeepData, WriteFile, Fault,
     Either, NoAnswer, history
<1> QED
  BY <1>6, <1>7, <1>8, <1>9, <1>10

\* Of what a job is made.
LEMMA WorksData ==
    ASSUME TypeInv, Grows, NEW t \in Tasks, NEW u, Works(t, u), NEW j \in Calls
    PROVE  DataOK(j)' \/ (jobs'[j] # NULL => jobs[j] # NULL /\ jobs'[j].data = jobs[j].data)
<1> DEFINE c == t[1]
<1>1. CASE UNCHANGED jobs
  BY <1>1
<1>2. ASSUME t[2] = "job", NEW r \in Jobs, jobs' = [jobs EXCEPT ![c] = r],
             r.data = jobs[c].data \/ r.data = c
      PROVE  DataOK(j)' \/ (jobs'[j] # NULL => jobs[j] # NULL /\ jobs'[j].data = jobs[j].data)
  <2>1. c \in accepted /\ jobs[c] \in Jobs /\ c \in Calls /\ jobs[c] # NULL
    BY <1>2, TaskFacts, Assumptions DEF Works
  <2>2. jobs'[c] = r /\ \A i \in Calls \ {c} : jobs'[i] = jobs[i]
    BY <1>2, <2>1 DEF TypeInv, TypeOK
  <2>3. CASE j = c /\ r.data = c
    <3>1. c \in accepted'
      BY <2>1 DEF Grows
    <3> QED
      BY <2>2, <2>3, <3>1 DEF DataOK, SameSubject
  <2> QED
    BY <1>2, <2>1, <2>2, <2>3
<1> QED
  BY <1>1, <1>2 DEF Works

\* A step of a task, other than the start of a job, keeps the copies right.
LEMMA WorksCopies ==
    ASSUME TypeInv, TypeInv', CopiesInv, Grows, UniqueIds', NEW t \in Tasks, (Step(t) /\ ~StartJob(t)) \/ Fault(t)
    PROVE  CopiesInv'
<1> PICK u : Works(t, u)
  BY StepWorks
<1>1. \A k \in CacheKeys : Keeps(k) \/ EntryOK(k)'
  BY WorksEntries
<1>2. \A c \in Calls : (c \in Reports)' => c \in Reports \/ ReportOf(c, reply[c])'
  BY WorksReports
<1>3. \A c \in Calls : DataOK(c)' \/ (jobs'[c] # NULL => jobs[c] # NULL /\ jobs'[c].data = jobs[c].data)
  BY WorksData
<1>4. \A c \in Calls : c \in accepted' => c \in accepted \/ Founded(c)'
  BY DEF Works
<1>5. (\A r \in Tasks : KeepOK(r)') /\ (\A d \in Calls : GuardOK(d)')
  BY WorksGuarded
<1> QED
  BY <1>1, <1>2, <1>3, <1>4, <1>5, CopiesStep

\* The plans of live metrics and of an export are guarded from the start.
LEMMA PlanGuards ==
    ASSUME NEW q \in Queries, NEW i \in 1..Len(Plan(q))
    PROVE  LET s == Plan(q)
           IN /\ s[i].do = "store" /\ q.op = "live" => \E j \in 1..(i - 1) : s[j] = CheckShifted(q)
              /\ s[i].do = "start" => \E j \in 1..(i - 1) : s[j].do \in {"config", "readConfig"}
              /\ s[i].do # "keepConfig"
<1> DEFINE s == Plan(q)
<1>1. s[i].do = "store" /\ q.op = "live" => \E j \in 1..(i - 1) : s[j] = CheckShifted(q)
  <2>1. CASE q.op = "live"
    <3>1. s = <<LookUp, CheckShifted(q), Query("getLiveMetrics"), Query("getFunnelSteps"),
               Query("detectAnomalies"), Store>>
      BY <2>1 DEF Plan, LivePlan, ReadSteps
    <3>2. LookUp.do # "store" /\ CheckShifted(q).do # "store" /\ \A m : Query(m).do # "store"
      BY DEF LookUp, CheckShifted, Check, Query
    <3>3. s[i].do = "store" => i = 6
      BY <3>1, <3>2
    <3>4. s[2] = CheckShifted(q) /\ 2 \in 1..(6 - 1)
      BY <3>1
    <3> QED
      BY <3>3, <3>4
  <2> QED
    BY <2>1
<1>2. /\ s[i].do = "start" => \E j \in 1..(i - 1) : s[j].do \in {"config", "readConfig"}
      /\ s[i].do # "keepConfig"
  <2>1. CASE q.op = "export"
    <3>1. s = <<[do |-> "config"], [do |-> "config"], [do |-> "start"]>>
      BY <2>1, ExportPlanOK
    <3>2. s[1].do = "config" /\ (i = 3 => 1 \in 1..(i - 1))
      BY <3>1
    <3>3. s[i].do = "start" => i = 3
      BY <3>1
    <3>4. s[i].do # "keepConfig"
      BY <3>1
    <3> QED
      BY <3>2, <3>3, <3>4
  <2>2. CASE q.op # "export"
    <3>1. s[i].do \in OpKinds(q)
      BY <2>2, ReportPlan DEF Part
    <3> QED
      BY <2>2, <3>1 DEF OpKinds, Asking
  <2> QED
    BY <2>1, <2>2
<1> QED
  BY <1>1, <1>2

\* If no task is given work, all are guarded as before, but those that were
\* given it have to be seen to.
LEMMA OthersGuarded ==
    ASSUME TypeInv, TypeInv', CopiesInv, Grows, NEW given,
           \A t \in Tasks \ given : todo'[t] \in {<<>>, todo[t]},
           \A t \in Tasks \cap given : KeepOK(t)' /\ (t[2] = "request" => GuardOK(t[1])')
    PROVE  (\A t \in Tasks : KeepOK(t)') /\ (\A c \in Calls : GuardOK(c)')
<1>1. ASSUME NEW t \in Tasks PROVE KeepOK(t)' /\ (t[2] = "request" => GuardOK(t[1])')
  <2>1. t = <<t[1], t[2]>>
    BY DEF Tasks
  <2>2. CASE todo'[t] = todo[t]
    BY <2>2, GuardsKept
  <2>3. CASE todo'[t] = <<>>
    BY <2>1, <2>3 DEF KeepOK, GuardOK, KeepOf, GuardOf
  <2> QED
    BY <2>2, <2>3
<1>2. \A c \in Calls : <<c, "request">> \in Tasks /\ <<c, "request">>[1] = c /\ <<c, "request">>[2] = "request"
  BY DEF Tasks
<1> QED
  BY <1>1, <1>2

\* No task is given work by what only stops tasks or leaves them alone.
LEMMA NoneGiven ==
    ASSUME TypeInv, TypeInv', CopiesInv, Grows, \A t \in Tasks : todo'[t] \in {<<>>, todo[t]}
    PROVE  (\A t \in Tasks : KeepOK(t)') /\ (\A c \in Calls : GuardOK(c)')
<1>1. \A t \in Tasks \cap {} : KeepOK(t)' /\ (t[2] = "request" => GuardOK(t[1])')
  OBVIOUS
<1>2. \A t \in Tasks \ {} : todo'[t] \in {<<>>, todo[t]}
  OBVIOUS
<1> QED
  BY <1>1, <1>2, OthersGuarded

\* A query arrives.
LEMMA BeginCopies ==
    ASSUME TypeInv, TypeInv', CopiesInv, Grows, UniqueIds', NEW c \in Calls, Begin(c)
    PROVE  CopiesInv'
<1> DEFINE t == <<c, "request">>
<1> PICK q \in Queries : /\ query' = [query EXCEPT ![c] = q]
                         /\ IF Refused(q)
                            THEN Answer(c, NULL) /\ UNCHANGED todo
                            ELSE /\ pc' = [pc EXCEPT ![c] = "running"]
                                 /\ todo' = [todo EXCEPT ![<<c, "request">>] = Plan(q)]
                                 /\ UNCHANGED <<reply, ended>>
  BY DEF Begin
<1>1. /\ todo = [r \in Tasks |-> todo[r]] /\ t \in Tasks /\ t[1] = c
      /\ pc \in [Calls -> {"idle", "running", "done", "lost"}]
      /\ reply \in [Calls -> Calls \cup {NULL} \cup JobReplies]
      /\ query \in [Calls -> Queries \cup {NULL}] /\ NULL \notin Calls
  BY Assumptions DEF TypeInv, TypeOK, Tasks
<1>2. UNCHANGED <<cache, jobs, accepted>> /\ query'[c] = q
  BY <1>1 DEF Begin
<1>3. \A k \in CacheKeys : Keeps(k)
  BY <1>2 DEF Keeps
<1>4. \A d \in Calls : (d \in Reports)' => d \in Reports
  BY <1>1 DEF Reports, Answer
<1>5. CASE Refused(q)
  <2>1. \A r \in Tasks : todo'[r] = todo[r]
    BY <1>5
  <2>2. (\A r \in Tasks : KeepOK(r)') /\ (\A d \in Calls : GuardOK(d)')
    BY <2>1, NoneGiven
  <2> QED
    BY <1>2, <1>3, <1>4, <2>2, CopiesStep
<1>6. CASE ~Refused(q)
  <2>1. todo'[t] = Plan(q) /\ \A r \in Tasks \ {t} : todo'[r] = todo[r]
    BY <1>1, <1>6
  <2>2. KeepOK(t)' /\ GuardOK(c)'
    BY <1>1, <1>2, <2>1, PlanGuards DEF KeepOK, GuardOK, KeepOf, GuardOf
  <2>3. (\A r \in Tasks : KeepOK(r)') /\ (\A d \in Calls : GuardOK(d)')
    <3>1. \A r \in Tasks \ {t} : todo'[r] \in {<<>>, todo[r]}
      BY <2>1
    <3>2. \A r \in Tasks \cap {t} : KeepOK(r)' /\ (r[2] = "request" => GuardOK(r[1])')
      BY <1>1, <2>2
    <3> QED
      BY <3>1, <3>2, OthersGuarded
  <2> QED
    BY <1>2, <1>3, <1>4, <2>3, CopiesStep
<1> QED
  BY <1>5, <1>6

\* A client asks for a job: what he is told is no report.
LEMMA AskCopies ==
    ASSUME TypeInv, TypeInv', CopiesInv, Grows, UniqueIds', NEW c \in Calls, AskStatus(c)
    PROVE  CopiesInv'
<1>1. UNCHANGED <<cache, jobs, accepted, todo>>
  BY DEF AskStatus
<1>2. \A k \in CacheKeys : Keeps(k)
  BY <1>1 DEF Keeps
<1>3. \A d \in Calls : (d \in Reports)' => d \in Reports
  <2> PICK r \in JobReplies : Answer(c, r)
    BY AskTypes
  <2>1. /\ pc \in [Calls -> {"idle", "running", "done", "lost"}]
        /\ reply \in [Calls -> Calls \cup {NULL} \cup JobReplies] /\ r \notin Calls
    BY Assumptions DEF TypeInv, TypeOK
  <2> QED
    BY <2>1 DEF Reports, Answer
<1>4. \A t \in Tasks : todo'[t] \in {<<>>, todo[t]}
  BY <1>1
<1>5. (\A t \in Tasks : KeepOK(t)') /\ (\A d \in Calls : GuardOK(d)')
  BY <1>4, NoneGiven
<1> QED
  BY <1>1, <1>2, <1>3, <1>5, CopiesStep

\* A job is started, on a configuration and perhaps on data that was found.
LEMMA StartCopies ==
    ASSUME TypeInv, TypeInv', CopiesInv, Grows, UniqueIds', NEW c \in Calls, Starts(c)
    PROVE  CopiesInv'
<1> DEFINE request == <<c, "request">>
           work == <<c, "job">>
           told == [job |-> c, status |-> "processing"]
           found == Cached(DataKey(query[c]))
<1>1. /\ IsNext(request, "start") /\ pc[c] = "running" /\ query[c].op = "export"
      /\ todo' = [todo EXCEPT ![request] = <<>>, ![work] = JobPlan(query[c], found # NULL)]
      /\ jobs' = [jobs EXCEPT ![c] = [status |-> "processing", data |-> found]]
      /\ found \in Calls \cup {NULL}
      /\ accepted' = accepted \cup {c} /\ Answer(c, told)
      /\ \A k \in CacheKeys : Keeps(k)
  BY DEF Starts
<1>2. /\ request \in Tasks /\ work \in Tasks /\ request # work /\ request[1] = c /\ request[2] = "request"
      /\ work[1] = c /\ work[2] = "job" /\ todo[request] # <<>> /\ Head(todo[request]).do = "start"
      /\ todo = [t \in Tasks |-> todo[t]]
  BY <1>1 DEF Tasks, IsNext, TypeInv, TypeOK
<1>3. query[c] \in Queries /\ query'[c] = query[c]
  <2>1. query[c] \in Queries
    BY <1>2, CallTypes DEF CallOK
  <2> QED
    BY <1>1, <2>1 DEF Grows, CallStays
<1>4. Founded(c) /\ Founded(c)'
  <2>1. Founded(c)
    BY <1>2, FirstGuards
  <2> QED
    BY <1>1, <2>1, SeenStays
<1>5. \A d \in Calls : (d \in Reports)' => d \in Reports
  <2>1. told \in JobReplies
    BY DEF JobReplies, Statuses
  <2>2. /\ pc \in [Calls -> {"idle", "running", "done", "lost"}]
        /\ reply \in [Calls -> Calls \cup {NULL} \cup JobReplies] /\ told \notin Calls
    BY <2>1, Assumptions DEF TypeInv, TypeOK
  <2> HIDE DEF told
  <2> QED
    BY <1>1, <2>2 DEF Reports, Answer
<1>6. DataOK(c)'
  <2> PICK v \in Calls \cup {NULL} : v = found
    BY <1>1
  <2>1. jobs'[c].data = v
    BY <1>1 DEF TypeInv, TypeOK
  <2>2. CASE v \in Calls
    <3>1. v \in accepted /\ SameSubject(v, c)
      BY <1>1, <1>3, <1>4, <2>2, DataFound
    <3>2. pc[v] # "idle"
      BY <2>2, <3>1, NoSteps
    <3>3. SameSubject(v, c)' /\ v \in accepted'
      BY <1>1, <2>2, <3>1, <3>2, SameStays
    <3> QED
      BY <2>1, <3>3 DEF DataOK, SameSubject
  <2>3. CASE v = NULL
    BY <2>1, <2>3 DEF DataOK
  <2> QED
    BY <2>2, <2>3
<1>7. \A d \in Calls \ {c} : jobs'[d] = jobs[d]
  BY <1>1 DEF TypeInv, TypeOK
<1>8. (\A t \in Tasks : KeepOK(t)') /\ (\A d \in Calls : GuardOK(d)')
  <2>1. todo'[request] = <<>> /\ \A t \in Tasks \ {request, work} : todo'[t] = todo[t]
    BY <1>1, <1>2
  <2>2. todo'[work] = JobPlan(query[c], found # NULL)
    BY <1>1, <1>2
  <2>3. \A i \in 1..Len(todo'[work]) : todo'[work][i].do # "keepConfig"
    BY <1>1, <1>3, <2>2, JobSteps
  <2>4. KeepOK(work)'
    BY <2>3 DEF KeepOK, KeepOf
  <2>5. \A t \in Tasks \ {work} : todo'[t] \in {<<>>, todo[t]}
    BY <2>1
  <2>6. \A t \in Tasks \cap {work} : KeepOK(t)' /\ (t[2] = "request" => GuardOK(t[1])')
    BY <1>2, <2>4
  <2> QED
    BY <2>5, <2>6, OthersGuarded
<1>9. \A d \in Calls : d \in accepted' => d \in accepted \/ Founded(d)'
  BY <1>1, <1>4
<1>10. \A d \in Calls : DataOK(d)' \/ (jobs'[d] # NULL => jobs[d] # NULL /\ jobs'[d].data = jobs[d].data)
  BY <1>6, <1>7
<1> QED
  BY <1>1, <1>5, <1>8, <1>9, <1>10, CopiesStep

\* Time passes, entries expire, a funnel is archived, or the process restarts.
LEMMA OutsideCopies ==
    ASSUME TypeInv, TypeInv', CopiesInv, Grows, UniqueIds', Outside \/ Restart
    PROVE  CopiesInv'
<1>1. CASE Outside
  <2>1. UNCHANGED <<jobs, pc, todo, reply, accepted>> /\ \A k \in CacheKeys : Keeps(k)
    BY <1>1, OutsideTypes DEF history
  <2>2. \A t \in Tasks : todo'[t] \in {<<>>, todo[t]}
    BY <2>1
  <2>3. (\A t \in Tasks : KeepOK(t)') /\ (\A d \in Calls : GuardOK(d)')
    BY <2>2, NoneGiven
  <2>4. \A d \in Calls : (d \in Reports)' => d \in Reports
    BY <2>1 DEF Reports
  <2> QED
    BY <2>1, <2>3, <2>4, CopiesStep
<1>2. CASE Restart
  <2>1. /\ jobs' = [j \in Calls |-> NULL] /\ todo' = [t \in Tasks |-> <<>>]
        /\ pc' = [c \in Calls |-> IF pc[c] = "running" THEN "lost" ELSE pc[c]]
        /\ UNCHANGED <<reply, accepted>>
    BY <1>2 DEF Restart, history
  <2>2. \A k \in CacheKeys : Keeps(k)
    BY <1>2, RestartTypes
  <2>3. \A t \in Tasks : todo'[t] \in {<<>>, todo[t]}
    BY <2>1
  <2>4. (\A t \in Tasks : KeepOK(t)') /\ (\A d \in Calls : GuardOK(d)')
    BY <2>3, NoneGiven
  <2>5. \A d \in Calls : (d \in Reports)' => d \in Reports
    BY <2>1 DEF Reports
  <2>6. \A d \in Calls : jobs'[d] = NULL
    BY <2>1
  <2> QED
    BY <2>1, <2>2, <2>4, <2>5, <2>6, CopiesStep
<1> QED
  BY <1>1, <1>2

\* At the start there is no copy.
LEMMA InitCopies == Init => CopiesInv
<1> SUFFICES ASSUME Init PROVE CopiesInv
  OBVIOUS
<1>1. /\ cache = [k \in CacheKeys |-> NULL] /\ jobs = [j \in Calls |-> NULL]
      /\ pc = [c \in Calls |-> "idle"] /\ todo = [t \in Tasks |-> <<>>] /\ accepted = {}
  BY DEF Init, CacheInit
<1>2. UniqueIds
  BY BeginningsAssumption DEF Init, UniqueIds
<1>3. \A c \in Calls : <<c, "request">> \in Tasks
  BY DEF Tasks
<1>4. /\ \A c \in Calls : GuardOK(c)
      /\ \A t \in Tasks : KeepOK(t)
  BY <1>1, <1>3, NothingLeft DEF GuardOK, KeepOK
<1>5. /\ \A c \in Calls : ReportOK(c) /\ DataOK(c)
      /\ \A k \in CacheKeys : EntryOK(k)
  BY <1>1 DEF ReportOK, Reports, DataOK, EntryOK
<1> QED
  BY <1>1, <1>2, <1>4, <1>5 DEF CopiesInv

\* Every step keeps the copies right.
LEMMA NextCopies == TypeInv /\ CopiesInv /\ [Next]_vars => CopiesInv'
<1> SUFFICES ASSUME TypeInv, CopiesInv, [Next]_vars PROVE CopiesInv'
  OBVIOUS
<1>1. CASE Next
  <2>1. TypeInv' /\ Grows /\ UniqueIds'
    BY <1>1, NextTypes, NextGrows, IdsStay DEF CopiesInv
  <2>2. ASSUME NEW c \in Calls, Begin(c) \/ AskStatus(c) PROVE CopiesInv'
    BY <2>1, <2>2, BeginCopies, AskCopies
  <2>3. ASSUME NEW t \in Tasks, Step(t) \/ Fault(t) PROVE CopiesInv'
    <3>1. CASE StartJob(t)
      BY <2>1, <3>1, StartShape, StartCopies
    <3>2. CASE ~StartJob(t)
      BY <2>1, <2>3, <3>2, WorksCopies
    <3> QED
      BY <3>1, <3>2
  <2>4. CASE Outside \/ Restart
    BY <2>1, <2>4, OutsideCopies
  <2> QED
    BY <1>1, <2>2, <2>3, <2>4 DEF Next, Outside
<1>2. CASE UNCHANGED vars
  BY <1>2 DEF vars, history, CopiesInv, UniqueIds, EntryOK, EntryOf, ReportOK, Reports, ReportOf, DataOK,
              GuardOK, GuardOf, KeepOK, KeepOf, Founded, LiveChecked, ConfigRead, SeenIn, SameSubject
<1> QED
  BY <1>1, <1>2

\* The copies are right in every reachable state.
LEMMA CopiesAlways == Spec => [](TypeInv /\ CopiesInv)
<1>1. Init => TypeInv /\ CopiesInv
  BY InitTypes, InitCopies
<1>2. TypeInv /\ CopiesInv /\ [Next]_vars => (TypeInv /\ CopiesInv)'
  BY NextTypes, NextCopies
<1> QED
  BY <1>1, <1>2, PTL DEF Spec

\* What a caller gets, and what an export writes, was made for the endpoint,
\* the funnel and the workspace that were asked for.
THEOREM ReportsOwn == Spec => []AnswersOwn
<1>1. ASSUME TypeInv, CopiesInv PROVE AnswersOwn
  <2>1. \A c \in Reports : SameSubject(reply[c], c)
    BY <1>1 DEF CopiesInv, ReportOK, ReportOf, Reports
  <2>2. \A j \in Calls : jobs[j] # NULL /\ jobs[j].data # NULL => SameSubject(jobs[j].data, j)
    BY <1>1 DEF CopiesInv, DataOK
  <2> QED
    BY <2>1, <2>2 DEF AnswersOwn
<1> QED
  BY <1>1, CopiesAlways, PTL

\* A row archived before a time is not among those that were seen since.
LEMMA ArchivedRow ==
    ASSUME TypeInv, UniqueIds, NEW c \in Calls, NEW i, NEW t, NEW w, NEW a \in ArchivedBefore(c, i, t, w)
    PROVE  a \in Nat /\ a < began[c] /\ \A since \in Nat : SeenIn(funnels, since, i, t, w) => since <= a
<1> PICK f \in funnels : /\ f.id = i /\ f.tenant = t /\ f.workspace = w
                         /\ f.archivedAt # NULL /\ f.archivedAt < began[c] /\ a = f.archivedAt
  BY DEF ArchivedBefore
<1>1. a \in 0..now /\ now \in Nat
  BY Assumptions DEF TypeInv, TypeOK, CacheOK
<1>2. ASSUME NEW since \in Nat, SeenIn(funnels, since, i, t, w) PROVE since <= a
  BY <1>1, <1>2 DEF SeenIn, UniqueIds
<1> QED
  BY <1>1, <1>2

\* After a funnel was archived, its live metrics and its exports come from what
\* was read before, and only for as long as copies of it are kept.
THEOREM ArchivedServedFromCopies == Spec => []ArchivedOnlyFromCopies
<1>1. ASSUME TypeInv, CopiesInv PROVE ArchivedOnlyFromCopies
  <2>1. /\ began \in [Calls -> 0..now] /\ now \in Nat /\ UniqueIds /\ accepted \subseteq Calls
    BY <1>1, Assumptions DEF TypeInv, TypeOK, CacheOK, CopiesInv
  <2>2. ASSUME NEW c \in Reports, query[c].op = "live",
               NEW a \in ArchivedBefore(c, query[c].tenant, query[c].workspace, query[c].funnel)
        PROVE  began[reply[c]] <= a /\ began[c] <= ended[reply[c]] + MostRefresh
    <3> PICK r \in Calls : r = reply[c]
      BY DEF Reports
    <3>1. c \in Calls /\ ReportOf(c, r)
      BY <1>1 DEF CopiesInv, ReportOK, Reports
    <3>2. LiveChecked(r) /\ began[c] <= ended[r] + MostRefresh /\ SameSubject(r, c)
      BY <2>2, <3>1 DEF ReportOf
    <3>3. SeenIn(funnels, began[r], query[c].tenant, query[c].workspace, query[c].funnel)
      BY <3>2 DEF LiveChecked, SameSubject
    <3>4. began[r] \in Nat
      BY <2>1
    <3> QED
      BY <1>1, <2>1, <2>2, <3>1, <3>2, <3>3, <3>4, ArchivedRow
  <2>3. ASSUME NEW c \in accepted,
               NEW a \in ArchivedBefore(c, query[c].funnel, query[c].tenant, query[c].workspace)
        PROVE  \E r \in Calls : /\ keptAt[r] # NULL
                                /\ ConfigKey(query[r]) = ConfigKey(query[c])
                                /\ began[r] <= a /\ began[c] <= keptAt[r] + ConfigTTL
    <3>1. c \in Calls /\ Founded(c) /\ began[c] \in Nat /\ \A r \in Calls : began[r] \in Nat
      BY <1>1, <2>1 DEF CopiesInv
    <3>2. /\ a \in Nat /\ a < began[c]
          /\ \A since \in Nat : SeenIn(funnels, since, query[c].funnel, query[c].tenant, query[c].workspace)
                                => since <= a
      BY <1>1, <2>1, <2>3, <3>1, ArchivedRow
    <3>3. ~ConfigRead(c)
      BY <3>1, <3>2 DEF ConfigRead
    <3>4. PICK r \in Calls : /\ keptAt[r] # NULL /\ ConfigKey(query[r]) = ConfigKey(query[c])
                             /\ ConfigRead(r) /\ began[c] <= keptAt[r] + ConfigTTL
      BY <3>1, <3>3 DEF Founded
    <3>5. SeenIn(funnels, began[r], query[c].funnel, query[c].tenant, query[c].workspace)
      BY <3>4, KeyKinds DEF ConfigRead
    <3> QED
      BY <3>1, <3>2, <3>4, <3>5
  <2> QED
    BY <2>2, <2>3 DEF ArchivedOnlyFromCopies
<1> QED
  BY <1>1, CopiesAlways, PTL

-----------------------------------------------------------------------------
(* The analytics of a workspace.                                           *)

Periods == [from : Int, to : Int]
ExportReplies == [export : Nat, status : ExportStates]

\* What is assumed of the constants.
LEMMA AnalyticsConstants ==
    /\ Hour \in Nat \ {0} /\ Day \in Nat \ {0} /\ Skew \in Nat /\ Skew < Hour
    /\ MaxTime \in Nat /\ Values = Calls /\ NULL \notin Calls /\ TTLs \subseteq Nat
    /\ \A q \in AnalyticsQueries :
          /\ q.op \in Cachables => <<q.ws, q.op, q.hash>> \in CacheKeys /\ ReportLifetime[q.op] \in TTLs
          /\ q.op \in Cachables \cup {"events-details"}
          /\ q.span = NULL => q.period \in Periods
          /\ q.span # NULL => q.span \in Nat
          /\ q.op = "timeseries" => q.granularity \in {"hour", "day", "week"}
    /\ Calls \cap ExportReplies = {}
BY AnalyticsAssumption, CacheAssumption DEF Periods, ExportReplies, Cachables

\* The statements of an endpoint, and those a call has still to run.
StatementsIn(op) == UNION {StatementsOf(op)[i] : i \in DOMAIN StatementsOf(op)}
Left(c) == UNION {statements[c][i] : i \in DOMAIN statements[c]}

-----------------------------------------------------------------------------
(* What a statement returns of given tables.                               *)

SelectedIn(X, ws, p) == {e \in X : e.ws = ws /\ Within(e.ts, p)}

ActiveIn(X, Y, ws, p) ==
    {[id |-> x.id, visitor |-> x.visitor, events |-> {e \in SelectedIn(X, ws, p) : e.session = x.id}] :
        x \in {x \in Y : x.ws = ws /\ Within(x.startedAt, p)}}

ReturningIn(X, ws, p) ==
    {v \in Visitors(SelectedIn(X, ws, p)) :
        \E e \in X : e.ws = ws /\ e.visitor = v /\ e.ts < p.from}

ResultsIn(X, Y, s, q, p) ==
    LET E == SelectedIn(X, q.ws, PeriodOf(s, p))
    IN CASE s \in {"top", "previousTop"} -> Rankings(E, TopLimit(s, q))
         [] s \in {"sessions", "previousSessions", "activity"} -> {ActiveIn(X, Y, q.ws, PeriodOf(s, p))}
         [] s = "page" -> Pages(E, q)
         [] s = "summary" -> {[events |-> E, returning |-> ReturningIn(X, q.ws, p)]}
         [] s \in {"counts", "previousCounts", "series", "count"} -> {E}

\* What a statement may return now is what it returns of the tables.
LEMMA ResultsNow ==
    ASSUME NEW s, NEW q, NEW p
    PROVE  Results(s, q, p) = ResultsIn(events, sessions, s, q, p)
BY DEF Results, ResultsIn, Selected, SelectedIn, Active, ActiveIn, Returning, ReturningIn

\* The rows of a table that a report of a period looks at.
Bears(ws, t, q, p) ==
    ws = q.ws /\ t <= p.to /\ (q.op = "users" \/ t >= PreviousPeriod(p).from)

\* The statements of the endpoints, and which of them read of old visitors.
LEMMA EndpointStatements ==
    /\ StatementsIn("overview") = {"counts", "top", "sessions", "previousCounts", "previousTop", "previousSessions"}
    /\ StatementsIn("timeseries") = {"series"}
    /\ StatementsIn("events-top") = {"top", "previousTop"}
    /\ StatementsIn("users") = {"summary", "activity"}
    /\ StatementsIn("events-details") = {"page", "count"}
<1>1. ASSUME NEW A, NEW B PROVE UNION {<<A, B>>[i] : i \in DOMAIN <<A, B>>} = A \cup B
  OBVIOUS
<1>2. ASSUME NEW A PROVE UNION {<<A>>[i] : i \in DOMAIN <<A>>} = A
  OBVIOUS
<1>3. StatementsIn("overview") = {"counts", "top", "sessions"} \cup {"previousCounts", "previousTop", "previousSessions"}
  BY <1>1 DEF StatementsIn, StatementsOf, OverviewPlan
<1>4. StatementsIn("timeseries") = {"series"}
  BY <1>2 DEF StatementsIn, StatementsOf, TimeSeriesPlan
<1>5. StatementsIn("events-top") = {"top"} \cup {"previousTop"}
  BY <1>1 DEF StatementsIn, StatementsOf, TopEventsPlan
<1>6. StatementsIn("users") = {"summary"} \cup {"activity"}
  BY <1>1 DEF StatementsIn, StatementsOf, VisitorsPlan
<1>7. StatementsIn("events-details") = {"page", "count"}
  BY <1>2 DEF StatementsIn, StatementsOf, EventDetailsPlan
<1> QED
  BY <1>3, <1>4, <1>5, <1>6, <1>7

\* An endpoint starts with its statements, and all of them are statements.
LEMMA PlansTyped ==
    ASSUME NEW q \in AnalyticsQueries
    PROVE  /\ StatementsOf(q.op) \in Seq(SUBSET Statements)
           /\ StatementsIn(q.op) \subseteq Statements
           /\ "summary" \in StatementsIn(q.op) => q.op = "users"
<1>1. q.op \in {"overview", "timeseries", "events-top", "users", "events-details"}
  BY AnalyticsConstants DEF Cachables
<1>2. ASSUME NEW A \in SUBSET Statements, NEW B \in SUBSET Statements
      PROVE  <<A, B>> \in Seq(SUBSET Statements) /\ <<A>> \in Seq(SUBSET Statements)
  OBVIOUS
<1>3. StatementsOf(q.op) \in Seq(SUBSET Statements)
  <2>1. OverviewPlan \in Seq(SUBSET Statements)
    BY <1>2 DEF OverviewPlan, Statements
  <2>2. TimeSeriesPlan \in Seq(SUBSET Statements)
    BY <1>2 DEF TimeSeriesPlan, Statements
  <2>3. TopEventsPlan \in Seq(SUBSET Statements)
    BY <1>2 DEF TopEventsPlan, Statements
  <2>4. VisitorsPlan \in Seq(SUBSET Statements)
    BY <1>2 DEF VisitorsPlan, Statements
  <2>5. EventDetailsPlan \in Seq(SUBSET Statements)
    BY <1>2 DEF EventDetailsPlan, Statements
  <2> QED
    BY <1>1, <2>1, <2>2, <2>3, <2>4, <2>5 DEF StatementsOf
<1> QED
  BY <1>1, <1>3, EndpointStatements DEF Statements

\* A report depends on no other rows.
LEMMA SameResults ==
    ASSUME NEW X, NEW Y, NEW X2, NEW Y2, NEW q \in AnalyticsQueries, NEW p \in Periods,
           NEW s \in StatementsIn(q.op),
           \A e \in X \cup X2 : e.ts \in Int, \A y \in Y \cup Y2 : y.startedAt \in Int,
           \A e : Bears(e.ws, e.ts, q, p) => (e \in X <=> e \in X2),
           \A y : Bears(y.ws, y.startedAt, q, p) => (y \in Y <=> y \in Y2)
    PROVE  ResultsIn(X, Y, s, q, p) = ResultsIn(X2, Y2, s, q, p)
<1>1. ASSUME NEW t \in Int, Within(t, PeriodOf(s, p))
      PROVE  t <= p.to /\ t >= PreviousPeriod(p).from
  BY <1>1 DEF Within, PeriodOf, PreviousPeriod, Periods
<1>2. SelectedIn(X, q.ws, PeriodOf(s, p)) = SelectedIn(X2, q.ws, PeriodOf(s, p))
  BY <1>1 DEF SelectedIn, Bears
<1>3. {x \in Y : x.ws = q.ws /\ Within(x.startedAt, PeriodOf(s, p))}
      = {x \in Y2 : x.ws = q.ws /\ Within(x.startedAt, PeriodOf(s, p))}
  BY <1>1 DEF Bears
<1>4. ActiveIn(X, Y, q.ws, PeriodOf(s, p)) = ActiveIn(X2, Y2, q.ws, PeriodOf(s, p))
  BY <1>2, <1>3 DEF ActiveIn
<1>5. s = "summary" => ReturningIn(X, q.ws, p) = ReturningIn(X2, q.ws, p)
  <2> SUFFICES ASSUME s = "summary" PROVE ReturningIn(X, q.ws, p) = ReturningIn(X2, q.ws, p)
    OBVIOUS
  <2>1. q.op = "users" /\ PeriodOf(s, p) = p
    BY PlansTyped DEF PeriodOf, Previous
  <2>2. ASSUME p.from <= p.to PROVE ReturningIn(X, q.ws, p) = ReturningIn(X2, q.ws, p)
    <3>1. \A e : e.ws = q.ws /\ e.ts < p.from /\ e.ts \in Int => (e \in X <=> e \in X2)
      BY <2>1, <2>2 DEF Bears, Periods
    <3>2. \A v : (\E e \in X : e.ws = q.ws /\ e.visitor = v /\ e.ts < p.from)
                 <=> (\E e \in X2 : e.ws = q.ws /\ e.visitor = v /\ e.ts < p.from)
      BY <3>1
    <3> QED
      BY <1>2, <2>1, <3>2 DEF ReturningIn
  <2>3. ASSUME ~(p.from <= p.to) PROVE ReturningIn(X, q.ws, p) = ReturningIn(X2, q.ws, p)
    <3>1. SelectedIn(X, q.ws, p) = {} /\ SelectedIn(X2, q.ws, p) = {}
      BY <2>3 DEF SelectedIn, Within, Periods
    <3> QED
      BY <3>1 DEF ReturningIn, Visitors
  <2> QED
    BY <2>2, <2>3
<1> QED
  BY <1>2, <1>4, <1>5 DEF ResultsIn

-----------------------------------------------------------------------------
(* What calls hold.                                                        *)

\* A row was read, after the call began and before it was answered, from
\* tables that held at least what they held when it began.
RowOK(c, s) ==
    \E X \in SUBSET events, Y \in SUBSET sessions :
        /\ \A e \in events : e.at < began[c] => e \in X
        /\ \A y \in sessions : y.startedAt < began[c] => y \in Y
        /\ pc[c] = "done" => \A e \in X : e.at <= ended[c]
        /\ rows[c][s] \in ResultsIn(X, Y, s, query[c], period[c])

\* A report is complete.
FinishedOK(r) ==
    /\ r \in Calls /\ pc[r] = "done" /\ reply[r] = r
    /\ query[r] \in AnalyticsQueries /\ period[r] \in Periods
    /\ StatementsIn(query[r].op) \subseteq DOMAIN rows[r]

\* One that may be kept is of a period that had been over for an hour.
KeptOK(r) == FinishedOK(r) /\ period[r].to <= ended[r] - Hour

ReportCallOK(c) ==
    /\ pc[c] = "idle" => DOMAIN rows[c] = {}
    /\ pc[c] = "query" =>
          /\ query[c] \in AnalyticsQueries /\ period[c] \in Periods
          /\ StatementsIn(query[c].op) \subseteq DOMAIN rows[c] \cup Left(c)
          /\ Left(c) \subseteq StatementsIn(query[c].op)
    /\ \A s \in DOMAIN rows[c] :
          /\ query[c] \in AnalyticsQueries /\ period[c] \in Periods
          /\ s \in StatementsIn(query[c].op) /\ RowOK(c, s)
    /\ pc[c] # "done" => reply[c] = NULL
    /\ pc[c] = "done" => began[c] <= ended[c]
    /\ reply[c] \in Calls =>
          FinishedOK(reply[c]) /\ (reply[c] = c \/ (KeptOK(reply[c]) /\ ended[reply[c]] <= began[c]))

CacheKeeps == \A k \in Held : KeptOK(cache[k].value)

AnalyticsInv ==
    /\ AnalyticsTypeOK
    /\ \A c \in Calls : ReportCallOK(c)
    /\ CacheKeeps

-----------------------------------------------------------------------------
(* The cache, and the statements left.                                     *)

\* No operation but Set gives a key another value.
LEMMA KeptValues ==
    ASSUME CacheOK, UNCHANGED now,
           \/ \E k \in CacheKeys : Get(k)
           \/ UNCHANGED cache
           \/ CleanupExpired
    PROVE  CacheOK' /\ \A j \in Held' : j \in Held /\ cache'[j].value = cache[j].value
<1>1. now \in 0..MaxTime /\ MaxTime \in Nat
  BY CacheAssumption DEF CacheOK
<1>2. ASSUME NEW k \in CacheKeys, Get(k)
      PROVE  CacheOK' /\ \A j \in Held' : j \in Held /\ cache'[j].value = cache[j].value
  BY <1>1, <1>2, CacheAssumption DEF CacheOK, Get, Touch, Fresh, Held
<1>3. ASSUME UNCHANGED cache
      PROVE  CacheOK' /\ \A j \in Held' : j \in Held /\ cache'[j].value = cache[j].value
  BY <1>3 DEF CacheOK, Held
<1>4. ASSUME CleanupExpired
      PROVE  CacheOK' /\ \A j \in Held' : j \in Held /\ cache'[j].value = cache[j].value
  BY <1>4 DEF CacheOK, CleanupExpired, Fresh, Held
<1> QED
  BY <1>2, <1>3, <1>4

\* Set gives a value to one key.
LEMMA SetValue ==
    ASSUME CacheOK, UNCHANGED now, NEW k \in CacheKeys, NEW v \in Values, NEW ttl \in TTLs, Set(k, v, ttl)
    PROVE  /\ CacheOK'
           /\ \A j \in Held' : (j \in Held /\ cache'[j].value = cache[j].value) \/ cache'[j].value = v
<1> DEFINE entry == [value |-> v, expiresAt |-> now + ttl, lastAccessAt |-> now]
<1>1. now \in 0..MaxTime /\ MaxTime \in Nat /\ ttl \in Nat
  BY CacheAssumption DEF CacheOK
<1>2. entry \in [value : Values, expiresAt : Nat, lastAccessAt : 0..MaxTime]
  BY <1>1
<1>3. /\ entry.value = v /\ entry.lastAccessAt = now
      /\ entry # NULL
  BY <1>1, CacheAssumption
<1>4. \/ \E victim \in Held : cache' = [cache EXCEPT ![victim] = NULL, ![k] = entry]
      \/ cache' = [cache EXCEPT ![k] = entry]
  BY DEF Set, LeastRecentlyUsed
<1> HIDE DEF entry
<1> QED
  BY <1>1, <1>2, <1>3, <1>4 DEF CacheOK, Held

\* Groups of statements, without one of the first.
Without(t, s) == IF Head(t) \ {s} = {} THEN Tail(t) ELSE <<Head(t) \ {s}>> \o Tail(t)

LEMMA OneLess ==
    ASSUME NEW t \in Seq(SUBSET Statements), t # <<>>, NEW s \in Head(t)
    PROVE  /\ Without(t, s) \in Seq(SUBSET Statements)
           /\ s \in UNION {t[i] : i \in DOMAIN t} /\ s \in Statements
           /\ UNION {Without(t, s)[i] : i \in DOMAIN Without(t, s)} \subseteq UNION {t[i] : i \in DOMAIN t}
           /\ UNION {t[i] : i \in DOMAIN t} \subseteq {s} \cup UNION {Without(t, s)[i] : i \in DOMAIN Without(t, s)}
<1> DEFINE rest == Head(t) \ {s}
           u == Without(t, s)
           n == Len(t)
           w == Tail(t)
<1>1. u = IF rest = {} THEN w ELSE <<rest>> \o w
  BY DEF Without
<1>2. /\ Head(t) = t[1] /\ Len(t) \in Nat \ {0} /\ DOMAIN t = 1..Len(t) /\ t[1] \in SUBSET Statements
      /\ Tail(t) \in Seq(SUBSET Statements) /\ Len(Tail(t)) = Len(t) - 1
      /\ \A i \in 1..Len(Tail(t)) : Tail(t)[i] = t[i + 1]
  OBVIOUS
<1>3. n \in Nat \ {0} /\ DOMAIN t = 1..n /\ DOMAIN w = 1..(n - 1) /\ \A i \in 1..(n - 1) : w[i] = t[i + 1]
  BY <1>2
<1>4. ASSUME NEW i \in 2..n PROVE i - 1 \in DOMAIN w /\ w[i - 1] = t[i]
  <2>1. i - 1 \in 1..(n - 1) /\ (i - 1) + 1 = i
    BY <1>3
  <2> HIDE DEF u, n, w
  <2> QED
    BY <1>3, <2>1
<1>5. ASSUME NEW j \in DOMAIN w PROVE j + 1 \in DOMAIN t /\ w[j] = t[j + 1]
  <2> HIDE DEF u, n, w
  <2> QED
    BY <1>3
<1>6. CASE rest = {}
  <2>1. u = w /\ t[1] = {s}
    BY <1>2, <1>6, <1>1
  <2>2. ASSUME NEW i \in DOMAIN t PROVE t[i] \subseteq {s} \cup UNION {u[j] : j \in DOMAIN u}
    <3>1. i = 1 \/ i \in 2..n
      BY <1>3
    <3> HIDE DEF u, n, w
    <3> QED
      BY <1>4, <2>1, <3>1
  <2>3. 1 \in DOMAIN t
    BY <1>3
  <2> HIDE DEF u, n, w
  <2>4. UNION {u[j] : j \in DOMAIN u} \subseteq UNION {t[i] : i \in DOMAIN t}
    BY <1>5, <2>1
  <2>5. u \in Seq(SUBSET Statements)
    BY <1>2, <2>1 DEF w
  <2>6. s \in UNION {t[i] : i \in DOMAIN t} /\ s \in Statements
    BY <1>2, <2>1, <2>3
  <2>7. UNION {t[i] : i \in DOMAIN t} \subseteq {s} \cup UNION {u[j] : j \in DOMAIN u}
    BY <2>2
  <2> QED
    BY <2>4, <2>5, <2>6, <2>7 DEF u
<1>7. CASE rest # {}
  <2>1. u = <<rest>> \o w
    BY <1>7, <1>1
  <2>2. rest \in SUBSET Statements /\ w \in Seq(SUBSET Statements) /\ Len(w) = n - 1
    BY <1>2
  <2>3. u \in Seq(SUBSET Statements) /\ Len(u) = 1 + Len(w) /\ u[1] = rest /\ \A i \in 2..Len(u) : u[i] = w[i - 1]
    <3> DEFINE one == <<rest>>
    <3>1. one \in Seq(SUBSET Statements) /\ Len(one) = 1 /\ one[1] = rest
      BY <2>2
    <3>2. n - 1 \in Nat
      BY <1>3
    <3>3. u = one \o w
      BY <2>1
    <3> HIDE DEF u, n, w, rest, one
    <3>4. /\ u \in Seq(SUBSET Statements) /\ Len(u) = Len(one) + Len(w)
          /\ \A i \in 1..Len(one) + Len(w) : u[i] = IF i <= Len(one) THEN one[i] ELSE w[i - Len(one)]
      <4>1. w \in Seq(SUBSET Statements) /\ one \in Seq(SUBSET Statements)
        BY <2>2, <3>1
      <4>2. /\ one \o w \in Seq(SUBSET Statements) /\ Len(one \o w) = Len(one) + Len(w)
            /\ \A i \in 1..Len(one) + Len(w) : (one \o w)[i] = IF i <= Len(one) THEN one[i] ELSE w[i - Len(one)]
        BY <4>1, ConcatProperties, Zenon
      <4> QED
        BY <3>3, <4>2, Zenon
    <3> QED
      BY <1>3, <2>2, <3>1, <3>2, <3>4
  <2>4. DOMAIN u = DOMAIN t /\ Len(u) = n
    <3>1. DOMAIN u = 1..Len(u)
      BY <2>3
    <3> HIDE DEF u, n, w
    <3> QED
      BY <1>3, <2>2, <2>3, <3>1
  <2>5. ASSUME NEW i \in DOMAIN t PROVE t[i] \subseteq {s} \cup u[i] /\ u[i] \subseteq t[i]
    <3>1. i = 1 \/ i \in 2..n
      BY <1>3
    <3>2. ASSUME i \in 2..n PROVE u[i] = t[i]
      <4> HIDE DEF u, n, w, rest
      <4> QED
        BY <1>4, <2>3, <2>4, <3>2
    <3> QED
      BY <1>2, <2>3, <3>1, <3>2
  <2>6. 1 \in DOMAIN t
    BY <1>3
  <2>7. s \in UNION {t[i] : i \in DOMAIN t} /\ s \in Statements
    BY <1>2, <2>6
  <2>8. UNION {u[i] : i \in DOMAIN u} \subseteq UNION {t[i] : i \in DOMAIN t}
    BY <2>4, <2>5
  <2>9. UNION {t[i] : i \in DOMAIN t} \subseteq {s} \cup UNION {u[i] : i \in DOMAIN u}
    BY <2>4, <2>5
  <2> QED
    BY <2>3, <2>7, <2>8, <2>9
<1> QED
  BY <1>6, <1>7

-----------------------------------------------------------------------------
(* What the steps of others leave as it is.                                *)

SameCall(d) ==
    /\ pc'[d] = pc[d] /\ query'[d] = query[d] /\ period'[d] = period[d]
    /\ statements'[d] = statements[d] /\ rows'[d] = rows[d]
    /\ reply'[d] = reply[d] /\ began'[d] = began[d] /\ ended'[d] = ended[d]

\* The tables only grow, by rows of now.
TablesGrow ==
    /\ now <= now' /\ events \subseteq events' /\ sessions \subseteq sessions'
    /\ \A e \in events' \ events : e.at = now
    /\ \A x \in sessions' \ sessions : x.startedAt = now

LEMMA StatementStays ==
    ASSUME AnalyticsTypeOK, NEW c \in Calls, NEW s, RowOK(c, s), SameCall(c), TablesGrow
    PROVE  RowOK(c, s)'
<1>1. PICK X \in SUBSET events, Y \in SUBSET sessions :
        /\ \A e \in events : e.at < began[c] => e \in X
        /\ \A y \in sessions : y.startedAt < began[c] => y \in Y
        /\ pc[c] = "done" => \A e \in X : e.at <= ended[c]
        /\ rows[c][s] \in ResultsIn(X, Y, s, query[c], period[c])
  BY DEF RowOK
<1>2. began[c] \in 0..now /\ now \in Nat
  BY DEF AnalyticsTypeOK, CacheOK
<1>3. X \in SUBSET events' /\ Y \in SUBSET sessions'
  BY DEF TablesGrow
<1>4. (\A e \in events' : e.at < began'[c] => e \in X) /\ \A y \in sessions' : y.startedAt < began'[c] => y \in Y
  BY <1>1, <1>2 DEF TablesGrow, SameCall
<1>5. rows'[c][s] \in ResultsIn(X, Y, s, query'[c], period'[c])
  BY <1>1 DEF SameCall
<1> QED
  BY <1>1, <1>3, <1>4, <1>5 DEF RowOK, SameCall

LEMMA FinishedStays ==
    ASSUME NEW r \in Calls, SameCall(r)
    PROVE  (FinishedOK(r) => FinishedOK(r)') /\ (KeptOK(r) => KeptOK(r)')
BY DEF FinishedOK, KeptOK, SameCall

\* A call at rest keeps what it holds.
LEMMA AnalyticsCallStays ==
    ASSUME AnalyticsInv, NEW c \in Calls, SameCall(c), TablesGrow,
           \A r \in Calls : pc[r] = "done" => SameCall(r)
    PROVE  ReportCallOK(c)'
<1>1. AnalyticsTypeOK /\ ReportCallOK(c)
  BY DEF AnalyticsInv
<1>2. \A s \in DOMAIN rows'[c] : RowOK(c, s)'
  BY <1>1, StatementStays DEF ReportCallOK, SameCall
<1>3. Left(c)' = Left(c)
  BY DEF Left, SameCall
<1>4. reply[c] \in Calls =>
          FinishedOK(reply[c])' /\ SameCall(reply[c]) /\ (reply[c] = c \/ (KeptOK(reply[c])' /\ ended'[reply[c]] <= began'[c]))
  <2> SUFFICES ASSUME reply[c] \in Calls
               PROVE  FinishedOK(reply[c])' /\ SameCall(reply[c])
                      /\ (reply[c] = c \/ (KeptOK(reply[c])' /\ ended'[reply[c]] <= began'[c]))
    OBVIOUS
  <2> DEFINE r == reply[c]
  <2>1. r \in Calls /\ FinishedOK(r) /\ (r = c \/ (KeptOK(r) /\ ended[r] <= began[c]))
    BY <1>1 DEF ReportCallOK
  <2>2. SameCall(r)
    BY <2>1 DEF FinishedOK
  <2>3. FinishedOK(r)' /\ (KeptOK(r) => KeptOK(r)')
    <3> HIDE DEF r
    <3>1. r' = r
      BY <2>2 DEF r, SameCall
    <3> QED
      BY <2>1, <2>2, <3>1, FinishedStays
  <2> QED
    BY <2>1, <2>2, <2>3 DEF SameCall
<1> QED
  BY <1>1, <1>2, <1>3, <1>4 DEF ReportCallOK, SameCall

\* So do the kept reports, if the cache gets no new one.
LEMMA KeptStay ==
    ASSUME AnalyticsInv, \A r \in Calls : pc[r] = "done" => SameCall(r),
           \A j \in Held' : (j \in Held /\ cache'[j].value = cache[j].value) \/ \E v \in Calls : cache'[j].value = v /\ KeptOK(v)'
    PROVE  CacheKeeps'
<1> SUFFICES ASSUME NEW j \in Held' PROVE KeptOK(cache[j].value)'
  BY DEF CacheKeeps
<1>1. CASE j \in Held /\ cache'[j].value = cache[j].value
  <2> DEFINE r == cache[j].value
  <2>1. KeptOK(r)
    BY <1>1 DEF AnalyticsInv, CacheKeeps
  <2>2. r \in Calls /\ SameCall(r)
    BY <2>1 DEF KeptOK, FinishedOK
  <2> QED
    BY <1>1, <2>1, <2>2 DEF KeptOK, FinishedOK, SameCall
<1>2. CASE \E v \in Calls : cache'[j].value = v /\ KeptOK(v)'
  BY <1>2 DEF KeptOK, FinishedOK
<1> QED
  BY <1>1, <1>2

\* A step of the tables, of the clock or of the cache.
LEMMA QuietStep ==
    ASSUME AnalyticsInv, Ingest \/ EntriesExpire \/ TimePasses
    PROVE  AnalyticsInv'
<1>1. AnalyticsTypeOK
  BY DEF AnalyticsInv
<1>2. now \in 0..MaxTime /\ MaxTime \in Nat
  BY <1>1, AnalyticsConstants DEF AnalyticsTypeOK, CacheOK
<1>3. \A r \in Calls : SameCall(r)
  BY DEF Ingest, EntriesExpire, TimePasses, callVars, SameCall
<1>4. TablesGrow
  <2>1. CASE Ingest
    BY <1>2, <2>1 DEF Ingest, TablesGrow
  <2>2. CASE EntriesExpire
    BY <1>2, <2>2 DEF EntriesExpire, tables, TablesGrow
  <2>3. CASE TimePasses
    BY <1>2, <2>3 DEF TimePasses, Advance, tables, TablesGrow
  <2> QED
    BY <2>1, <2>2, <2>3
<1>5. CacheOK' /\ \A j \in Held' : j \in Held /\ cache'[j].value = cache[j].value
  <2>1. CASE Ingest
    BY <1>1, <2>1, KeptValues DEF Ingest, AnalyticsTypeOK
  <2>2. CASE EntriesExpire
    BY <1>1, <2>2, KeptValues DEF EntriesExpire, AnalyticsTypeOK
  <2>3. CASE TimePasses
    BY <1>1, <1>2, <2>3 DEF TimePasses, Advance, AnalyticsTypeOK, CacheOK, Held
  <2> QED
    BY <2>1, <2>2, <2>3
<1>6. now' \in 0..MaxTime /\ now <= now'
  BY <1>4, <1>5 DEF CacheOK, TablesGrow
<1>7. \A e \in events' : /\ e.ts \in Int /\ e.at \in 0..now' /\ e.delay \in Nat
                         /\ e.at - e.delay - Skew <= e.ts
  <2>1. CASE Ingest
    <3>1. PICK d \in Drafts, delay \in 0..MaxDelay, t \in 0..now + Skew :
            /\ InSkew(now - delay, t)
            /\ events' = events \cup
                 {[id |-> Cardinality(events) + 1, ws |-> d.ws, name |-> d.name,
                   visitor |-> d.visitor, session |-> d.session,
                   ts |-> t, at |-> now, delay |-> delay]}
      BY <2>1 DEF Ingest
    <3>2. MaxDelay \in Nat /\ Skew \in Nat
      BY AnalyticsAssumption
    <3>3. delay \in Nat /\ t \in Int /\ now - delay - Skew <= t
      BY <1>2, <3>1, <3>2 DEF InSkew
    <3>4. now' = now
      BY <2>1 DEF Ingest
    <3> QED
      BY <1>1, <1>2, <3>1, <3>3, <3>4 DEF AnalyticsTypeOK
  <2>2. CASE EntriesExpire \/ TimePasses
    <3>1. events' = events
      BY <2>2 DEF EntriesExpire, TimePasses, tables
    <3> QED
      BY <1>1, <1>2, <1>6, <3>1 DEF AnalyticsTypeOK
  <2> QED
    BY <2>1, <2>2
<1>8. \A x \in sessions' : x.startedAt \in 0..now'
  BY <1>1, <1>2, <1>4, <1>6 DEF TablesGrow, AnalyticsTypeOK
<1>9. UNCHANGED <<exports, callVars>>
  BY DEF Ingest, EntriesExpire, TimePasses
<1>10. 0..now \subseteq 0..now'
  BY <1>2, <1>6
<1>11. exports' \subseteq 0..now' /\ began' \in [Calls -> 0..now'] /\ ended' \in [Calls -> 0..now']
  BY <1>1, <1>9, <1>10 DEF AnalyticsTypeOK, callVars
<1>12. AnalyticsTypeOK'
  BY <1>1, <1>5, <1>7, <1>8, <1>9, <1>11 DEF AnalyticsTypeOK, callVars
<1>13. \A c \in Calls : ReportCallOK(c)'
  BY <1>3, <1>4, AnalyticsCallStays
<1>14. CacheKeeps'
  BY <1>3, <1>5, KeptStay
<1> QED
  BY <1>12, <1>13, <1>14 DEF AnalyticsInv

-----------------------------------------------------------------------------
(* The steps of a call.                                                    *)

\* A step of c leaves the tables and the other calls alone.
OnlyCall(c) ==
    /\ UNCHANGED <<now, tables>>
    /\ \A d \in Calls \ {c} : SameCall(d)

LEMMA CallStep ==
    ASSUME AnalyticsInv, NEW c \in Calls, pc[c] # "done", OnlyCall(c),
           AnalyticsTypeOK', ReportCallOK(c)',
           \A j \in Held' : (j \in Held /\ cache'[j].value = cache[j].value)
                            \/ \E v \in Calls : cache'[j].value = v /\ KeptOK(v)'
    PROVE  AnalyticsInv'
<1>1. \A r \in Calls : pc[r] = "done" => SameCall(r)
  BY DEF OnlyCall
<1>2. TablesGrow
  BY DEF OnlyCall, tables, TablesGrow, AnalyticsInv, AnalyticsTypeOK, CacheOK
<1>3. \A d \in Calls \ {c} : ReportCallOK(d)'
  BY <1>1, <1>2, AnalyticsCallStays DEF OnlyCall
<1>4. CacheKeeps'
  BY <1>1, KeptStay
<1> QED
  BY <1>3, <1>4 DEF AnalyticsInv

\* What a call has when it is answered.
LEMMA Concluded ==
    ASSUME AnalyticsTypeOK, NEW c \in Calls, NEW r, Conclude(c, r)
    PROVE  /\ pc'[c] = "done" /\ reply'[c] = r /\ ended'[c] = now
           /\ \A d \in Calls \ {c} : pc'[d] = pc[d] /\ reply'[d] = reply[d] /\ ended'[d] = ended[d]
           /\ pc' \in [Calls -> {"idle", "query", "done"}]
           /\ ended' \in [Calls -> 0..now]
           /\ r \in Calls \cup {NULL} \cup ExportReplies =>
                 reply' \in [Calls -> Calls \cup {NULL} \cup ExportReplies]
<1>1. now \in 0..now
  BY DEF AnalyticsTypeOK, CacheOK
<1> QED
  BY <1>1 DEF AnalyticsTypeOK, Conclude, ExportReplies

\* An export, or the question how it goes.
LEMMA ExportSteps ==
    ASSUME AnalyticsInv, NEW c \in Calls, Export(c) \/ ExportStatus(c)
    PROVE  AnalyticsInv'
<1>1. AnalyticsTypeOK /\ ReportCallOK(c) /\ now \in 0..MaxTime /\ MaxTime \in Nat
  BY AnalyticsConstants DEF AnalyticsInv, AnalyticsTypeOK, CacheOK
<1>2. pc[c] = "idle" /\ DOMAIN rows[c] = {}
  BY <1>1 DEF Export, ExportStatus, ReportCallOK
<1>3. PICK r \in ExportReplies : Conclude(c, r)
  <2>1. CASE Export(c)
    BY <1>1, <2>1 DEF Export, ExportReplies, ExportStates
  <2>2. CASE ExportStatus(c)
    <3>1. PICK t \in exports, status \in {"completed", "missing"} : Conclude(c, [export |-> t, status |-> status])
      BY <2>2 DEF ExportStatus
    <3>2. t \in Nat
      BY <1>1 DEF AnalyticsTypeOK
    <3> QED
      BY <3>1, <3>2 DEF ExportReplies, ExportStates
  <2> QED
    BY <2>1, <2>2
<1>4. /\ began' = [began EXCEPT ![c] = now] /\ UNCHANGED <<now, cache, tables, query, period, statements, rows>>
      /\ exports' \subseteq 0..now
  BY <1>1 DEF Export, ExportStatus, AnalyticsTypeOK
<1>5. OnlyCall(c) /\ began'[c] = now
  BY <1>1, <1>3, <1>4, Concluded DEF OnlyCall, SameCall, AnalyticsTypeOK
<1>6. AnalyticsTypeOK'
  <2>1. reply' \in [Calls -> Calls \cup {NULL} \cup ExportReplies]
    BY <1>1, <1>3, Concluded
  <2>2. CacheOK' /\ began' \in [Calls -> 0..now]
    BY <1>1, <1>4, KeptValues DEF AnalyticsTypeOK
  <2>3. pc' \in [Calls -> {"idle", "query", "done"}] /\ ended' \in [Calls -> 0..now]
    BY <1>1, <1>3, Concluded
  <2> QED
    BY <1>1, <1>4, <2>1, <2>2, <2>3 DEF AnalyticsTypeOK, tables, ExportReplies
<1>7. ReportCallOK(c)'
  <2>1. reply'[c] \notin Calls /\ pc'[c] = "done" /\ began'[c] = ended'[c] /\ rows'[c] = rows[c] /\ ended'[c] \in Nat
    BY <1>1, <1>3, <1>4, <1>5, Concluded, AnalyticsConstants
  <2> QED
    BY <1>2, <2>1 DEF ReportCallOK
<1> QED
  BY <1>2, <1>4, <1>5, <1>6, <1>7, CallStep DEF Held

\* A statement fails, and with it the call.
LEMMA FailStep ==
    ASSUME AnalyticsInv, NEW c \in Calls, Fail(c)
    PROVE  AnalyticsInv'
<1>1. AnalyticsTypeOK /\ ReportCallOK(c) /\ now \in 0..MaxTime /\ MaxTime \in Nat
  BY AnalyticsConstants DEF AnalyticsInv, AnalyticsTypeOK, CacheOK
<1>2. pc[c] = "query" /\ Conclude(c, NULL) /\ statements' = [statements EXCEPT ![c] = <<>>]
  BY DEF Fail
<1>3. UNCHANGED <<now, cache, tables, exports, query, period, rows, began>>
  BY DEF Fail
<1>4. OnlyCall(c)
  BY <1>1, <1>2, <1>3, Concluded DEF OnlyCall, SameCall, AnalyticsTypeOK
<1>5. AnalyticsTypeOK'
  <2>1. reply' \in [Calls -> Calls \cup {NULL} \cup ExportReplies]
    BY <1>1, <1>2, Concluded
  <2>2. statements' \in [Calls -> Seq(SUBSET Statements)]
    BY <1>1, <1>2 DEF AnalyticsTypeOK
  <2> QED
    BY <1>1, <1>2, <1>3, <2>1, <2>2, Concluded, KeptValues DEF AnalyticsTypeOK, tables, ExportReplies
<1>6. ReportCallOK(c)'
  <2>1. reply'[c] = NULL /\ pc'[c] = "done" /\ ended'[c] = now /\ began[c] \in 0..now
    BY <1>1, <1>2, Concluded DEF AnalyticsTypeOK
  <2>2. ASSUME NEW s \in DOMAIN rows[c] PROVE RowOK(c, s)'
    <3>1. PICK X \in SUBSET events, Y \in SUBSET sessions :
            /\ \A e \in events : e.at < began[c] => e \in X
            /\ \A y \in sessions : y.startedAt < began[c] => y \in Y
            /\ rows[c][s] \in ResultsIn(X, Y, s, query[c], period[c])
      BY <1>1 DEF ReportCallOK, RowOK
    <3>2. \A e \in X : e.at <= ended'[c]
      BY <1>1, <2>1 DEF AnalyticsTypeOK
    <3> QED
      BY <1>3, <3>1, <3>2 DEF RowOK, tables
  <2> QED
    BY <1>1, <1>3, <2>1, <2>2, AnalyticsConstants DEF ReportCallOK
<1> QED
  BY <1>2, <1>3, <1>4, <1>5, <1>6, CallStep DEF Held

SameCallButRows(c) ==
    query'[c] = query[c] /\ period'[c] = period[c] /\ began'[c] = began[c]

\* A row of the tables as they are now.
LEMMA RowNow ==
    ASSUME AnalyticsTypeOK, NEW c \in Calls, NEW s, NEW r, r \in Results(s, query[c], period[c]),
           SameCallButRows(c), UNCHANGED tables, rows'[c][s] = r, pc'[c] = "query"
    PROVE  RowOK(c, s)'
BY ResultsNow DEF RowOK, SameCallButRows, tables

\* One statement runs.
LEMMA StatementStep ==
    ASSUME AnalyticsInv, NEW c \in Calls, RunStatement(c)
    PROVE  AnalyticsInv'
<1>1. AnalyticsTypeOK /\ ReportCallOK(c) /\ now \in 0..MaxTime /\ MaxTime \in Nat
  BY AnalyticsConstants DEF AnalyticsInv, AnalyticsTypeOK, CacheOK
<1>2. /\ pc[c] = "query" /\ statements[c] # <<>>
      /\ UNCHANGED <<now, cache, tables, exports, pc, query, period, reply, began, ended>>
  BY DEF RunStatement
<1>3. PICK s \in Head(statements[c]) :
        /\ \E result \in Results(s, query[c], period[c]) : rows' = [rows EXCEPT ![c] = WithRow(rows[c], s, result)]
        /\ LET rest == Head(statements[c]) \ {s}
           IN statements' = [statements EXCEPT ![c] =
                 IF rest = {} THEN Tail(statements[c]) ELSE <<rest>> \o Tail(statements[c])]
  BY DEF RunStatement
<1>4. PICK result \in Results(s, query[c], period[c]) : rows' = [rows EXCEPT ![c] = WithRow(rows[c], s, result)]
  BY <1>3
<1>5. query[c] \in AnalyticsQueries /\ period[c] \in Periods
  BY <1>1, <1>2 DEF ReportCallOK
<1>6. statements[c] \in Seq(SUBSET Statements)
  BY <1>1 DEF AnalyticsTypeOK
<1>7. /\ statements'[c] \in Seq(SUBSET Statements) /\ s \in Left(c) /\ s \in Statements
      /\ Left(c)' \subseteq Left(c) /\ Left(c) \subseteq {s} \cup Left(c)'
  <2> DEFINE u == statements'[c]
             t == statements[c]
  <2>1. u = Without(t, s)
    BY <1>1, <1>3 DEF AnalyticsTypeOK, Without
  <2>2. t \in Seq(SUBSET Statements) /\ t # <<>> /\ s \in Head(t)
    BY <1>2, <1>6
  <2> HIDE DEF u, t
  <2>3. /\ u \in Seq(SUBSET Statements)
        /\ s \in UNION {t[i] : i \in DOMAIN t} /\ s \in Statements
        /\ UNION {u[i] : i \in DOMAIN u} \subseteq UNION {t[i] : i \in DOMAIN t}
        /\ UNION {t[i] : i \in DOMAIN t} \subseteq {s} \cup UNION {u[i] : i \in DOMAIN u}
    BY <2>1, <2>2, OneLess
  <2> QED
    BY <2>3 DEF u, t, Left
<1>8. /\ DOMAIN rows'[c] = DOMAIN rows[c] \cup {s}
      /\ rows'[c][s] = result
      /\ \A x \in DOMAIN rows[c] : x # s => rows'[c][x] = rows[c][x]
      /\ \A d \in Calls : d # c => rows'[d] = rows[d]
  BY <1>1, <1>4 DEF AnalyticsTypeOK, WithRow
<1>9. OnlyCall(c)
  BY <1>1, <1>2, <1>3, <1>8 DEF OnlyCall, SameCall, AnalyticsTypeOK
<1>10. AnalyticsTypeOK'
  <2>1. statements' \in [Calls -> Seq(SUBSET Statements)]
    BY <1>1, <1>7, <1>3 DEF AnalyticsTypeOK
  <2>2. rows' = [d \in Calls |-> rows'[d]]
    BY <1>1, <1>4 DEF AnalyticsTypeOK
  <2>3. \A d \in Calls : DOMAIN rows'[d] \subseteq Statements
    BY <1>1, <1>7, <1>8 DEF AnalyticsTypeOK
  <2>4. CacheOK'
    BY <1>1, <1>2, KeptValues DEF AnalyticsTypeOK
  <2> QED
    BY <1>1, <1>2, <2>1, <2>2, <2>3, <2>4 DEF AnalyticsTypeOK, tables
<1>11. ASSUME NEW x \in DOMAIN rows'[c] PROVE x \in StatementsIn(query[c].op) /\ RowOK(c, x)'
  <2>1. CASE x = s
    <3>1. RowOK(c, s)'
      BY <1>1, <1>2, <1>4, <1>8, RowNow DEF SameCallButRows
    <3> QED
      BY <1>1, <1>2, <1>7, <2>1, <3>1 DEF ReportCallOK
  <2>2. CASE x # s
    <3>1. x \in DOMAIN rows[c] /\ rows'[c][x] = rows[c][x]
      BY <1>8, <2>2
    <3> QED
      BY <1>1, <1>2, <3>1 DEF ReportCallOK, RowOK, tables
  <2> QED
    BY <2>1, <2>2
<1>12. ReportCallOK(c)'
  <2>1. StatementsIn(query[c].op) \subseteq DOMAIN rows'[c] \cup Left(c)' /\ Left(c)' \subseteq StatementsIn(query[c].op)
    BY <1>1, <1>2, <1>7, <1>8 DEF ReportCallOK
  <2>2. reply[c] = NULL
    BY <1>1, <1>2 DEF ReportCallOK
  <2> QED
    BY <1>2, <1>5, <1>11, <2>1, <2>2, AnalyticsConstants DEF ReportCallOK
<1> QED
  BY <1>2, <1>9, <1>10, <1>12, CallStep DEF Held

\* A report is complete and may be kept.
LEMMA DeliverStep ==
    ASSUME AnalyticsInv, NEW c \in Calls, Deliver(c)
    PROVE  AnalyticsInv'
<1>1. AnalyticsTypeOK /\ ReportCallOK(c) /\ now \in 0..MaxTime /\ MaxTime \in Nat
  BY AnalyticsConstants DEF AnalyticsInv, AnalyticsTypeOK, CacheOK
<1>2. /\ pc[c] = "query" /\ statements[c] = <<>> /\ Conclude(c, c)
      /\ UNCHANGED <<now, tables, exports, query, period, statements, rows, began>>
  BY DEF Deliver
<1>3. query[c] \in AnalyticsQueries /\ period[c] \in Periods /\ StatementsIn(query[c].op) \subseteq DOMAIN rows[c]
  BY <1>1, <1>2 DEF ReportCallOK, Left
<1>4. pc'[c] = "done" /\ reply'[c] = c /\ ended'[c] = now /\ began[c] \in 0..now
  BY <1>1, <1>2, Concluded DEF AnalyticsTypeOK
<1>5. OnlyCall(c)
  BY <1>1, <1>2, Concluded DEF OnlyCall, SameCall, AnalyticsTypeOK
<1>6. FinishedOK(c)' /\ (ShouldCache(query[c], period[c]) => KeptOK(c)')
  BY <1>2, <1>3, <1>4 DEF FinishedOK, KeptOK, ShouldCache
<1>7. CacheOK' /\ \A j \in Held' : (j \in Held /\ cache'[j].value = cache[j].value)
                                   \/ \E v \in Calls : cache'[j].value = v /\ KeptOK(v)'
  <2>1. CASE ~ShouldCache(query[c], period[c])
    BY <1>1, <1>2, <2>1, KeptValues DEF Deliver, AnalyticsTypeOK
  <2>2. CASE ShouldCache(query[c], period[c])
    <3>1. /\ ReportKey(query[c]) \in CacheKeys /\ ReportLifetime[query[c].op] \in TTLs /\ c \in Values
          /\ Set(ReportKey(query[c]), c, ReportLifetime[query[c].op])
      BY <1>3, <2>2, AnalyticsConstants DEF Deliver, ReportKey, ShouldCache
    <3>2. CacheOK' /\ \A j \in Held' : (j \in Held /\ cache'[j].value = cache[j].value) \/ cache'[j].value = c
      BY <1>1, <1>2, <3>1, SetValue DEF AnalyticsTypeOK
    <3> QED
      BY <1>6, <2>2, <3>2
  <2> QED
    BY <2>1, <2>2
<1>8. AnalyticsTypeOK'
  <2>1. reply' \in [Calls -> Calls \cup {NULL} \cup ExportReplies]
    BY <1>1, <1>2, Concluded
  <2>2. pc' \in [Calls -> {"idle", "query", "done"}] /\ ended' \in [Calls -> 0..now]
    BY <1>1, <1>2, Concluded
  <2> QED
    BY <1>1, <1>2, <1>7, <2>1, <2>2 DEF AnalyticsTypeOK, tables, ExportReplies
<1>9. ReportCallOK(c)'
  <2>1. ASSUME NEW s \in DOMAIN rows[c] PROVE RowOK(c, s)'
    <3>1. PICK X \in SUBSET events, Y \in SUBSET sessions :
            /\ \A e \in events : e.at < began[c] => e \in X
            /\ \A y \in sessions : y.startedAt < began[c] => y \in Y
            /\ rows[c][s] \in ResultsIn(X, Y, s, query[c], period[c])
      BY <1>1, <2>1 DEF ReportCallOK, RowOK
    <3>2. \A e \in X : e.at <= ended'[c]
      BY <1>1, <1>4 DEF AnalyticsTypeOK
    <3> QED
      BY <1>2, <3>1, <3>2 DEF RowOK, tables
  <2> QED
    BY <1>1, <1>2, <1>3, <1>4, <1>6, <2>1 DEF ReportCallOK
<1> QED
  BY <1>2, <1>5, <1>7, <1>8, <1>9, CallStep

\* A query arrives.
LEMMA ArriveStep ==
    ASSUME AnalyticsInv, NEW c \in Calls, Arrive(c)
    PROVE  AnalyticsInv'
<1>1. AnalyticsTypeOK /\ ReportCallOK(c) /\ now \in 0..MaxTime /\ MaxTime \in Nat
  BY AnalyticsConstants DEF AnalyticsInv, AnalyticsTypeOK, CacheOK
<1>2. /\ pc[c] = "idle" /\ DOMAIN rows[c] = {} /\ reply[c] = NULL
      /\ began' = [began EXCEPT ![c] = now] /\ UNCHANGED <<now, tables, exports, rows>>
  BY <1>1 DEF Arrive, ReportCallOK
<1> DEFINE hit(q) == IF ShouldCache(q, Period(q)) THEN Cached(ReportKey(q)) ELSE NULL
<1>3. PICK q \in AnalyticsQueries :
        /\ query' = [query EXCEPT ![c] = q] /\ period' = [period EXCEPT ![c] = Period(q)]
        /\ IF ~IsRefused(q) /\ ShouldCache(q, Period(q)) THEN Get(ReportKey(q)) ELSE UNCHANGED cache
        /\ IF IsRefused(q) \/ hit(q) # NULL \/ TooFine(q, Period(q))
           THEN Conclude(c, IF IsRefused(q) THEN NULL ELSE hit(q)) /\ UNCHANGED statements
           ELSE /\ pc' = [pc EXCEPT ![c] = "query"]
                /\ statements' = [statements EXCEPT ![c] = StatementsOf(q.op)]
                /\ UNCHANGED <<reply, ended>>
  BY DEF Arrive
<1>4. Period(q) \in Periods
  <2>1. CASE q.span = NULL
    BY <2>1, AnalyticsConstants DEF Period
  <2>2. CASE q.span # NULL
    <3>1. q.span \in Nat
      BY <2>2, AnalyticsConstants
    <3>2. now - q.span \in Int /\ now \in Int
      BY <1>1, <3>1
    <3> QED
      BY <2>2, <3>2 DEF Period, Periods
  <2> QED
    BY <2>1, <2>2
<1>5. CacheOK' /\ \A j \in Held' : j \in Held /\ cache'[j].value = cache[j].value
  <2>1. (\E k \in CacheKeys : Get(k)) \/ UNCHANGED cache
    BY <1>3, AnalyticsConstants DEF ReportKey, ShouldCache
  <2> QED
    BY <1>1, <1>2, <2>1, KeptValues DEF AnalyticsTypeOK
<1>6. hit(q) # NULL => hit(q) \in Calls /\ KeptOK(hit(q)) /\ ended[hit(q)] <= now
  <2> SUFFICES ASSUME hit(q) # NULL PROVE hit(q) \in Calls /\ KeptOK(hit(q)) /\ ended[hit(q)] <= now
    OBVIOUS
  <2>1. ReportKey(q) \in Held /\ hit(q) = cache[ReportKey(q)].value
    BY AnalyticsConstants DEF Cached, Fresh, Held, ReportKey, ShouldCache
  <2>2. KeptOK(hit(q))
    BY <2>1 DEF AnalyticsInv, CacheKeeps
  <2>3. hit(q) \in Calls
    BY <2>2 DEF KeptOK, FinishedOK
  <2> QED
    BY <1>1, <2>2, <2>3 DEF AnalyticsTypeOK
<1>7. query'[c] = q /\ period'[c] = Period(q) /\ began'[c] = now
  BY <1>1, <1>2, <1>3 DEF AnalyticsTypeOK
<1>8. /\ query' \in [Calls -> AnalyticsQueries \cup {NULL}] /\ period' \in [Calls -> [from : Int, to : Int] \cup {NULL}]
      /\ began' \in [Calls -> 0..now]
  BY <1>1, <1>2, <1>3, <1>4 DEF AnalyticsTypeOK, Periods
\* The same value in the next state.
<1>9. PICK r : r = IF IsRefused(q) THEN NULL ELSE hit(q)
  OBVIOUS
<1>10. CASE IsRefused(q) \/ hit(q) # NULL \/ TooFine(q, Period(q))
  <2>1. Conclude(c, r) /\ UNCHANGED statements
    BY <1>3, <1>9, <1>10
  <2>2. r # NULL => r \in Calls /\ KeptOK(r) /\ ended[r] <= now
    BY <1>6, <1>9
  <2> HIDE DEF hit
  <2>3. pc'[c] = "done" /\ reply'[c] = r /\ ended'[c] = now
    BY <1>1, <2>1, Concluded
  <2>4. OnlyCall(c)
    BY <1>1, <1>2, <1>3, <2>1, Concluded DEF OnlyCall, SameCall, AnalyticsTypeOK
  <2>5. AnalyticsTypeOK'
    <3>1. reply' \in [Calls -> Calls \cup {NULL} \cup ExportReplies]
      BY <1>1, <2>1, <2>2, Concluded
    <3>2. pc' \in [Calls -> {"idle", "query", "done"}] /\ ended' \in [Calls -> 0..now]
      BY <1>1, <2>1, Concluded
    <3> QED
      BY <1>1, <1>2, <1>5, <1>8, <2>1, <3>1, <3>2 DEF AnalyticsTypeOK, tables, ExportReplies
  <2>6. r # NULL => FinishedOK(r)' /\ KeptOK(r)' /\ ended'[r] <= now
    <3> SUFFICES ASSUME r # NULL PROVE FinishedOK(r)' /\ KeptOK(r)' /\ ended'[r] <= now
      OBVIOUS
    <3>1. r \in Calls /\ KeptOK(r) /\ FinishedOK(r) /\ ended[r] <= now
      BY <2>2 DEF KeptOK
    <3>2. r \in Calls \ {c} /\ SameCall(r)
      BY <1>2, <2>4, <3>1 DEF FinishedOK, OnlyCall
    <3> QED
      BY <3>1, <3>2 DEF FinishedOK, KeptOK, SameCall
  <2>7. ReportCallOK(c)'
    <3>1. /\ pc'[c] = "done" /\ DOMAIN rows'[c] = {} /\ began'[c] = ended'[c] /\ ended'[c] \in Nat
          /\ reply'[c] \in Calls => reply'[c] = r /\ r # NULL
      BY <1>1, <1>2, <1>7, <2>3, AnalyticsConstants
    <3> QED
      BY <1>7, <2>3, <2>6, <3>1 DEF ReportCallOK
  <2> QED
    BY <1>2, <1>5, <2>4, <2>5, <2>7, CallStep
<1>11. CASE ~(IsRefused(q) \/ hit(q) # NULL \/ TooFine(q, Period(q)))
  <2>1. /\ pc' = [pc EXCEPT ![c] = "query"] /\ statements' = [statements EXCEPT ![c] = StatementsOf(q.op)]
        /\ UNCHANGED <<reply, ended>>
    BY <1>3, <1>11
  <2> HIDE DEF hit
  <2>2. OnlyCall(c)
    BY <1>1, <1>2, <1>3, <2>1 DEF OnlyCall, SameCall, AnalyticsTypeOK
  <2>3. AnalyticsTypeOK'
    <3>1. statements' \in [Calls -> Seq(SUBSET Statements)]
      BY <1>1, <2>1, PlansTyped DEF AnalyticsTypeOK
    <3> QED
      BY <1>1, <1>2, <1>5, <1>8, <2>1, <3>1 DEF AnalyticsTypeOK, tables
  <2>4. pc'[c] = "query" /\ statements'[c] = StatementsOf(q.op) /\ reply'[c] = NULL /\ DOMAIN rows'[c] = {}
    BY <1>1, <1>2, <2>1 DEF AnalyticsTypeOK
  <2>5. Left(c)' = StatementsIn(q.op)
    BY <2>4 DEF Left, StatementsIn
  <2>6. ReportCallOK(c)'
    BY <1>4, <1>7, <2>4, <2>5, AnalyticsConstants DEF ReportCallOK
  <2> QED
    BY <1>2, <1>5, <2>2, <2>3, <2>6, CallStep
<1> QED
  BY <1>10, <1>11

LEMMA AnalyticsStarts == AnalyticsInit => AnalyticsInv
<1> SUFFICES ASSUME AnalyticsInit PROVE AnalyticsInv
  OBVIOUS
<1>1. PICK b \in AnalyticsBeginnings : now = b.now /\ workspaces = b.workspaces /\ events = b.events /\ sessions = {}
  BY DEF AnalyticsInit
<1>2. /\ b.now \in 0..MaxTime
      /\ \A e \in b.events : e.ts \in Int /\ e.at \in 0..b.now /\ e.delay \in Nat /\ e.at - e.delay - Skew <= e.ts
  BY AnalyticsAssumption
<1>3. now \in 0..MaxTime /\ MaxTime \in Nat
  BY <1>1, <1>2, AnalyticsConstants
<1>4. Held = {} /\ CacheOK
  BY <1>3 DEF AnalyticsInit, Held, CacheOK
<1>5. 0 \in 0..now
  BY <1>3
<1>6. <<>> \in Seq(SUBSET Statements) /\ DOMAIN <<>> = {}
  OBVIOUS
<1>7. AnalyticsTypeOK
  BY <1>1, <1>2, <1>4, <1>5, <1>6 DEF AnalyticsInit, AnalyticsTypeOK
<1>8. \A c \in Calls : ReportCallOK(c)
  BY <1>6, AnalyticsConstants DEF AnalyticsInit, ReportCallOK
<1> QED
  BY <1>4, <1>7, <1>8 DEF AnalyticsInv, CacheKeeps

\* No step breaks it.
LEMMA AnalyticsSteps ==
    ASSUME AnalyticsInv, [AnalyticsNext]_analyticsVars
    PROVE  AnalyticsInv'
<1>1. CASE UNCHANGED analyticsVars
  <2>1. TablesGrow /\ \A r \in Calls : SameCall(r)
    BY <1>1 DEF analyticsVars, TablesGrow, SameCall, AnalyticsInv, AnalyticsTypeOK, CacheOK
  <2>2. AnalyticsTypeOK'
    BY <1>1 DEF analyticsVars, AnalyticsInv, AnalyticsTypeOK, CacheOK, Held
  <2>3. \A j \in Held' : j \in Held /\ cache'[j].value = cache[j].value
    BY <1>1 DEF analyticsVars, Held
  <2> QED
    BY <2>1, <2>2, <2>3, AnalyticsCallStays, KeptStay DEF AnalyticsInv
<1>2. CASE \E c \in Calls : Arrive(c) \/ RunStatement(c) \/ Fail(c) \/ Deliver(c) \/ Export(c) \/ ExportStatus(c)
  BY <1>2, ArriveStep, StatementStep, FailStep, DeliverStep, ExportSteps
<1>3. CASE Ingest \/ EntriesExpire \/ TimePasses
  BY <1>3, QuietStep
<1> QED
  BY <1>1, <1>2, <1>3 DEF AnalyticsNext

LEMMA AnalyticsInductive == AnalyticsSpec => []AnalyticsInv
<1>1. AnalyticsInit => AnalyticsInv
  BY AnalyticsStarts
<1>2. AnalyticsInv /\ [AnalyticsNext]_analyticsVars => AnalyticsInv'
  BY AnalyticsSteps
<1> QED
  BY <1>1, <1>2, PTL DEF AnalyticsSpec

\* The analytics endpoints of a workspace are well typed, no row of the tables
\* is of the future, and each came within the skew of its acceptance.
THEOREM AnalyticsTypes == AnalyticsSpec => []AnalyticsTypeOK
<1>1. AnalyticsInv => AnalyticsTypeOK
  BY DEF AnalyticsInv
<1> QED
  BY <1>1, AnalyticsInductive, PTL

-----------------------------------------------------------------------------
(* What reports say.                                                       *)

\* A report that may be kept is exact, unless it or a row used up the hour.
LEMMA ExactIfInTime ==
    ASSUME AnalyticsInv, NEW r \in Calls, KeptOK(r),
           ~\E late \in {0} \cup {e.delay : e \in Relevant(r)} : ended[r] - began[r] + late >= Hour - Skew,
           NEW s \in DOMAIN rows[r]
    PROVE  rows[r][s] \in Results(s, query[r], period[r])
<1> DEFINE q == query[r]
           p == period[r]
<1>1. /\ AnalyticsTypeOK /\ ReportCallOK(r) /\ FinishedOK(r) /\ p.to <= ended[r] - Hour
      /\ q \in AnalyticsQueries /\ p \in Periods /\ p.to \in Int /\ s \in StatementsIn(q.op) /\ RowOK(r, s)
  BY DEF AnalyticsInv, KeptOK, FinishedOK, ReportCallOK, Periods
<1>2. PICK X \in SUBSET events, Y \in SUBSET sessions :
        /\ \A e \in events : e.at < began[r] => e \in X
        /\ \A y \in sessions : y.startedAt < began[r] => y \in Y
        /\ rows[r][s] \in ResultsIn(X, Y, s, q, p)
  BY <1>1 DEF RowOK
<1>3. began[r] \in Int /\ ended[r] \in Int /\ Hour \in Int /\ Skew \in Nat
  BY <1>1, AnalyticsConstants DEF AnalyticsTypeOK, CacheOK
<1>4. ended[r] - began[r] < Hour - Skew
  <2>1. 0 \in {0} \cup {e.delay : e \in Relevant(r)}
    OBVIOUS
  <2>2. ~(ended[r] - began[r] + 0 >= Hour - Skew)
    BY <2>1
  <2> QED
    BY <1>3, <2>2
<1>5. ASSUME NEW e \in events, Bears(e.ws, e.ts, q, p) PROVE e \in X
  <2>1. e \in Relevant(r)
    BY <1>5 DEF Bears, Relevant
  <2>2. e.delay \in Int /\ e.ts \in Int /\ e.at \in Int /\ e.at - e.delay - Skew <= e.ts
    BY <1>1 DEF AnalyticsTypeOK, CacheOK
  <2>3. ended[r] - began[r] + e.delay < Hour - Skew
    BY <1>3, <2>1, <2>2
  <2>4. e.ts <= p.to
    BY <1>5 DEF Bears
  <2>5. e.at < began[r]
    BY <1>1, <1>3, <2>2, <2>3, <2>4
  <2> QED
    BY <1>2, <2>5
<1>6. ASSUME NEW y \in sessions, Bears(y.ws, y.startedAt, q, p) PROVE y \in Y
  <2>1. y.startedAt \in Int /\ y.startedAt <= p.to
    BY <1>1, <1>6 DEF AnalyticsTypeOK, CacheOK, Bears
  <2>2. y.startedAt < began[r]
    BY <1>1, <1>3, <1>4, <2>1
  <2> QED
    BY <1>2, <2>2
<1>7. ResultsIn(X, Y, s, q, p) = ResultsIn(events, sessions, s, q, p)
  <2>1. (\A e \in X \cup events : e.ts \in Int) /\ \A y \in Y \cup sessions : y.startedAt \in Int
    BY <1>1 DEF AnalyticsTypeOK, CacheOK
  <2>2. \A e : Bears(e.ws, e.ts, q, p) => (e \in X <=> e \in events)
    BY <1>5
  <2>3. \A y : Bears(y.ws, y.startedAt, q, p) => (y \in Y <=> y \in sessions)
    BY <1>6
  <2> HIDE DEF q, p
  <2> QED
    BY <1>1, <2>1, <2>2, <2>3, SameResults
<1> QED
  BY <1>2, <1>7, ResultsNow

\* For all lifetimes, skews and delays, what the cache holds is what the
\* statements would return now, unless the report, or a row that bears on it,
\* took so long that it used up the hour.
THEOREM KeptAreExact == AnalyticsSpec => []KeptReportsExact
<1>1. ASSUME AnalyticsInv PROVE KeptReportsExact
  <2> SUFFICES ASSUME NEW r \in Kept,
                      ~\E late \in {0} \cup {e.delay : e \in Relevant(r)} : ended[r] - began[r] + late >= Hour - Skew,
                      NEW s \in DOMAIN rows[r]
               PROVE  rows[r][s] \in Results(s, query[r], period[r])
    BY DEF KeptReportsExact
  <2>1. KeptOK(r) /\ r \in Calls
    BY <1>1 DEF Kept, AnalyticsInv, CacheKeeps, KeptOK, FinishedOK
  <2> QED
    BY <1>1, <2>1, ExactIfInTime
<1> QED
  BY <1>1, AnalyticsInductive, PTL

\* A ranking keeps the events it counts.
LEMMA RankedEvents ==
    ASSUME NEW E, NEW limit, NEW r \in Rankings(E, limit)
    PROVE  r.events = E
BY DEF Rankings, Descending

\* A report, from the cache or not, on a period that reaches into the last
\* hour counts every event that was stored before it was asked for, in its
\* totals, rankings, series and visitors, and in those of the previous period.
THEOREM FreshReports == AnalyticsSpec => []FreshUnlessEnded
<1>1. ASSUME AnalyticsInv PROVE FreshUnlessEnded
  <2> SUFFICES ASSUME NEW c \in Reported, period[reply[c]].to > began[c] - Hour,
                      NEW s \in DOMAIN rows[reply[c]] \cap Counting
               PROVE  Stored(reply[c], PeriodOf(s, period[reply[c]]), began[c])
                      \subseteq Counted(s, rows[reply[c]][s])
    BY DEF FreshUnlessEnded
  <2>1. c \in Calls /\ reply[c] \in Calls /\ ReportCallOK(c) /\ AnalyticsTypeOK
    BY <1>1 DEF Reported, AnalyticsInv
  <2>2. reply[c] = c /\ FinishedOK(c)
    <3> SUFFICES ASSUME reply[c] # c PROVE FALSE
      BY <2>1 DEF ReportCallOK
    <3> DEFINE r == reply[c]
    <3>1. KeptOK(r) /\ ended[r] <= began[c] /\ r \in Calls
      BY <2>1 DEF ReportCallOK
    <3>2. period[r].to \in Int /\ ended[r] \in Int /\ began[c] \in Int /\ Hour \in Int
      BY <2>1, <3>1, AnalyticsConstants DEF KeptOK, FinishedOK, Periods, AnalyticsTypeOK, CacheOK
    <3>3. period[r].to <= ended[r] - Hour
      BY <3>1 DEF KeptOK
    <3> HIDE DEF r
    <3>4. period[r].to > began[c] - Hour
      BY DEF r
    <3> QED
      BY <3>1, <3>2, <3>3, <3>4
  <2>3. RowOK(c, s)
    BY <2>1, <2>2 DEF ReportCallOK
  <2>4. PICK X \in SUBSET events, Y \in SUBSET sessions :
          /\ \A e \in events : e.at < began[c] => e \in X
          /\ rows[c][s] \in ResultsIn(X, Y, s, query[c], period[c])
    BY <2>3 DEF RowOK
  <2>5. Counted(s, rows[c][s]) = SelectedIn(X, query[c].ws, PeriodOf(s, period[c]))
    <3> DEFINE E == SelectedIn(X, query[c].ws, PeriodOf(s, period[c]))
    <3>1. CASE s \in {"top", "previousTop"}
      <4>1. rows[c][s] \in Rankings(E, TopLimit(s, query[c]))
        BY <2>4, <3>1 DEF ResultsIn
      <4> QED
        BY <3>1, <4>1, RankedEvents DEF Counted
    <3>2. CASE s = "summary"
      BY <2>4, <3>2 DEF ResultsIn, Counted, PeriodOf, Previous
    <3>3. CASE s \in {"counts", "previousCounts", "series", "count"}
      BY <2>4, <3>3 DEF ResultsIn, Counted
    <3> QED
      BY <3>1, <3>2, <3>3 DEF Counting
  <2>6. ASSUME NEW e \in Stored(c, PeriodOf(s, period[c]), began[c]) PROVE e \in Counted(s, rows[c][s])
    BY <2>4, <2>5, <2>6 DEF Stored, Selected, SelectedIn
  <2> QED
    BY <2>2, <2>6
<1> QED
  BY <1>1, AnalyticsInductive, PTL

\* A visitor is reported as new at most once.
THEOREM NewVisitorsOnce == AnalyticsSpec => []NewOnce
<1>1. ASSUME AnalyticsInv PROVE NewOnce
  <2> SUFFICES ASSUME NEW r \in ReportsOn("users"), NEW l \in ReportsOn("users"),
                      query[r].ws = query[l].ws, period[r].to < period[l].from, ended[r] < began[l],
                      NEW v \in Visitors(rows[r]["summary"].events), v \in Visitors(rows[l]["summary"].events)
               PROVE  v \in rows[l]["summary"].returning
    BY DEF NewOnce
  <2>1. ASSUME NEW x \in ReportsOn("users")
        PROVE  /\ x \in Calls /\ query[x] \in AnalyticsQueries /\ period[x] \in Periods
               /\ pc[x] = "done" /\ RowOK(x, "summary")
    <3>1. PICK c \in Calls : reply[c] = x /\ x \in Calls /\ query[x].op = "users"
      BY <2>1 DEF ReportsOn, Reported
    <3>2. FinishedOK(x)
      BY <1>1, <3>1 DEF AnalyticsInv, ReportCallOK
    <3>3. "summary" \in DOMAIN rows[x]
      BY <3>1, <3>2, EndpointStatements DEF FinishedOK
    <3> QED
      BY <1>1, <3>1, <3>2, <3>3 DEF AnalyticsInv, ReportCallOK, FinishedOK
  <2>2. AnalyticsTypeOK
    BY <1>1 DEF AnalyticsInv
  <2>3. PICK X \in SUBSET events, Y \in SUBSET sessions :
          /\ \A e \in X : e.at <= ended[r]
          /\ rows[r]["summary"] \in ResultsIn(X, Y, "summary", query[r], period[r])
    BY <2>1 DEF RowOK
  <2>4. PICK Z \in SUBSET events, W \in SUBSET sessions :
          /\ \A e \in events : e.at < began[l] => e \in Z
          /\ rows[l]["summary"] \in ResultsIn(Z, W, "summary", query[l], period[l])
    BY <2>1 DEF RowOK
  <2>5. rows[r]["summary"].events = SelectedIn(X, query[r].ws, period[r])
    BY <2>3 DEF ResultsIn, PeriodOf, Previous
  <2>6. /\ rows[l]["summary"].events = SelectedIn(Z, query[l].ws, period[l])
        /\ rows[l]["summary"].returning = ReturningIn(Z, query[l].ws, period[l])
    BY <2>4 DEF ResultsIn, PeriodOf, Previous
  <2>7. PICK e \in X : e.visitor = v /\ e.ws = query[r].ws /\ Within(e.ts, period[r])
    BY <2>5 DEF Visitors, SelectedIn
  <2>8. e \in events /\ e.at \in Int /\ e.ts \in Int /\ e.at <= ended[r]
    BY <2>2, <2>3, <2>7 DEF AnalyticsTypeOK, CacheOK
  <2>9. ended[r] \in Int /\ began[l] \in Int /\ period[r].to \in Int /\ period[l].from \in Int
    BY <2>1, <2>2 DEF AnalyticsTypeOK, CacheOK, Periods
  <2>10. e \in Z /\ e.ts < period[l].from
    BY <2>4, <2>7, <2>8, <2>9 DEF Within
  <2> QED
    BY <2>6, <2>7, <2>10 DEF ReturningIn, SelectedIn
<1> QED
  BY <1>1, AnalyticsInductive, PTL

-----------------------------------------------------------------------------
(* Buckets and slots.                                                      *)

\* Division with a rest.
LEMMA Division ==
    ASSUME NEW a \in Int, NEW size \in Nat \ {0}
    PROVE  /\ a \div size \in Int /\ a % size \in 0..size - 1
           /\ a = size * (a \div size) + (a % size)
  BY SMT

\* A multiple of a size that lies in a range of that size.
LEMMA Multiples ==
    ASSUME NEW size \in Nat \ {0}, NEW k \in Int
    PROVE  /\ size * k \in Int
           /\ size * k > 0 - size => k >= 0
           /\ size * k < 2 * size => k <= 1
           /\ size * k > 0 => k >= 1
           /\ size * k < size => k <= 0
<1>1. k <= 0 - 1 => size * k <= 0 - size
  BY SMT
<1>2. k >= 2 => size * k >= 2 * size
  BY SMT
<1>3. k >= 1 => size * k >= size
  BY SMT
<1>4. k <= 0 => size * k <= 0
  BY SMT
<1>5. size * k \in Int
  BY SMT
<1> QED
  BY <1>1, <1>2, <1>3, <1>4, <1>5, SMT

\* Where a bucket of some size starts.
Start(t, size) == t - (t % size)

\* The bucket of a time less than a size after another is that of the other or
\* the next one.
LEMMA BucketAfter ==
    ASSUME NEW a \in Int, NEW b \in Int, NEW size \in Nat \ {0}, a <= b, b < a + size
    PROVE  /\ Start(a + size, size) = Start(a, size) + size
           /\ Start(b, size) \in {Start(a, size), Start(a + size, size)}
<1> DEFINE k == (b \div size) - (a \div size)
           m == ((a + size) \div size) - (a \div size)
<1>1. /\ a \div size \in Int /\ a % size \in 0..size - 1
      /\ a = size * (a \div size) + (a % size)
  BY Division
<1>2. /\ b \div size \in Int /\ b % size \in 0..size - 1
      /\ b = size * (b \div size) + (b % size)
  BY Division
<1>3. /\ (a + size) \div size \in Int /\ (a + size) % size \in 0..size - 1
      /\ a + size = size * ((a + size) \div size) + ((a + size) % size)
  <2>1. a + size \in Int
    OBVIOUS
  <2> QED
    BY <2>1, Division
<1>4. k \in Int /\ m \in Int
  BY <1>1, <1>2, <1>3
<1>5. size * k = size * (b \div size) - size * (a \div size)
  BY <1>1, <1>2, SMT
<1>6. size * m = size * ((a + size) \div size) - size * (a \div size)
  BY <1>1, <1>3, SMT
<1>7. /\ size * (a \div size) \in Int /\ size * (b \div size) \in Int
      /\ size * ((a + size) \div size) \in Int
  BY <1>1, <1>2, <1>3, Multiples
<1>8. size * k = Start(b, size) - Start(a, size) /\ size * k > 0 - size /\ size * k < 2 * size
  <2> DEFINE sa == size * (a \div size)
             sb == size * (b \div size)
             ra == a % size
             rb == b % size
             sk == size * k
  <2>1. sa \in Int /\ sb \in Int /\ ra \in 0..size - 1 /\ rb \in 0..size - 1 /\ sk = sb - sa
        /\ a = sa + ra /\ b = sb + rb
    BY <1>1, <1>2, <1>5, <1>7
  <2>2. Start(b, size) = b - rb /\ Start(a, size) = a - ra
    BY DEF Start
  <2> HIDE DEF sa, sb, ra, rb, sk
  <2>3. sk = Start(b, size) - Start(a, size) /\ sk > 0 - size /\ sk < 2 * size
    BY <2>1, <2>2
  <2> QED
    BY <2>3 DEF sk
<1>9. size * m = Start(a + size, size) - Start(a, size) /\ size * m > 0 /\ size * m < 2 * size
  <2> DEFINE sa == size * (a \div size)
             sb == size * ((a + size) \div size)
             ra == a % size
             rb == (a + size) % size
             sm == size * m
  <2>1. sa \in Int /\ sb \in Int /\ ra \in 0..size - 1 /\ rb \in 0..size - 1 /\ sm = sb - sa
        /\ a = sa + ra /\ a + size = sb + rb
    BY <1>1, <1>3, <1>6, <1>7
  <2>2. Start(a + size, size) = a + size - rb /\ Start(a, size) = a - ra
    BY DEF Start
  <2> HIDE DEF sa, sb, ra, rb, sm
  <2>3. sm = Start(a + size, size) - Start(a, size) /\ sm > 0 /\ sm < 2 * size
    BY <2>1, <2>2
  <2> QED
    BY <2>3 DEF sm
<1>10. Start(a, size) \in Int /\ Start(b, size) \in Int /\ Start(a + size, size) \in Int
  BY <1>1, <1>2, <1>3 DEF Start
<1> HIDE DEF k, m
<1>11. k \in {0, 1} /\ m = 1
  BY <1>4, <1>8, <1>9, Multiples
<1>12. size * 1 = size /\ size * 0 = 0
  OBVIOUS
<1>13. Start(a + size, size) = Start(a, size) + size
  BY <1>9, <1>10, <1>11, <1>12
<1>14. CASE k = 0
  BY <1>8, <1>10, <1>12, <1>13, <1>14
<1>15. CASE k = 1
  BY <1>8, <1>10, <1>12, <1>13, <1>15
<1> QED
  BY <1>11, <1>13, <1>14, <1>15

\* The slot that a time of a period falls in, counted from the start of the period.
LEMMA SlotOf ==
    ASSUME NEW from \in Int, NEW to \in Int, NEW t \in Int, from <= t, t <= to, NEW size \in Nat \ {0}
    PROVE  \E i \in 0..((to - from) \div size) :
              /\ from + i * size \in Int /\ (i + 1) * size = i * size + size
              /\ from + i * size <= t /\ t < from + i * size + size
              /\ i = (to - from) \div size =>
                    /\ to < from + i * size + size
                    /\ (to - from) % size = 0 => to = from + i * size
<1> DEFINE i == (t - from) \div size
           n == (to - from) \div size
           ri == (t - from) % size
           rn == (to - from) % size
<1>1. i \in Int /\ ri \in 0..size - 1 /\ t - from = size * i + ri
  <2>1. t - from \in Int
    OBVIOUS
  <2> QED
    BY <2>1, Division
<1>2. n \in Int /\ rn \in 0..size - 1 /\ to - from = size * n + rn
  <2>1. to - from \in Int
    OBVIOUS
  <2> QED
    BY <2>1, Division
<1> HIDE DEF i, n, ri, rn
<1>3. size * i \in Int /\ size * n \in Int /\ size * i = i * size /\ (i + 1) * size = i * size + size
  BY <1>1, <1>2, SMT
<1>4. i >= 0
  <2>1. size * i > 0 - size
    BY <1>1, <1>3
  <2> QED
    BY <1>1, <2>1, Multiples
<1>5. i <= n
  <2>1. size * (i - n) = size * i - size * n
    BY <1>1, <1>2, SMT
  <2>2. size * (i - n) < size
    BY <1>1, <1>2, <1>3, <2>1
  <2>3. i - n \in Int
    BY <1>1, <1>2
  <2>4. i - n <= 0
    BY <2>2, <2>3, Multiples
  <2> QED
    BY <1>1, <1>2, <2>4
<1>6. /\ from + i * size \in Int /\ from + i * size <= t /\ t < from + i * size + size
  BY <1>1, <1>3
<1>7. i = n => to < from + i * size + size /\ (rn = 0 => to = from + i * size)
  BY <1>2, <1>3
<1>8. i \in 0..n
  BY <1>1, <1>2, <1>4, <1>5
<1> QED
  BY <1>3, <1>6, <1>7, <1>8 DEF n, rn

\* A time is in the bucket of a slot of a period, or in that of the end of a
\* period that is no whole number of slots.
Covered(from, to, t, size) ==
    \/ \E i \in 0..((to - from) \div size) : Start(t, size) = Start(from + i * size, size)
    \/ Start(t, size) = Start(to, size) /\ (to - from) % size # 0

\* Every time of a period is.
LEMMA SlotsCover ==
    ASSUME NEW from \in Int, NEW to \in Int, NEW t \in Int, from <= t, t <= to, NEW size \in Nat \ {0}
    PROVE  Covered(from, to, t, size)
<1> DEFINE n == (to - from) \div size
<1>1. PICK i \in 0..n :
              /\ from + i * size \in Int /\ (i + 1) * size = i * size + size
              /\ from + i * size <= t /\ t < from + i * size + size
              /\ i = n =>
                    /\ to < from + i * size + size
                    /\ (to - from) % size = 0 => to = from + i * size
  BY SlotOf
<1>2. n \in Int
  <2>1. to - from \in Int
    OBVIOUS
  <2> QED
    BY <2>1, Division
<1> DEFINE a == from + i * size
<1>3. Start(a + size, size) = Start(a, size) + size /\ Start(t, size) \in {Start(a, size), Start(a + size, size)}
  <2>1. a \in Int /\ a <= t /\ t < a + size
    BY <1>1
  <2> HIDE DEF a
  <2> QED
    BY <2>1, BucketAfter
<1>4. i \in Int /\ i * size \in Int
  BY <1>2, SMT
<1>5. CASE Start(t, size) = Start(a, size)
  BY <1>5 DEF Covered
<1>6. CASE Start(t, size) = Start(a + size, size) /\ i # n
  <2>1. i + 1 \in 0..n
    BY <1>2, <1>6
  <2>2. from + (i + 1) * size = a + size
    BY <1>1, <1>4
  <2> QED
    BY <1>6, <2>1, <2>2 DEF Covered
<1>7. CASE Start(t, size) = Start(a + size, size) /\ Start(t, size) # Start(a, size) /\ i = n
  <2>1. a \in Int /\ a <= t /\ t < a + size /\ to < a + size /\ a <= to
    BY <1>1, <1>7
  <2>2. (to - from) % size = 0 => to = a
    BY <1>1, <1>7
  <2> HIDE DEF a, n
  <2>3. Start(to, size) \in {Start(a, size), Start(a + size, size)}
    BY <2>1, BucketAfter
  <2>4. \A x \in Int : Start(x, size) \in Int /\ Start(x, size) <= x /\ x < Start(x, size) + size
    BY Division DEF Start
  <2>5. Start(to, size) # Start(a, size)
    BY <1>3, <1>7, <2>1, <2>4
  <2>6. (to - from) % size # 0
    <3> SUFFICES ASSUME (to - from) % size = 0 PROVE FALSE
      OBVIOUS
    <3>1. to = a /\ t = a
      BY <2>1, <2>2
    <3> QED
      BY <1>7, <3>1
  <2> QED
    BY <1>7, <2>3, <2>5, <2>6 DEF Covered
<1> QED
  BY <1>3, <1>5, <1>6, <1>7

\* For all sizes of slots, the points of a series in UTC by hours or days count
\* every event of the period, but for the last slot of a period that is no
\* whole number of slots.
THEOREM SeriesAccount == AnalyticsSpec => []SeriesAccounts
<1>1. ASSUME AnalyticsInv PROVE SeriesAccounts
  <2> SUFFICES ASSUME NEW r \in ReportsOn("timeseries"), query[r].zone = 0, query[r].granularity # "week",
                      NEW e \in rows[r]["series"]
               PROVE  LET g == query[r].granularity
                          p == period[r]
                      IN \/ Bucket(e.ts, g) \in DOMAIN Points(query[r], p, rows[r]["series"])
                         \/ Bucket(e.ts, g) = Bucket(p.to, g) /\ (p.to - p.from) % Size(g) # 0
    BY DEF SeriesAccounts
  <2> DEFINE g == query[r].granularity
             p == period[r]
             size == Size(g)
  <2>1. r \in Calls /\ query[r].op = "timeseries" /\ FinishedOK(r) /\ AnalyticsTypeOK
    BY <1>1 DEF ReportsOn, Reported, AnalyticsInv, ReportCallOK
  <2>2. query[r] \in AnalyticsQueries /\ p \in Periods /\ "series" \in DOMAIN rows[r] /\ pc[r] = "done"
    BY <2>1, EndpointStatements DEF FinishedOK
  <2>3. RowOK(r, "series")
    BY <1>1, <2>1, <2>2 DEF AnalyticsInv, ReportCallOK
  <2>4. PICK X \in SUBSET events, Y \in SUBSET sessions :
          rows[r]["series"] \in ResultsIn(X, Y, "series", query[r], p)
    BY <2>3 DEF RowOK
  <2>5. rows[r]["series"] = SelectedIn(X, query[r].ws, p)
    BY <2>4 DEF ResultsIn, PeriodOf, Previous
  <2>6. p.from \in Int /\ p.to \in Int /\ e.ts \in Int /\ p.from <= e.ts /\ e.ts <= p.to
    BY <2>1, <2>2, <2>5 DEF Periods, SelectedIn, Within, AnalyticsTypeOK
  <2>7. g \in {"hour", "day"} /\ size \in Nat \ {0}
    BY <2>1, <2>2, AnalyticsConstants DEF Size
  <2>8. \A t : Bucket(t, g) = Start(t, size)
    BY DEF Bucket, Start
  <2>9. ASSUME NEW i \in 0..((p.to - p.from) \div size)
        PROVE  Start(p.from + i * size, size) \in DOMAIN Points(query[r], p, rows[r]["series"])
    <3> DEFINE t == p.from + i * size
    <3>1. t \in Slots(p, g)
      BY DEF Slots
    <3>2. t \in Int
      <4>1. (p.to - p.from) \div size \in Int
        <5>1. p.to - p.from \in Int
          BY <2>6
        <5> HIDE DEF size
        <5> QED
          BY <2>7, <5>1, Division
      <4> HIDE DEF size
      <4>2. i * size \in Int
        BY <2>7, <4>1, SMT
      <4> QED
        BY <2>6, <4>2
    <3>3. InZone(t, query[r].zone) = t
      <4> HIDE DEF t
      <4> QED
        BY <3>2 DEF InZone
    <3>4. LabelOf(InZone(t, query[r].zone), g) = Start(t, size)
      BY <3>3 DEF LabelOf, Start
    <3> HIDE DEF t
    <3>5. Start(t, size) \in {LabelOf(InZone(x, query[r].zone), query[r].granularity) : x \in Slots(p, query[r].granularity)}
      BY <3>1, <3>4
    <3> QED
      BY <3>5 DEF Points, t
  <2>10. \/ \E i \in 0..((p.to - p.from) \div size) : Start(e.ts, size) = Start(p.from + i * size, size)
         \/ Start(e.ts, size) = Start(p.to, size) /\ (p.to - p.from) % size # 0
    <3> DEFINE first == p.from
               last == p.to
               t == e.ts
    <3>1. first \in Int /\ last \in Int /\ t \in Int /\ first <= t /\ t <= last
      BY <2>6
    <3> HIDE DEF first, last, t, size
    <3>2. size \in Nat \ {0}
      BY <2>7
    <3>3. Covered(first, last, t, size)
      BY <3>1, <3>2, SlotsCover
    <3> QED
      BY <3>3 DEF first, last, t, Covered
  <2> QED
    BY <2>8, <2>9, <2>10
<1> QED
  BY <1>1, AnalyticsInductive, PTL
=============================================================================
