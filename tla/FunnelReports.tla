---------------------------- MODULE FunnelReports ----------------------------
(***************************************************************************)
(* The analytics endpoints of a funnel: FunnelAnalyticsController,         *)
(* FunnelAnalyticsService, the services for bottlenecks, paths,            *)
(* attribution and comparison, and FunnelExportService with its jobs, over *)
(* the shared cache, while funnels are changed and archived and the        *)
(* process restarts.                                                       *)
(*                                                                         *)
(* A request is a sequence of steps between which it awaits; so is the     *)
(* work of an export, which goes on after its request was answered.  No    *)
(* state of a user in a funnel is ever stored (FunnelRealtimeService       *)
(* follows no funnel), so what is read of one is that there is none.  A    *)
(* report is named by the call that made it; a tick is some seconds.       *)
(***************************************************************************)
EXTENDS ReportCalls, FunnelStatements, Sequences

CONSTANTS
    Queries,        \* the queries that may arrive
    Beginnings,     \* the tenants and the funnels at the start
    LeastRefresh, MostRefresh,  \* of live metrics
    ReportTTL,      \* of the other reports
    DataTTL,        \* of the data of an export
    ConfigTTL,      \* of a configuration
    MaxRestarts,    \* bound
    MaxFaults       \* bound: statements and files that fail

Tasks == Calls \X {"request", "job"}

VARIABLES
    tenants,    \* those there are
    funnels,    \* the rows: [id, tenant, workspace, archivedAt]
    jobs,       \* exportJobs: [Calls -> [status, data] or NULL]; data: by whom it was collected
    todo,       \* of a task: the steps that are left
    restarts, faults,
    before,     \* history: the calls answered before it
    accepted,   \* history: the calls that started a job
    keptAt      \* history: when a call last stored the configuration

history == <<began, ended, before, accepted, keptAt>>
vars == <<now, cache, tenants, funnels, jobs, pc, query, todo, reply, restarts, faults, history>>

-----------------------------------------------------------------------------
(* The steps of the endpoints.                                             *)

\* getFunnelById of the repository, in the order of its parameters.
Rows(id, tenant, workspace) ==
    {f \in funnels : f.id = id /\ f.tenant = tenant /\ f.workspace = workspace /\ f.archivedAt = NULL}

\* A funnel as it is created.
Row(id, tenant, workspace) ==
    [id |-> id, tenant |-> tenant, workspace |-> workspace, archivedAt |-> NULL]

Check(id, tenant, workspace) == [do |-> "check", id |-> id, tenant |-> tenant, workspace |-> workspace]
Query(method) == [do |-> "query", method |-> method]
LookUp == [do |-> "lookUp"]
Store == [do |-> "store"]
Respond == [do |-> "respond"]

\* The check as most endpoints make it: the tenant in place of the funnel, the
\* workspace in place of the tenant, the funnel in place of the workspace.
CheckShifted(q) == Check(q.tenant, q.workspace, q.funnel)

CheckFunnel(q) == Check(q.funnel, q.tenant, q.workspace)

\* calculateConversionRates of a funnel with a step.
ConversionRates(q) ==
    <<CheckShifted(q), Query("getStepCompletions"), Query("getAverageStepCompletionTime"),
      Query("getAverageTimeToConvert"), Query("getConversionVelocity")>>

\* The rates need those of the previous period, and so on: there is no end.
ConversionStatements(q) == <<CheckShifted(q)>> \o ConversionRates(q) \o ConversionRates(q)

ConversionPlan(q) == <<LookUp>> \o ConversionStatements(q)

DropoffStatements(q) ==
    <<CheckShifted(q), Query("getStepDropoffRates"), Query("getBottleneckSeverityScoring"),
      Query("getExitPathAnalysis"), Query("generateOptimizationRecommendations")>>

DropoffPlan(q) == <<LookUp>> \o DropoffStatements(q) \o <<Store>>

CohortsStatements(q) ==
    <<CheckShifted(q), Query("getCohortsByPeriod"), Query("getCohortProgression"),
      Query("compareCohortStatistics")>>

CohortsPlan(q) == <<LookUp>> \o CohortsStatements(q) \o <<Store>>

TimingQueries ==
    <<Query("getConversionTimingDistribution"), Query("getStepTimingAnalysis"),
      Query("getVelocityTrends"), Query("getSegmentTimingComparison")>>

TimingPlan(q) == <<CheckFunnel(q), LookUp>> \o TimingQueries \o <<Store>>

BottlenecksPlan ==
    <<LookUp, Query("getStepConversionMetrics"), Query("getStepConversionMetrics"),
      Query("getConversionTimeSeries"), Store>>

PathsPlan == <<LookUp, Query("getUserJourneys"), Store>>

AttributionPlan == <<LookUp, Query("getTouchpointJourneys"), Store>>

\* getFunnelComparisonData, of the first funnel; the others follow.
ComparePlan(q) ==
    <<LookUp, CheckFunnel(q), Query("getAverageConversionRate"), Query("getStepCompletions"),
      Query("getAverageTimeToConvert"), Store>>

\* getFunnelSteps: the labels of the steps are read too, but need not be there.
ReadSteps == Query("getFunnelSteps")

LivePlan(q) ==
    <<LookUp, CheckShifted(q), Query("getLiveMetrics"), ReadSteps, Query("detectAnomalies"), Store>>

\* The answer that there is no such user in the funnel is not kept.
UsersPlan(q) == <<LookUp, CheckShifted(q), Query("getUserProgression"), Respond>>

\* createExport: the second look is that of estimateExportSize.
ExportPlan == <<[do |-> "config"], [do |-> "config"], [do |-> "start"]>>

Plan(q) ==
    CASE q.op = "conversion" -> ConversionPlan(q)
      [] q.op = "dropoff" -> DropoffPlan(q)
      [] q.op = "cohorts" -> CohortsPlan(q)
      [] q.op = "timing" -> TimingPlan(q)
      [] q.op = "bottlenecks" -> BottlenecksPlan
      [] q.op = "paths" -> PathsPlan
      [] q.op = "attribution" -> AttributionPlan
      [] q.op = "compare" -> ComparePlan(q)
      [] q.op = "live" -> LivePlan(q)
      [] q.op = "users" -> UsersPlan(q)
      [] q.op = "export" -> ExportPlan

\* The statements of the reports that are collected for an export, whose
\* look-ups find nothing.
DetailedData(q) ==
    ConversionStatements(q) \o DropoffStatements(q)
    \o <<CheckFunnel(q)>> \o TimingQueries \o CohortsStatements(q)

\* getFunnelDataForExport, where nothing is cached: raw events are not read at all.
CollectPlan(q) ==
    <<[do |-> "config"]>>
    \o (CASE q.type = "summary" -> ConversionStatements(q)
          [] q.type = "detailed" -> DetailedData(q)
          [] q.type = "raw" -> <<>>)
    \o <<[do |-> "keepData"]>>

\* Mutant: the file is written while the data is being collected.
WriteFirst(q, known) ==
    <<[do |-> "write"]>> \o (IF known THEN <<>> ELSE CollectPlan(q))

\* processExportAsync
JobPlan(q, known) ==
    (IF known THEN <<>> ELSE CollectPlan(q)) \o <<[do |-> "write"]>>

-----------------------------------------------------------------------------
(* What the controller refuses.  A period counts in days, NULL if a date   *)
(* is missing; options says that what else may be chosen is on offer.      *)

ValidConversion(q) == q.days \in 1..90 /\ q.options
ValidDropoff(q) == q.days # NULL /\ q.options
ValidCohorts(q) == q.days # NULL /\ q.options
\* The service checks the length, after its look-up.
ValidTiming(q) == q.days \in 1..730 /\ q.options
\* The numbers are clamped before.
ValidBottlenecks(q) == q.options
\* Of a missing date there is a default, by which the period is 30 days.
ValidPaths(q) == (q.days = NULL \/ q.days \in 1..90) /\ q.options
ValidAttribution(q) == (q.days = NULL \/ q.days \in 1..180) /\ q.options
ValidComparison(q) == q.days \in 1..180 /\ q.options
\* Dates may be left out.
ValidExport(q) == (q.days = NULL \/ q.days > 0) /\ q.options

IsValid(q) ==
    CASE q.op = "conversion" -> ValidConversion(q)
      [] q.op = "dropoff" -> ValidDropoff(q)
      [] q.op = "cohorts" -> ValidCohorts(q)
      [] q.op = "timing" -> ValidTiming(q)
      [] q.op = "bottlenecks" -> ValidBottlenecks(q)
      [] q.op = "paths" -> ValidPaths(q)
      [] q.op = "attribution" -> ValidAttribution(q)
      [] q.op = "compare" -> ValidComparison(q)
      [] q.op \in {"live", "users"} -> TRUE
      [] q.op = "export" -> ValidExport(q)

\* An export needs no scope.
Refused(q) == ~IsValid(q) \/ (q.op # "export" /\ ~q.reads)

-----------------------------------------------------------------------------
(* Keys and lifetimes.                                                     *)

\* generateCacheKey; what is said of a user is never kept, nor is he named here.
Key(q) == <<q.op, q.tenant, q.workspace, q.funnel>>

\* Mutant: the key names the funnel only.
ConfigKeyOfFunnel(q) == <<"config", NULL, NULL, q.funnel>>

ConfigKey(q) == <<"config", q.tenant, q.workspace, q.funnel>>

\* It names neither the tenant nor the workspace.
DataKey(q) == <<q.type, NULL, NULL, q.funnel>>

AtLeast(n, m) == IF n < m THEN m ELSE n
AtMost(n, m) == IF n > m THEN m ELSE n

\* Mutant: the interval has no upper limit.
Unlimited(q) == AtLeast(q.refresh, LeastRefresh)

\* The controller's limits of the interval.
RefreshInterval(q) == AtLeast(AtMost(q.refresh, MostRefresh), LeastRefresh)

Lifetime(q) == IF q.op = "live" THEN AtLeast(RefreshInterval(q), LeastRefresh) ELSE ReportTTL

\* The archiving of funnels is told apart by time, and an id names one row.
ASSUME BeginningsAssumption ==
    \A b \in Beginnings : \A f \in b.funnels :
        /\ f = Row(f.id, f.tenant, f.workspace)
        /\ \A g \in b.funnels : f.id = g.id => f = g

Reporting == {"conversion", "dropoff", "cohorts", "timing", "bottlenecks", "paths", "attribution",
              "compare", "live", "users"}
DataTypes == {"summary", "detailed", "raw"}

ASSUME QueriesAssumption ==
    /\ NULL \notin Queries
    /\ \A q \in Queries : /\ q.op \in Reporting \cup {"export"}
                          /\ q.op = "export" => q.type \in DataTypes
                          /\ q.op = "live" => q.refresh \in Int
                          /\ q.op = "users" => q.readable \in BOOLEAN

Statuses == {"processing", "completed", "failed"}
JobReplies == [job : Calls, status : Statuses \cup {"missing"}]
Jobs == [status : Statuses, data : Calls \cup {NULL}]

\* NULL is no time and no job, and an answer about a job is no report.
ASSUME NullAssumption ==
    /\ NULL \notin Nat /\ NULL \notin Jobs
    /\ \A r \in JobReplies : r \notin Calls \cup {NULL}

ASSUME FunnelReportsAssumption ==
    /\ LeastRefresh \in Nat /\ MostRefresh \in Nat /\ LeastRefresh <= MostRefresh
    /\ MaxRestarts \in Nat /\ MaxFaults \in Nat
    /\ Values = Calls
    /\ {ReportTTL, DataTTL, ConfigTTL} \cup LeastRefresh..MostRefresh \subseteq TTLs
    /\ \A q \in Queries : IF q.op = "export" THEN {ConfigKey(q), DataKey(q)} \subseteq CacheKeys
                                             ELSE Key(q) \in CacheKeys

-----------------------------------------------------------------------------
(* Calls and tasks.                                                        *)

IsNext(t, what) == todo[t] # <<>> /\ Head(todo[t]).do = what
Proceed(t) == todo' = [todo EXCEPT ![t] = Tail(@)]
Give(t, steps) == todo' = [todo EXCEPT ![t] = steps \o Tail(@)]

Answer(c, r) ==
    /\ pc' = [pc EXCEPT ![c] = "done"]
    /\ reply' = [reply EXCEPT ![c] = r]
    /\ ended' = [ended EXCEPT ![c] = now]
NoAnswer == UNCHANGED <<pc, reply, ended>>

SetStatus(j, status) == jobs' = [jobs EXCEPT ![j].status = status]

\* Mutant: the error of a job is logged and nothing else.
OnlyLogged(t) ==
    IF t[2] = "job" THEN UNCHANGED <<pc, reply, ended, jobs>>
    ELSE Answer(t[1], NULL) /\ UNCHANGED jobs

\* An error ends the request, or the job: the catch of processExportAsync.
Catch(t) ==
    IF t[2] = "job" THEN SetStatus(t[1], "failed") /\ NoAnswer
    ELSE Answer(t[1], NULL) /\ UNCHANGED jobs

TaskFails(t) == todo' = [todo EXCEPT ![t] = <<>>] /\ Catch(t)

\* A query arrives and is refused or started.
Begin(c) ==
    /\ pc[c] = "idle"
    /\ \E q \in {q \in Queries : q.tenant \in tenants} :
          /\ query' = [query EXCEPT ![c] = q]
          /\ IF Refused(q)
             THEN Answer(c, NULL) /\ UNCHANGED todo
             ELSE /\ pc' = [pc EXCEPT ![c] = "running"]
                  /\ todo' = [todo EXCEPT ![<<c, "request">>] = Plan(q)]
                  /\ UNCHANGED <<reply, ended>>
    /\ began' = [began EXCEPT ![c] = now]
    /\ before' = [before EXCEPT ![c] = {d \in Calls : pc[d] = "done"}]
    /\ UNCHANGED <<now, cache, tenants, funnels, jobs, restarts, faults, accepted, keptAt>>

IsJobReply(r) == r \notin Calls \cup {NULL}

\* getExportStatus, of a job whose id was told.
AskStatus(c) ==
    /\ pc[c] = "idle"
    /\ \E d \in Calls :
          /\ pc[d] = "done" /\ IsJobReply(reply[d])
          /\ LET j == reply[d].job
             IN Answer(c, [job |-> j, status |-> IF jobs[j] = NULL THEN "missing" ELSE jobs[j].status])
    /\ began' = [began EXCEPT ![c] = now]
    /\ before' = [before EXCEPT ![c] = {d \in Calls : pc[d] = "done"}]
    /\ UNCHANGED <<now, cache, tenants, funnels, jobs, query, todo, restarts, faults, accepted, keptAt>>

-----------------------------------------------------------------------------
(* The steps of a report.                                                  *)

LookUpReport(t) ==
    LET c == t[1]
        hit == Cached(Key(query[c]))
    IN /\ IsNext(t, "lookUp")
       /\ Get(Key(query[c]))
       /\ IF hit = NULL THEN Proceed(t) /\ NoAnswer
          ELSE Answer(c, hit) /\ todo' = [todo EXCEPT ![t] = <<>>]
       /\ UNCHANGED <<now, tenants, funnels, jobs, query, restarts, faults, began, before, accepted, keptAt>>

\* A step that succeeds goes on to the next one, and any other fails the task.
Either(t, succeeds) ==
    /\ IF succeeds THEN Proceed(t) /\ NoAnswer /\ UNCHANGED jobs ELSE TaskFails(t)
    /\ UNCHANGED <<now, cache, tenants, funnels, query, restarts, faults, began, before, accepted, keptAt>>

CheckRow(t) ==
    /\ IsNext(t, "check")
    /\ LET s == Head(todo[t]) IN Either(t, Rows(s.id, s.tenant, s.workspace) # {})

\* A statement raises whatever the tables hold, or BigInt does of a user id
\* that is not a number, if it is not taken as that of a visitor.
Raises(method, q) ==
    \/ method \in DOMAIN Named /\ DatabaseRefuses(method)
    \/ method = "getUserProgression" /\ ~q.readable

RunQuery(t) ==
    /\ IsNext(t, "query")
    /\ Either(t, ~Raises(Head(todo[t]).method, query[t[1]]))

StoreReport(t) ==
    LET c == t[1]
    IN /\ IsNext(t, "store")
       /\ Set(Key(query[c]), c, Lifetime(query[c]))
       /\ Proceed(t)
       /\ Answer(c, c)
       /\ UNCHANGED <<now, tenants, funnels, jobs, query, restarts, faults, began, before, accepted, keptAt>>

RespondUnkept(t) ==
    /\ IsNext(t, "respond")
    /\ Proceed(t)
    /\ Answer(t[1], t[1])
    /\ UNCHANGED <<now, cache, tenants, funnels, jobs, query, restarts, faults, began, before, accepted, keptAt>>

-----------------------------------------------------------------------------
(* The configuration, as FunnelConfigService gets it.                      *)

LookUpConfig(t) ==
    LET k == ConfigKey(query[t[1]])
    IN /\ IsNext(t, "config")
       /\ Get(k)
       /\ IF Fresh(k) THEN Proceed(t) ELSE Give(t, <<[do |-> "readConfig"], [do |-> "keepConfig"]>>)
       /\ UNCHANGED <<now, tenants, funnels, jobs, pc, query, reply, restarts, faults, history>>

ReadConfig(t) ==
    LET q == query[t[1]]
    IN IsNext(t, "readConfig") /\ Either(t, Rows(q.funnel, q.tenant, q.workspace) # {})

KeepConfig(t) ==
    LET c == t[1]
    IN /\ IsNext(t, "keepConfig")
       /\ Set(ConfigKey(query[c]), c, ConfigTTL)
       /\ keptAt' = [keptAt EXCEPT ![c] = now]
       /\ Proceed(t)
       /\ UNCHANGED <<now, tenants, funnels, jobs, pc, query, reply, restarts, faults, began, ended, before, accepted>>

-----------------------------------------------------------------------------
(* The steps of an export.                                                 *)

\* The job is made and runs until its first await, the look-up of its data;
\* then the request is answered.
StartJob(t) ==
    LET c == t[1]
        known == Cached(DataKey(query[c]))
    IN /\ IsNext(t, "start")
       /\ Get(DataKey(query[c]))
       /\ jobs' = [jobs EXCEPT ![c] = [status |-> "processing", data |-> known]]
       /\ accepted' = accepted \cup {c}
       /\ todo' = [todo EXCEPT ![t] = Tail(@), ![<<c, "job">>] = JobPlan(query[c], known # NULL)]
       /\ Answer(c, [job |-> c, status |-> "processing"])
       /\ UNCHANGED <<now, tenants, funnels, query, restarts, faults, began, before, keptAt>>

\* The data is complete, with what it takes from the configuration.
KeepData(t) ==
    LET c == t[1]
    IN /\ IsNext(t, "keepData")
       /\ Set(DataKey(query[c]), c, DataTTL)
       /\ jobs' = [jobs EXCEPT ![c].data = c]
       /\ Proceed(t)
       /\ UNCHANGED <<now, tenants, funnels, pc, query, reply, restarts, faults, history>>

\* The file is written; the mail that may follow is not implemented.
WriteFile(t) ==
    /\ IsNext(t, "write")
    /\ SetStatus(t[1], "completed")
    /\ Proceed(t)
    /\ UNCHANGED <<now, cache, tenants, funnels, pc, query, reply, restarts, faults, history>>

-----------------------------------------------------------------------------
(* What happens meanwhile.                                                 *)

\* A statement or a file fails.
Fault(t) ==
    /\ faults < MaxFaults
    /\ \E s \in {"check", "query", "readConfig", "write"} : IsNext(t, s)
    /\ TaskFails(t)
    /\ faults' = faults + 1
    /\ UNCHANGED <<now, cache, tenants, funnels, query, restarts, began, before, accepted, keptAt>>

\* archiveFunnel: it finds no archived row to return, and leaves the caches alone.
Archive(f) ==
    /\ f.archivedAt = NULL
    /\ funnels' = (funnels \ {f}) \cup {[f EXCEPT !.archivedAt = now]}
    /\ UNCHANGED <<now, cache, tenants, jobs, pc, query, todo, reply, restarts, faults, history>>

\* updateFunnel and publishFunnel end with invalidateFunnelCache, which drops
\* the configuration and the live metrics of the funnel.
Invalidate(f) ==
    /\ cache' = [k \in CacheKeys |->
          IF k \in {"config", "live"} \X {f.tenant} \X {f.workspace} \X {f.id} THEN NULL ELSE cache[k]]
    /\ UNCHANGED <<now, tenants, funnels, jobs, pc, query, todo, reply, restarts, faults, history>>

\* The process stops with its calls, jobs and cache, and is started again.
Restart ==
    /\ restarts < MaxRestarts
    /\ restarts' = restarts + 1
    /\ Clear
    /\ jobs' = [j \in Calls |-> NULL]
    /\ pc' = [c \in Calls |-> IF pc[c] = "running" THEN "lost" ELSE pc[c]]
    /\ todo' = [t \in Tasks |-> <<>>]
    /\ UNCHANGED <<now, tenants, funnels, query, reply, faults, history>>

Tick ==
    /\ Advance
    /\ UNCHANGED <<cache, tenants, funnels, jobs, pc, query, todo, reply, restarts, faults, history>>

Expire ==
    /\ CleanupExpired
    /\ UNCHANGED <<now, tenants, funnels, jobs, pc, query, todo, reply, restarts, faults, history>>

Init ==
    /\ CacheInit
    /\ \E b \in Beginnings : tenants = b.tenants /\ funnels = b.funnels
    /\ jobs = [j \in Calls |-> NULL]
    /\ pc = [c \in Calls |-> "idle"]
    /\ query = [c \in Calls |-> NULL]
    /\ todo = [t \in Tasks |-> <<>>]
    /\ reply = [c \in Calls |-> NULL]
    /\ restarts = 0 /\ faults = 0
    /\ began = [c \in Calls |-> 0] /\ ended = [c \in Calls |-> 0]
    /\ before = [c \in Calls |-> {}]
    /\ accepted = {}
    /\ keptAt = [c \in Calls |-> NULL]

Step(t) ==
    \/ LookUpReport(t) \/ CheckRow(t) \/ RunQuery(t) \/ StoreReport(t) \/ RespondUnkept(t)
    \/ LookUpConfig(t) \/ ReadConfig(t) \/ KeepConfig(t)
    \/ StartJob(t) \/ KeepData(t) \/ WriteFile(t)

Next ==
    \/ \E c \in Calls : Begin(c) \/ AskStatus(c)
    \/ \E t \in Tasks : Step(t) \/ Fault(t)
    \/ \E f \in funnels : Archive(f) \/ Invalidate(f)
    \/ Restart
    \/ Expire
    \/ Tick

\* The event loop resumes every task, and the database answers each statement.
Spec == Init /\ [][Next]_vars /\ \A t \in Tasks : WF_vars(Step(t))

-----------------------------------------------------------------------------
(* Properties.                                                             *)

Ids == UNION {{q.funnel, q.tenant, q.workspace} : q \in Queries}
Asking == {"check", "query"}
Reading == {"config", "readConfig", "keepConfig"}
Ending == {"store", "respond", "start", "write"}

Steps == [do : {"check"}, id : Ids, tenant : Ids, workspace : Ids]
         \cup [do : {"query"}, method : DOMAIN Named \cup {"getFunnelSteps"}]
         \cup [do : Reading \cup Ending \cup {"lookUp", "keepData"}]

KindsOf(t) ==
    Asking \cup Reading
    \cup IF t[2] = "job" THEN {"keepData", "write"} ELSE {"lookUp", "store", "respond", "start"}

\* Steps of their kind, and what ends a task is the last of them.
WellFormed(t, steps) ==
    /\ steps \in Seq(Steps)
    /\ \A i \in 1..Len(steps) : /\ steps[i].do \in KindsOf(t)
                                /\ steps[i].do \in Ending => i = Len(steps)

\* Every variable has its type, and only a call under way has steps.
TypeOK ==
    /\ CacheOK
    /\ \A f \in funnels : /\ f = [Row(f.id, f.tenant, f.workspace) EXCEPT !.archivedAt = f.archivedAt]
                          /\ f.archivedAt \in (0..now) \cup {NULL}
    /\ jobs \in [Calls -> Jobs \cup {NULL}]
    /\ pc \in [Calls -> {"idle", "running", "done", "lost"}]
    /\ query \in [Calls -> Queries \cup {NULL}]
    /\ todo = [t \in Tasks |-> todo[t]] /\ \A t \in Tasks : WellFormed(t, todo[t])
    /\ reply \in [Calls -> Calls \cup {NULL} \cup JobReplies]
    /\ restarts \in 0..MaxRestarts /\ faults \in 0..MaxFaults
    /\ began \in [Calls -> 0..now] /\ ended \in [Calls -> 0..now]
    /\ before \in [Calls -> SUBSET Calls] /\ accepted \subseteq Calls
    /\ keptAt \in [Calls -> (0..now) \cup {NULL}]
    /\ \A c \in Calls :
          /\ todo[<<c, "request">>] # <<>> => pc[c] = "running"
          /\ todo[<<c, "job">>] # <<>> => c \in accepted
          /\ c \in accepted => pc[c] = "done" /\ query[c].op = "export"
          /\ pc[c] = "running" => query[c] # NULL

Reports == {c \in Calls : pc[c] = "done" /\ reply[c] \in Calls}

\* Calls o and c ask for the same, of the same funnel.
SameSubject(o, c) ==
    /\ query[o].op = query[c].op
    /\ query[o].tenant = query[c].tenant /\ query[o].workspace = query[c].workspace
    /\ query[o].funnel = query[c].funnel
    /\ query[o].op = "export" => query[o].type = query[c].type

\* What a caller gets, from the cache or not, was made for the endpoint, the
\* funnel and the workspace he asked for, and so was the data an export writes,
\* though its key names no workspace.
AnswersOwn ==
    /\ \A c \in Reports : SameSubject(reply[c], c)
    /\ \A j \in Calls : jobs[j] # NULL /\ jobs[j].data # NULL => SameSubject(jobs[j].data, j)

\* The archiving of the row that a call's check finds, while it was idle.
ArchivedBefore(c, id, tenant, workspace) ==
    {f.archivedAt : f \in {f \in funnels :
        /\ f.id = id /\ f.tenant = tenant /\ f.workspace = workspace
        /\ f.archivedAt # NULL /\ f.archivedAt < began[c]}}

\* After its funnel was archived, live metrics come only from a report that
\* began before, for as long as the controller lets an interval be, and an
\* export starts only on a configuration kept for ConfigTTL by such a call.
ArchivedOnlyFromCopies ==
    /\ \A c \in Reports :
          LET q == query[c]
              r == reply[c]
          IN q.op = "live" =>
                \A a \in ArchivedBefore(c, q.tenant, q.workspace, q.funnel) :
                    began[r] <= a /\ began[c] <= ended[r] + MostRefresh
    /\ \A c \in accepted :
          LET q == query[c]
          IN \A a \in ArchivedBefore(c, q.funnel, q.tenant, q.workspace) :
                \E r \in Calls : /\ keptAt[r] # NULL
                                 /\ ConfigKey(query[r]) = ConfigKey(q)
                                 /\ began[r] <= a /\ began[c] <= keptAt[r] + ConfigTTL

Told == {c \in Calls : pc[c] = "done" /\ IsJobReply(reply[c])}

Rank(s) == CASE s = "processing" -> 1 [] s \in {"completed", "failed"} -> 2 [] s = "missing" -> 3

NoEarlier(s, r) == s = r \/ Rank(r) < Rank(s)

\* What clients are told of a job never goes back: an outcome stays what it
\* is, and a job that is missing stays so.
StatusNeverGoesBack ==
    \A c \in Told : \A d \in Told \cap before[c] :
        reply[d].job = reply[c].job => NoEarlier(reply[c].status, reply[d].status)

\* The jobs, of which those that were accepted and are no longer held are forgotten.
StatusOf(j) ==
    IF j \notin accepted THEN "none" ELSE IF jobs[j] = NULL THEN "forgotten" ELSE jobs[j].status

Promise == INSTANCE ExportJobs WITH Jobs <- Calls, status <- [j \in Calls |-> StatusOf(j)]

\* An accepted job is completed or fails and keeps that outcome, unless the
\* process is restarted.
JobsImplementSpec == Promise!Spec

(* What the code says of itself and does not do.                           *)

\* live-metrics.dto.ts: the answer was made within the interval asked for.
LiveWithinOwnInterval ==
    \A c \in Reports :
        query[c].op = "live" => began[c] <= ended[reply[c]] + RefreshInterval(query[c])

\* The controller serves live metrics of the funnel in the path.
LiveOfOwnFunnel ==
    \A c \in Reports :
        query[c].op = "live" => \E f \in funnels : f.id = query[c].funnel /\ f.tenant = query[c].tenant
                                                /\ f.workspace = query[c].workspace

\* The documented analyses are answered.
AnalysesAnswer ==
    \A c \in Calls :
        pc[c] = "done" /\ query[c] # NULL /\ query[c].op \in {"conversion", "dropoff", "paths"}
        /\ ~Refused(query[c]) /\ faults = 0
        /\ (\E f \in funnels : f = Row(query[c].funnel, query[c].tenant, query[c].workspace))
        => reply[c] # NULL
=============================================================================
