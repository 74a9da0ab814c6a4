# Verification of mercurio-api

Mercurio is a multi-tenant API for tracking events (NestJS on Node, Prisma on PostgreSQL,
optionally Redis, accounts at Supabase).  This directory holds TLA+ models of its core, the
TLC configurations that check them on small instances, and proofs of theorems that hold for
every instance.  Paths below are relative to the repository's root, `src/` of `PROJECT.json`;
the program itself is in `src/src/`.

What makes the program hard is not its arithmetic but its awaits.  Every handler is an async
function that runs alone between two awaits and interleaves with all the others at each of
them.  Few handlers open a transaction, most are a chain *read, await, decide, await, write*,
several processes may run beside each other, and cached copies are filled after a read and
deleted after a write.  Unique indexes catch some of the races, and many are caught by
nothing.  The models keep that control (every query, guard, early return, conflict, caught
exception and their order) and reduce the data to what the properties can tell apart.

## 1. Inventory

| Component | State | Operations | Hard because | Correct when |
|---|---|---|---|---|
| Event processor `events/services/event-processor.service.ts` | tables visitor, session, lead, identity_link, event | track, identify | 5-7 queries without a transaction; unique indexes; retries of the client; a time window for sessions | one stored row per event id and tenant, which all accepted submissions name; sessions belong to their visitor and split only by a race; an identified visitor's events have a lead |
| Events controller `events/controllers/events.controller.ts` | a batch in progress, what went to the funnels | track, identify, batch | chunks of concurrent calls, partial failure, dispatch that is not awaited | counts and results agree with the tables; a refused batch leaves nothing; every request is answered |
| Rate limiting `common/services/rate-limit.service.ts`, `common/guards/rate-limit.guard.ts` | buckets in memory, or a sorted set in Redis | checkLimit, incrementUsage, clean-up, reset | two calls per request with an await between; fractional tokens; pipelines that interleave; outages | admissions are bounded by the limit; nobody is denied without cause |
| Cache `common/services/cache.service.ts` | a Map with expiry and use times | get, set, delete, clear, clean-up, eviction | fixed size, clock granularity | the entry used least recently goes; growth is bounded |
| API keys `common/auth/api-key.service.ts` | table api_key, cached verdicts | validate, create, update, revoke | fill after read against delete after write | a stale verdict needs an overlapping change; names are unique up to races |
| User access `common/auth/user-mapping.service.ts`, `hybrid-auth.guard.ts`, `user-management.controller.ts` | profiles, grants, cached grants | authenticate, grant, revoke, change role | the context is used after awaits; several tenants | the role is that of the workspace; only admins of a tenant manage it |
| Tenants and workspaces `tenants/`, `workspaces/` | rows, grants, a pool of connections | create, rename, delete | queries on other connections inside a transaction; check and act in two queries; cascade | same names only by race; data that was there is not deleted; no call waits for ever |
| Invitations `invitations/` | table invitation, accounts at Supabase, grants | create, accept, revoke | the status is overwritten; a remote account that no rollback takes back | one live invitation; a closed one lets nobody in; accepting can be retried |
| Onboarding `onboarding/` | a tenant, workspace, profile and grant per user | onboard | retries, a reconnect that breaks other queries, cached lack of access | one tenant per user and name, up to races |
| Funnel configuration `analytics/funnels/` (config) | funnels, versions, publications, cached copies | create, get, list, update, archive, publish | version numbers by read-then-insert; cached copies | each update has its version; stale copies only by race |
| Funnel progress in real time `funnel-realtime.service.ts` | user states, cached | process an event | looks for versions in a state that is never written | (no behaviour to model, see section 7) |
| Funnel reports: analytics, bottlenecks, comparison, attribution, paths `analytics/funnels/` | cached reports | ten kinds of report | look-ups, checks with shifted ids, statements on columns that are not there; archived funnels and cached copies | a caller gets a report on what he asked for; an archived funnel is served from copies only, for a limited time |
| Funnel export `funnel-export.service.ts` | jobs in a map of the process, cached data | start, status, the job in the background | background work that fails after the answer; restarts | a job ends, keeps its outcome, and writes its own data |
| Workspace analytics `analytics/` | cached reports over the tables of the ingestion | overview, series, rankings, users, events, export | several snapshots per report; rows that arrive late and with skewed clocks; periods that end now; slots and time zones | what is kept will not change; what is fresh is complete; a series loses no count; nobody is new twice |
| Token verification, RLS, encryption | decoded tokens; a session variable; keys | verify; set and query; encrypt | a library's work, or not used by the program | (not modelled, see section 7) |
| Email, logging, metrics, monitoring, wiring, scripts | none that anything decides by | | | not to be modelled |

The parts meet in three ways.  *Calls*: a request passes the guards (API key or user token, then
the rate limit), then its controller, then one service, which awaits the database; the events
controller hands accepted events to the funnels, and an export goes on as a job after its answer.  *Shared tables*: tenants, invitations,
onboarding and user management all write profiles and grants, which the guard reads; deletion
of a workspace cascades over everything else.  The analytics
read what the ingestion writes meanwhile.  *Shared cache*: keys, grants, tokens, configurations and
reports live in instances of one cache class.

`PROJECT.json` names every component with the files it stands for, the hazards with the line at
which each bites, and for every definition that models code the lines it translates.

## 2. The modules

```
CacheService ---+--> ApiKeyAuth -----> ApiKeyAuthProofs
                +--> UserAccess <--- AccessStore;  UserAccess --> UserAccessProofs
                +--> ReportCalls --+--> WorkspaceAnalytics ---> FunnelReportsProofs (of both)
                                   +--> FunnelReports ----------^
                                        <-- FunnelStatements;  implements ExportJobs
EventProcessor ----> EventsController --> IngestProofs (of both)
RateLimit ---------> RateLimitService <-- INSTANCE RateLimitRedis
                         RateLimitService --> RateLimitProofs (of all three)
Invitations -------> InvitationsProofs
AccountCalls --+---> Tenancy -----> TenancyProofs (of both)
               +---> Onboarding ----^
FunnelConfig ------> FunnelConfigProofs
MC<module>: the instance of <module> for TLC
```

Conventions that all the modules share:

* A *call* `c` is one run of a handler.  `pc[c]` names the query it is about to await (`idle`
  before it arrives, `done` after), `request[c]` is what it carries, `reply[c]` what it returned.
  An action is one query with all the code that follows it up to the next await.
* `faults` counts the failures that the environment may still inject, up to `MaxFaults`.
  `DatabaseError` fails a query before it does anything; `LostAnswer`, or the corresponding
  branch of `DatabaseError` or `Fault`, lets it commit and then fails it.
* Rows that get an autoincremented id are named by the call that makes them.
* *History* variables (`before`: the calls that had returned when this one began; also `namedBy`,
  `madeBy`, `acceptedBy`, `by`, `storers`, `version`, `blind`, `passed`, arrival times) record what the
  properties speak about.  No guard reads them.
* A definition with the comment "Mutant:" is not used by the model.  It is a plausible bug for
  the definition that follows it, which shows that a property notices the bug.
* The last section of a module, "What the documents and tests say and the code does not do",
  holds properties that the code violates (section 6).

| Module | Code | Correspondence |
|---|---|---|
| `EventProcessor` | `processTrackEvent`, `processIdentifyEvent` and their helpers; `schema.prisma` for keys | `CheckDuplicate`, `FindVisitor`/`CreateVisitor` (ensureVisitor: the primary key is the anonymous id alone), `FindSession`/`CreateSession`, `GetLinkedLead`, `CreateEvent` (foreign key and unique index), `FindLead`/`UpdateLead`/`CreateLead`, `FindLink`/`UpdateLink`/`CreateLink`, `Respond`; `Catch` is the catch block.  `Tick` moves the clock that `startedAt >= now - timeout` reads. |
| `EventsController` | `track`, `identify`, `batch`, `processBatchEvents`, `processBatchEventsForFunnels` | Extends `EventProcessor`; its steps are the processor's plus the arrival, refusal, chunks and answer of a batch.  `ThreadIsFree` says that the synchronous loop over a chunk is not interrupted.  `ForFunnels` and `BatchForFunnels` are the dispatch, with the index the code uses. |
| `RateLimit` | `canActivate` over the in-memory buckets | `Check` is checkLimit (create or refill, take), `Increment` is incrementUsage, `Cleanup`, `Reset`.  Tokens are counted in units of 1/`Window`, so the fractions are exact. |
| `RateLimitRedis` | the same over Redis | `Count` and `Add` are the two halves of the pipeline; `CheckFails` is the catch that lets a request through. |
| `RateLimitService` | `initializeRedis`, the choice in `checkLimit` | The backend is chosen once; the steps are those of either module. |
| `CacheService` | the whole class | `Get`, `Set` (with `LeastRecentlyUsed`), `Delete`, `Clear`, `CleanupExpired`; `Advance` is the clock. |
| `ApiKeyAuth` | `validateKey`, `createApiKey`, `updateApiKey`, `revokeApiKey` | `FindKey`/`Fill`; `FindActive`/`RevokeRow`/`Invalidate`; `FindExisting`/`FindName`/`UpdateRow`; `FindDuplicate`/`CreateRow`. |
| `AccessStore` | tables workspace, user_profile, user_workspace_access | the effect of an upsert, a revocation and a change of role |
| `UserAccess` | `getUserWorkspaceAccess`, the guard's context, `UserManagementController` | `Begin`/`FindProfile`/`Fill` make the mapping, `ContextOf` the context (`DefaultWorkspace`: the best role, then the oldest), `Handle` the controller's checks, then the writes and `Invalidate`. |
| `AccountCalls` | what `Tenancy` and `Onboarding` share | What a call is: `pc`, `request`, `reply`, `before`, and how it goes on (`Goto`) or returns (`Return`). |
| `Tenancy` | create, update and delete in `TenantService` and `WorkspaceService` | `tx[c]` is an open transaction, `HasConnection` the pool.  `SaveProfile` and `Grant` run on other connections, inside the transaction's callback; `TransactionTimeout` is Prisma's limit.  A deletion that meets a row another transaction has locked waits on its connection (`Block`), and may commit without an answer (`LostAnswer`).  `AddData` stands for every other component that stores something in a workspace. |
| `Invitations` | create, accept, revoke; `SupabaseAdminService` | `Insert` and `Cancel` meet the unique index on (tenant, workspace, email, status); `CreateAccount` is outside the rollback; `RemoveAccess` is user management's revocation. |
| `Onboarding` | service and controller | `CheckAccess`, `FindName`, `Transaction`; `attempt` is executeWithRetry, which retries a prepared statement that is gone; `Status` is what the two catch blocks make of an error (P2002 is a conflict); `ResetHits` is the reconnect that fails what others have under way; `LookUp`/`ReadGrants`/`FillMapping` are another request of the user that fills the cache. |
| `FunnelConfig` | service, repository, cache | each change is `ReadVersion`..`Write`, `Archive`, `FindVersion`..`Publish`, then `Finish`, which deletes the cached copies when the answer arrives (`Deleted`) or stores one (`StoreConfig`); `LookUp`/`Find`/`Take` is get, `LookUpList`/`FindMany` is list. |
| `ReportCalls` | the two analytics controllers | what the calls of both modules have: their state and the cache their reports are kept in; no actions of its own. |
| `WorkspaceAnalytics` | `AnalyticsController`, `AnalyticsService`, `MetricsService`, `TimeSeriesService`, `AnalyticsRepository`, `AnalyticsCacheService` | `Arrive` is the controller with the look-up, `RunStatement` one statement of the plan of an endpoint (those of one group run concurrently, each is a snapshot), `Deliver` keeps the report if `ShouldCache` says so.  A statement of counts returns the set of events it selected, of which every count is a function, and a ranking the names it lists beside the events it counted.  `Ingest` is the insert of the event processor, with the skew that the enrichment accepts and the delay since then; `Slots`, `LabelOf`, `Points` are the filling of gaps. |
| `FunnelStatements` | the 25 statements of `FunnelAnalyticsRepository`, `schema.prisma` | a statement is the set of columns it names; `DatabaseRefuses` if one of them is not in its table, or types do not match. |
| `FunnelReports` | `FunnelAnalyticsController`, the services for analytics, bottlenecks, paths, attribution, comparison and export | a request is its list of steps (`Plan`), an export a second task with a list of its own (`JobPlan`); `LookUpReport`, `CheckRow`, `RunQuery`, `StoreReport`, `LookUpConfig`.. `WriteFile` take the next step.  `Invalidate` is an update or a publication of a funnel, for what it does to the copies; the change itself is `FunnelConfig`'s.  `Restart` loses calls, jobs and the cache. |
| `ExportJobs` | what exports promise | an abstract specification: accepted, then completed or failed, until all is forgotten. |

`AllReturned`, `AllAnswered` is the state in which nothing is left to do.  It is an explicit stutter, so
that TLC's deadlock check finds any other state without a step.

## 3. The runs

`tlc -workers 2 -config <run>.cfg <module>`; every run ends within three minutes on two cores.
Sizes are distinct states.

| Run | Module | States | Question and answer |
|---|---|---|---|
| `ingest` | MCEventProcessor | 892k | Three calls.  One event id from three workspaces of two tenants with a failing query; one visitor in two workspaces while the session timeout passes; two visitors with every mix of e-mail and phone.  Accepted submissions of an event id name one stored row (`IdempotentReplies`); sessions and leads are doubled only by calls that overlapped (`SplitSessionsOverlap`, `DuplicateLeadsOverlap`); after an accepted identify, events carry a lead (`IdentifiedEventsHaveLead`), and it is the one of the e-mail (`IdentityResolved`). |
| `batches` | MCEventsController | 170k | A batch of three events in chunks of two, beside a single call with a failing query, or alone while the clock runs.  A refused batch leaves nothing (`RefusedBatchLeavesNothing`); a repeated id in a later chunk gets the row of the first (`RepeatInLaterChunk`); counts and results agree with the tables (`BatchAnswerHolds`); what the funnels get is a stored track of its own request (`FunnelsSeeStoredTracks`); everything is answered (`EveryRequestAnswered`, liveness). |
| `limits` | MCRateLimitService | 1.27M | Three requests of a tenant, a limit of two per window of three ticks, either backend, clean-up, reset, outage.  In memory: `BucketBounds`, `AdmissionBound` (burst plus inflow over every interval), `DeniedOnlyIfBusy`.  Over Redis: `SequentialBound` (half the limit, rounded up, for requests that do not overlap) and `DeniedOnlyIfCrowded`. |
| `keys` | MCApiKeyAuth | 459k | Three calls on four keys, a cache of two; four calls while a name is given up and written back.  A verdict older than a completed change was read by a call that overlapped the change (`FreshUnlessOverlapped`); or was left behind by a change that failed, and is served for one lifetime (same property); two active keys share a name only if the calls that named them overlapped, or one of them had its key renamed under it (`DuplicateNamesOverlap`); `EvictsLeastRecentlyUsed` for the cache. |
| `access` | MCUserAccess | 1.42M | Two admins who revoke each other while cached grants expire; a user with different roles in two tenants and one without a profile, with a fault.  `ContextFresh`, `RoleNeverExceeds`, and the action property `ManagedByTenantAdmin`. |
| `tenancy` | MCTenancy | 290k | Three calls create, rename and delete a tenant and its workspaces with a fault, or while data is added, or compete for two connections that transactions can hold while their code waits for a third; four calls where one saves its tenant under the name it has while another renames it.  Names are shared only by calls that overlapped, or one of which wrote back a name that another had replaced (`DuplicateNamesOverlap`); a deletion never takes data that was there when it began (`DataAtStartSurvives`); the limit on transactions resolves the deadlock (`EveryCallAnswered`, liveness). |
| `invitations` | MCInvitations | 156k | Four calls on one email with two roles, or two emails of which one has an account, with faults, expiry and removed access.  `OneLiveInvitation`, `ClosedBeforeAccept`, `AcceptIsRetryable`. |
| `onboarding` | MCOnboarding | 348k | Three onboardings of two users with three faults, retries and resets, or four calls of one user.  `SecondTenantByRace` (of a user or of a name), `KeptOutByRace`: each says that the mishap needs an overlap or a failed check. |
| `funnels` | MCFunnelConfig | 505k | Four calls read a funnel while it is changed, or change it with a fault.  `ConfigStaleByRace`, `EveryUpdateItsVersion`, `ArchivedChangesByRace`. |
| `analytics` | MCWorkspaceAnalytics | 180k | Two calls over events that arrive late and skewed, per workload: colliding keys, overviews, every kind of series, pages, visitors of two periods, rankings.  What is kept is what the statements would return now, unless the report, or a row that bears on it, took up the hour that is left for them (`KeptReportsExact`; on returning visitors any earlier row bears); what reaches into the last hour counts all that was stored, in totals, rankings, series and visitors, and in those of the previous period (`FreshUnlessEnded`); a series in UTC loses at most its broken last slot (`SeriesAccounts`); nobody is new in two reports made one after the other (`NewOnce`). |
| `reports` | MCFunnelReports | 198k | Live metrics with any interval, or checked on another funnel, while changes drop copies; every analysis; exports with faults and restarts, of a funnel that is archived, by two tenants who name the same funnel, with collected reports.  `AnswersOwn`, `ArchivedOnlyFromCopies`, `StatusNeverGoesBack`, and `JobsImplementSpec`: the jobs implement `ExportJobs`, fairness included. |
| `half_limit` | MCRateLimitService | violation | `FullLimitUsable` (section 6). |

Properties of the form *... only if the calls overlapped* are the strongest that code without
locks or transactions can keep: run one after the other, the calls behave; together, exactly the
named mishap can occur and no other.

**Bounds.**  Races of the kind above need two calls, and a third to see the result or to retry;
so three calls, or four where a pair of writers and a pair of readers matter (invitations, one
user of `onboarding`, funnels) or a name is given up, taken and written back (keys, tenants).  Chunk size two with batches of three gives a full and a short
chunk (in the code, ten and fifty).  A window of three ticks with a limit of two gives
fractional refills.  A cache of two for three keys evicts, and two ticks let an entry expire
after it was used.  One fault suffices to separate *committed* from *answered*; onboarding gets
three, because it takes two to exhaust a retry.  Versions, ids and clocks are bounded by what
the calls of a behaviour can use, `1 + Cardinality(Calls)` writes of a row for example, so that
no bound hides a step, except `MaxTime`, which only ends a behaviour's clock.  The times at which a funnel may be
archived are a bound of each of the seven workloads of `reports`: where two tenants share a funnel's id the clock stands still and the funnels are archived at once, where
copies expire it is archived while they live.

**Workloads.**  A few instances share a configuration: a *workload* is a set of requests with its
own bounds, and the constraint `OneWorkload` keeps each behaviour within one of them.  It cuts
off states whose calls mix workloads or exceed its bounds on time and faults.  Such a state is
entered only by an arrival, a tick, a fault, an archiving or a restart.  None of these is fair, so a behaviour that stays
within the constraint is never forced out of it: `EveryRequestAnswered`, `EveryCallAnswered` and `JobsImplementSpec`, the
properties with a liveness part that are checked under a constraint, keep their meaning there.  In `tenancy` and
`reports` the constraint also makes calls arrive, and fresh ids come, in the order of their names, which stands in for symmetry
(any unused id is as good as another, so a fresh one may always be the least).

**Symmetry.**  Calls (and ids that no request names) are interchangeable: no property and no
definition tells one from another.  Symmetry is used only in runs without liveness properties.

**Deadlock** is checked except in `limits`, `half_limit` and `reports`: the limiter and the reports have no final
stutter, and when their clock has ended and everything is answered they may rightly stop.

## 4. Fairness

`EventProcessor` assumes weak fairness of every call's next query and `EventsController` of
every resumption, answer and step of a batch: Node resumes each await whose promise settles, and
Prisma settles each query with an answer or an error.  `Tenancy` (`FairSpec`) assumes it of each
query *that can have a connection* and of the limit that Prisma sets on interactive
transactions.  A deletion that waits for a row another transaction has locked keeps its connection and is not assumed to go on before the lock
is gone; nothing is assumed of a call that waits for a connection, so `EveryCallAnswered` is not
assumed by the back door.  `FunnelReports` assumes it of the next step of every request and job: an
`await` resumes, and a statement is answered or refused.  Arrivals, ticks, faults, expiry and clean-up are never fair: clients
need not call, and the properties must hold if nothing fails.  In the other modules
only safety is checked.

## 5. The theorems

TLAPS proves these for all values of the constants that satisfy the named assumptions of the
modules (which TLC evaluates in every run): the requests are of the stated shapes,
`NULL` is none of the values, bounds are natural numbers, limits and windows are positive.  Beyond
these shapes the proofs need, and the code gives:

* the calls of a batch are distinct and its events name one workspace (`BatchAssumption`: the workspace comes from the
  API key of the request, not from the event);
* the tiers are finitely many (`TiersAssumption`), and a bucket is idle for the clean-up only after it had the time to fill up
  (`IdleAssumption`: an hour against windows of a minute);
* the tier `free` exists, on which the limiter over Redis falls back (`ServiceAssumption`);
* the calendar's units divide each other and a client's clock is off by less than an hour, an event that is there at the start came within
  that skew of its row, a query of the workspace's analytics has the key of its endpoint and parameters, and what an export answers
  is not a report (`AnalyticsAssumption`);
* reports are a finite list of steps of the shapes that `Plan` takes (`BeginningsAssumption`, `QueriesAssumption`), and "no such
  user" is cached no longer than a mapping (`AccessAssumption`).

| Module | Theorem | Statement |
|---|---|---|
| `IngestProofs` | `TypeCorrect` | `Spec => []TypeOK`, of the event processor |
| | `DedupUnique` | `Spec => []UniqueClientEvent`: no tenant stores an event id twice |
| | `DedupIdempotent` | `Spec => []IdempotentReplies` |
| | `IdentityInductive` | `Spec => [](TypeInv /\ IdentityInv)` |
| | `SplitSessionsOnlyByOverlap` | `Spec => []SplitSessionsOverlap` |
| | `DuplicateLeadsOnlyByOverlap` | `Spec => []DuplicateLeadsOverlap` |
| | `Attribution` | `Spec => []IdentifiedEventsHaveLead` |
| | `IdentifyResolves` | `Spec => []IdentityResolved` |
| | `CtlImplementsProcessor` | `CtlSpec => Init /\ [][Next]_vars`: the controller implements the processor |
| | `CtlDedupIdempotent` | `CtlSpec => []IdempotentReplies` |
| | `CtlRefusal` | `CtlSpec => []RefusedBatchLeavesNothing` |
| | `CtlRepeatRecognised` | `CtlSpec => []RepeatInLaterChunk` |
| | `CtlAnswerHolds` | `CtlSpec => []BatchAnswerHolds` |
| | `CtlFunnelsSeeStored` | `CtlSpec => []FunnelsSeeStoredTracks` |
| `RateLimitProofs` | `TypeCorrect`, `BucketsBounded` | `Spec => []TypeOK`, `Spec => []BucketBounds` |
| | `ServiceBuckets` | `ServiceSpec => []BucketBounds` |
| | `AdmissionBounded` | `ServiceSpec => []AdmissionBound` |
| | `DeniedBusy` | `ServiceSpec => []DeniedOnlyIfBusy` |
| | `HalfTheLimit` | `ServiceSpec => []SequentialBound` |
| | `DeniedCrowded` | `ServiceSpec => []DeniedOnlyIfCrowded` |
| `ApiKeyAuthProofs` | `TypeCorrect` | `Spec => []TypeOK` |
| | `StaleOnlyByOverlap` | `Spec => []FreshUnlessOverlapped` |
| | `SharedNamesByOverlap` | `Spec => []DuplicateNamesOverlap` |
| | `EvictionIsLeastRecentlyUsed` | `Spec => EvictsLeastRecentlyUsed` |
| `InvitationsProofs` | `TypeCorrect` | `Spec => []TypeOK` |
| | `RevocationHolds` | `Spec => []ClosedBeforeAccept` |
| | `LiveInvitations` | `Spec => []OneLiveInvitation` |
| | `AcceptanceRetryable` | `Spec => []AcceptIsRetryable` |
| `TenancyProofs` | `TypeCorrect` | `Spec => []TypeInv` |
| | `SharedNames` | `Spec => []DuplicateNamesOverlap` |
| | `DeletionTakesNoOldData` | `Spec => DataAtStartSurvives` |
| | `OnboardTypes` | `OnboardSpec => []OnboardTypeOK`, of `Onboarding` |
| | `SecondTenants` | `OnboardSpec => []SecondTenantByRace` |
| | `KeptOut` | `OnboardSpec => []KeptOutByRace` |
| `UserAccessProofs` | `TypeCorrect` | `Spec => []TypeInv` |
| | `NoRoleExceeds` | `Spec => []RoleNeverExceeds` |
| | `OnlyTenantAdminsManage` | `Spec => ManagedByTenantAdmin` |
| | `StaleOnlyByOverlap` | `Spec => []ContextFresh` |
| `FunnelConfigProofs` | `FunnelTypes` | `Spec => []TypeOK` |
| | `VersionsOwn` | `Spec => []EveryUpdateItsVersion` |
| | `ArchivedByRace` | `Spec => []ArchivedChangesByRace` |
| | `StaleByRace` | `Spec => []ConfigStaleByRace` |
| `FunnelReportsProofs` | `ReportTypes` | `Spec => []TypeOK` |
| | `StatusOnlyMovesOn` | `Spec => []StatusNeverGoesBack` |
| | `JobsKeepPromise` | `Spec => Promise!Init /\ [][Promise!Next]_Outcome`: the safety part of the refinement of `ExportJobs` |
| | `ReportsOwn` | `Spec => []AnswersOwn` |
| | `ArchivedServedFromCopies` | `Spec => []ArchivedOnlyFromCopies` |
| | `AnalyticsTypes` | `AnalyticsSpec => []AnalyticsTypeOK`, of `WorkspaceAnalytics` |
| | `KeptAreExact` | `AnalyticsSpec => []KeptReportsExact` |
| | `FreshReports` | `AnalyticsSpec => []FreshUnlessEnded` |
| | `SeriesAccount` | `AnalyticsSpec => []SeriesAccounts` |
| | `NewVisitorsOnce` | `AnalyticsSpec => []NewOnce` |

*Event processor.*  `TypeOK` is not inductive: `createEvent` writes a row with the session that
the call holds, and only a call that passed through the session steps holds one.  `TypeInv` adds
`CallOK`, what each call knows at each await: that tracks and identifies keep to their own steps, that
a session is known before the lead is looked up, and that a lead that is about to be linked
exists.  Deduplication then rests on `DedupInv`: a row of `event` is the row of its call and agrees with
the call's request, a reply that accepts a track names a row of its tenant with its event id, and no event id
is stored twice.  Idempotence follows: two accepted replies for one id name rows with that id, and there is one such
row.  The step that matters is `CreateEvent`, where the unique index refuses what the check before it missed.

*Events controller.*  `StepIsProcessorStep` shows that every step of the controller is a step of
the processor or leaves its variables alone, so invariants of the processor hold of the
controller too: `CtlDedupIdempotent` cites the processor's lemmas and adds nothing.  For the refusal,
`BatchInv` says that a batch runs only if it was not refused, and that the call of its i-th event is idle and undispatched until i events have begun.

The answer of a batch is made of calls that ran in several chunks, so `AnswerInv` says where a batch is: the calls it has begun carry its
events (`WorkOf`), it is in the chunk that begins at a multiple of `CHUNK`, before which all have returned (`ChunkOf`), hence an event of an earlier
chunk had returned when one of a later chunk began (`OrderOf`), and an answer that was given tells what the calls returned (`AnswerOf`).  `RepeatInv`, of the processor,
says that a call that began after an event with its id was accepted is answered as a duplicate of that row, unless its query fails.  With `OrderOf` this is
`RepeatInLaterChunk`.  The proof corrected an assumption: the events of a body were first allowed to name several workspaces, in which
case a repetition need not be recognised; in the code they have one, that of the key.

*Rate limit in memory.*  `IInv` is `TypeOK` with `BucketBounds`.  The lemmas `RefillGood`, `TakeGood` and
`BucketForGood` say that each operation on a bucket keeps it between more than minus one token and its
capacity; what a bucket may owe is a fraction because the check is `tokens > 0`.  `AdmissionBound` counts requests over every interval, which no
single state shows.  `PaidInv` makes it inductive as an account: what was let through since any moment is covered by what the bucket lacks now
(`Deficit`) and what has flowed in since.  A request that is let through takes a token, which raises the deficit by as much; a refill lowers it by no more than flowed in; a
reset starts the account anew.  A clean-up forgets the deficit, and is harmless only if the bucket was full: `LackOfIdle` shows that from
`IdleAssumption`, and showed that an earlier, weaker form of the assumption was not enough (with a limit of one, a window of three and an idle time of three, four requests
exceed the bound).  `DeniedOnlyIfBusy` needs `UsedOK`, that a bucket's last refill is the time at which some request left it, and is stated at the rate of the tier that
made the bucket: with several tiers in a tenant the rate of the request's own tier is the wrong one.

*Rate limit over Redis.*  `RedInv` counts members of the sorted set: there are at most two for each request that touched it (`CrowdOK`), and of each
request that was let through and had left when this one began there are two (`EarlierOK`), unless it passed uncounted.  `ServiceInv` says that the
backend that was not chosen stays untouched, so each invariant is kept by the steps of its own limiter.

*Identity.*  What was true when a call decided may be false when it writes, so none of the four properties is
inductive.  `IdentityInv` says instead what each call knows of the calls *that were done when it began*: they stay done
(`History`), so their leads, links and sessions are there and keep what the properties speak of.  A call about to create a lead
or a session knows that no earlier call left one it should have used (`NoEarlierLead`, `NoEarlierSession`), a call that is past
the lookup holds a lead with the e-mail of its request (`HoldsLead`, `KnowsLead`).  A new row can therefore only collide with one of a
call that was not done when this one began, which is what *overlapped* means.

*API keys.*  `TypeInv` adds to `TypeOK` that every cached value is a verdict and what each call knows.  `FreshInv` says of
every cached entry that some validation answered it and has missed only mutations that overlapped that validation or
failed (`EntryOK`), of a validation that has read the row, that it has seen what was done before it began (`ReadNew`), and of a row, that it
is at least as new as all that was written to it (`WrittenSeen`).  The step that matters is `Invalidate`, which returns only
after the entry is gone: a mutation that answered leaves no entry, so whatever is stored later was read by a call under way.  `NamesInv`
says what a call about to write a name knows.  Here the proof corrected the property: an earlier form, that two keys share
a name only if their namers overlapped, holds for three calls and is false for four.  An update that finds its name on
its key already skips the check; if another call renames the key before the write, and a third takes the name, the write
brings the name back unchecked.  The fourth workload of `keys` reaches this case, and `RenamedMeanwhile` names it.

*Invitations.*  `StepShape` reduces the eleven actions to three kinds: a call begins, a call under way takes a step, something
happens outside; `Works` says what the step may have found, answered and written.  The three invariants are then about calls and rows only.
`AccessInv`: a row that was used or revoked is never pending again (`Closed`), so the row that an acceptance read as pending was open to all
calls done before it (`ReadOpen`).  `LiveInv`: a creation at its insert knows that what is accepted now was accepted meanwhile
(`NoneAcceptedBefore`), an acceptance at its commit that what is pending beside its row was created meanwhile (`NonePendingBefore`, from the
unique index).  `RetryInv`: a call that nothing has met is the only one under way (`Alone`), so what it saw of the account still holds
(`NoAccount`); and the accepted row it failed upon stays accepted, since no revocation under way had read it as pending.

*Tenants and workspaces.*  Again `StepShape` reduces the actions to three kinds.  `TypeInv` adds that an open transaction holds a row of its own which is
not there (`TxOK`), so a creation never writes over anything, and that a workspace that is gone holds nothing (`DeadEmpty`).  An id is `Settled` when no open transaction
inserts it; a settled row that is gone does not come back (`SettledStays`).  `NameInv` says what a creation and a rename know between their search
and their write: whoever has taken the name since had not returned when they began.  It needs the same exception as for the keys, which
corrected `DuplicateNamesOverlap` here too: a rename that finds its name on its row searches nothing.  `HeldKnows` follows a deletion: until the count, what it
held is still there or gone for good; the count lets it pass only when nothing is there.

*Onboarding.*  Its proofs stand beside those of `Tenancy`, with which it shares the protocol of calls (`AccountCalls`); nothing else relates the two specifications.  `StepOf` reduces the actions to six kinds, of which a failing query, alone or with those that a reset hits, is one (`Fails`).  `SecondInv` says what a call past each check knows of
the calls that had returned when it began: none of them gave its user a tenant, unless its check failed (`NoAccessBefore`), and none took its name (`NameFreeBefore`).  What they made
cannot change any more, so a tenant of an earlier call stays excluded until the transaction.  `KeptOutInv` is about the cache: that it says "no grants" of a user is explained for
each onboarding of his by a request that looked him up meanwhile (`MappingOK`), because the transaction's call deletes the entry without an await in between; a request
that read no grants came before all that onboarded its user (`KeptOutOK`).  A fault is counted because a failed query answers "no grants" too.

*User access.*  The context takes its workspace and its role from two searches of the same mapping.  That a first grant exists
among finitely many is `LeastExists` (a smallest nonempty set without a least element would still have none without one of its
elements); `ContextGood` then compares the roles by the cases of `DefaultWorkspace`.  `TypeInv` says that a call in a handler has the context of
its own usable mapping and is an admin's, which gives `NoRoleExceeds` and, with the shape of a write, `OnlyTenantAdminsManage`.  `StepOf` reduces the
actions to six kinds: a call begins, reads, fills the cache, moves on, writes, ends.  `FreshInv` has the parts known from the keys: what a reader has
seen of the calls done before it began (`ReadNew`), that writes are counted (`WrittenSeen`), and that every cached mapping goes back to a call that cached
it at most a lifetime before it expires and that overlapped every answered change it misses (`EntryOK`); it is neither the change nor the call that is judged.  A call that begins from the cache takes this over
(`FreshAtBegin`).  The lifetime is the longer of the two, so the proof assumes that "no such user" (`NegativeTTL`, one
minute) is not kept longer than a mapping (`TTL`, five minutes unless the environment says otherwise).

*Funnel configuration.*  `TypeInv` says that funnels are numbered without a gap, that versions are (`FullRow`), and what each call read.  `ChangeInv` counts: the calls in a
row's history that make a version are as many as its latest version (`ByOK`), since two that read the same version collide in the unique index of the second's
insert; and a call past the check that a funnel is not archived did not begin after the archiving had returned (`ArchivedOK`).  `StaleInv` follows a copy: a change is in the
row before its caller hears of it (`InBy`), what a call read from the database has every change answered before it began (`FreshRead`), and what is cached, or was got from the cache,
lacks an answered change only if another call that stored a copy overlapped it (`CacheOK`, `HeldRead`).  Who has stored is the history variable `storers`: a publication with an explicit
version stores nothing, and no change explains its own staleness.  `HoldsConfig` names the calls that hold a copy, readers and publications that look for the latest version, and the run
checks the clause for both: a publication that leaves the cached copy alone violates it (`DeletedByUpdate`).

*Funnel reports.*  Calls and jobs are tasks, lists of steps that get shorter, so the proofs need the lists: `OpKinds` says which kinds of steps a task of an endpoint may have, and `TypeInv` that
each task is such a list with its ending last.  Steps are again reduced to six kinds (a query arrives, a status is asked for, a job starts, a task `Works`, something happens
outside, a restart).  `JobInv`: a job with steps left is processing (`WorkOK`), and what a client was told is not later than what is the case (`ToldOK`); from it also follows that each
step is one of `ExportJobs` or leaves the outcome alone, the safety part of the refinement.  `CopiesInv` is about the shared cache: an entry was stored under the key of a call that made it, for a limited time, after the
check that this call made (`EntryOK`); what is still to be stored has its check before it in the list (`GuardOK`).  The key of an export's data names no workspace; that it is nevertheless
served for its own follows because both exports had found a row with that id in their workspaces, and an id names one row (`UniqueIds`).

*Workspace analytics.*  Its proofs stand beside those of `FunnelReports`, with which it shares `ReportCalls`; nothing else relates the two specifications.  A report is made of several
snapshots, and no invariant of the tables says what they were.  `RowOK` says it of each result: there were tables `X` of events and `Y` of sessions, with all
that was stored before the call began and nothing stored after it ended, of which the statement returned it (`ResultsIn`).  Since
the tables only grow, by rows of now (`TablesGrow`), this is kept by every step, and three properties are read off it.  `FreshReports` is the lower bound on `X`,
with the fact that a report on a period of the last hour never comes from the cache.  `NewVisitorsOnce` joins the upper bound of an earlier
report with the lower bound of a later one.  `KeptAreExact` needs `KeptOK`: a kept report is one whose period had been over for an hour when it was finished.
A row that is not in `X` was stored later, and is too young for the period by the skew unless it or the report took an hour; so `X` and the tables
agree on all that bears on the report, and `SameResults` shows for each statement that it returns the same of both.  The proof corrected the property: its exception named
the delay of rows of the report's period, but the summary of visitors calls one *returning* by any earlier event, and a row that old may also come late.
`Relevant` now says which rows bear on a report.  `SeriesAccount` is arithmetic: the slot of a time counted from the start of the period (`SlotOf`),
and that a time less than a slot after another is in its bucket or the next (`BucketAfter`).

**Only model-checked**: the liveness properties `EveryRequestAnswered`, `EveryCallAnswered` and the liveness part of `JobsImplementSpec`, which are beyond the
prover.  Every safety property that a passing run checks is stated by a theorem.

## 6. Where the code and what it says of itself differ

`PROJECT.json` "findings" quotes the sentence and the line for each.  One has a run:

* `half_limit`: the guard takes a token in `checkLimit` and another in `incrementUsage`, so half
  the stated limit is usable.

The others are properties of the modules' last sections.  TLC refutes each within seconds when it is put
in place of the properties of the run named here; they have no configuration of their own.

| Properties | Run | In short |
|---|---|---|
| `DuplicateNotRejected`, `VisitorIsolated`, `AcceptedInOwnWorkspace` | `ingest` | a concurrent duplicate is answered with a failure; visitors are shared across tenants; duplicates are looked for in the whole tenant |
| `ClientSessionAccepted` | `ingest` | a session id from the client is never created, so its event fails |
| `NewVisitorBatchAccepted` | `batches` | two events of a new visitor in one chunk: one fails |
| `FunnelsSeeSuccessesOnly` | `batches` | after filtering the successes of a batch, their positions index the unfiltered events: after a failure the funnels get the failed event and miss a stored one |
| `DeniedRemainingZero`, `LimitOfTier`, `Redis!FallbackLimits` | `limits` (for the second, requests of both tiers) | remaining -1; the limit of the first tier stays; nothing limits while Redis is away |
| `SizeBounded`, `RevokedInactive` | `keys` | the cache outgrows its size within one tick; a revoked key is accepted from a late fill |
| `ActiveDataSurvives`, `CreatorHasAccess` | `tenancy` | data stored between count and deletion is lost; the creator's grant is looked up outside the transaction and not made |
| `LoneCreationSucceeds` | `tenancy` with one connection | a creation waits for itself |
| `RevokesOnlyPending`, `PendingCanBeRevoked`, `ConflictMeansAccess`, `ExistingUserCanAccept` | `invitations` (the last with an unlisted account) | an accepted invitation becomes canceled; a second revocation for an email fails; a removed user cannot be invited; an account beyond the first thousand cannot accept |
| `NameConflictIsConflict`, `OnboardedOnce`, `FreshAfterOnboarding` | `onboarding` | a taken name is a 500; a double click makes two tenants; a late fill keeps the new owner out |
| `ListShowsCreated`, `ArchiverIsTold`, `PublishesLatest` | `funnels` | lists are never invalidated; archiving answers 404; publishing trusts a stale copy |
| `ExportIsKept`, `WeeksCount` | `analytics` | an export is missing a second after it was made; the slots of a weekly series start on Sunday, its groups on Monday, so all points are zero |
| `LiveWithinOwnInterval`, `LiveOfOwnFunnel`, `AnalysesAnswer` | `reports` | live metrics are as old as the longest interval anybody asked for; the check of a report is made on another funnel; PostgreSQL refuses the statements of eight of the ten reports |

## 7. Not modelled

* Within the modelled parts: columns that nothing decides by (last seen, settings, descriptions,
  steps of a funnel), ciphertexts (a fingerprint stands for an e-mail or phone), the parsing of
  headers and tokens, formatting, logging, hit counters.  The role checks before a mutation of tenants, keys
  and invitations only refuse, and are left out; those of user management are modelled because they depend on a
  context that may be stale.
* `HybridAuthGuard` refuses a mapping without a default workspace; with the three roles that exist a usable mapping always has one, so the
  refusal is not modelled.
* `FunnelConfig` reads a funnel with its versions and publications in one snapshot; Prisma may use a query for each relation.
* `FunnelReports` keeps neither the identifier of the user in a request for a user's progression (nothing is kept under a key of it), nor what the
  configuration endpoints store: it knows a change of a funnel by the copies it drops (`Invalidate`).
* External: Supabase's accounts, PostgreSQL's unique indexes, foreign keys and cascades, and Redis' sorted sets
  are modelled by what the code relies on.
* Several processes: interleavings at awaits cover them for the tables; the caches and the in-memory
  buckets are those of one process.  A cache that another process cannot invalidate is staler than the models say.
* Funnel progress in real time: `getActiveFunnels` looks for versions whose state is `'PUBLISHED'`, while publishing writes
  `'published'`; no funnel is ever found, and no state of a user is read or written.
* Token verification: a library decodes the token, and the result is cached without an await in between; what the cache does with it is
  `CacheService`.  The cached result is filed under the first eight characters of the token
  (`supabase-auth.service.ts:253`), which does not tell two tokens with the same beginning apart; the models of the access path begin after it and take the
  caller's identity as given, so nothing they show covers that step.
* Row-level security: the service that sets the session variable is injected nowhere.  Encryption: a pure function of
  a key in the environment.  `clearTenantCache` and the warming of analytics use keys under which nothing is stored or read.
* Statistics over rows that no statement returns: PostgreSQL refuses eight of the ten kinds of report, so the code behind
  them (significance, retention curves, shares of credit, journeys) never runs.  The models stop where the statement is refused.
* Email, logging, metrics, request context, scripts: nothing decides by what they do.

## 8. Plan

Done: the ingestion (events, batches, limits, cache), the access path (keys, users), the administrative paths
(tenants with the pool, invitations, onboarding), funnel configuration, workspace analytics, funnel reports and exports with their
abstract specification; the proofs of section 5.  Left, in this order:

1. An abstract limiter (at most so many admissions per interval) that both backends implement.
2. Several processes, each with a cache of its own, over `CacheService`.
3. `FunnelRealtime`, once the code looks for the state that is written: the user's state read, changed and written back over
   awaits, composed with the dispatch of `EventsController`.

New questions join the workloads of existing runs where the module is the same, so that the set of runs stays small enough to be repeated.
