-------------------------- MODULE WorkspaceAnalytics --------------------------
(***************************************************************************)
(* The analytics endpoints of a workspace: AnalyticsController,            *)
(* AnalyticsService, MetricsService, TimeSeriesService and the statements  *)
(* of AnalyticsRepository, over the event and session tables that the      *)
(* ingestion fills meanwhile, and over the shared cache.                   *)
(*                                                                         *)
(* A workspace stands for its tenant too.  Every statement is a snapshot   *)
(* of its own; what a statement of counts returns is kept as the events it *)
(* selected, of which each count is a function; a report is named by the   *)
(* call that made it.  A tick is some minutes; the server runs in UTC.     *)
(***************************************************************************)
EXTENDS ReportCalls, Sequences

LOCAL INSTANCE SequencesExt
LOCAL INSTANCE FiniteSetsExt

CONSTANTS
    AnalyticsQueries,   \* the queries that may arrive, with the hashes of their parameters
    Drafts,             \* the events that may arrive, but for their times
    AnalyticsBeginnings,    \* the clock and the tables at the start
    ReportLifetime,     \* getCacheTTL of a custom period, per endpoint
    Hour, Day, Week,
    Skew,           \* how far a client's clock may be off
    LongestRange,   \* a year
    LongestSeries,  \* per granularity
    TopMost, PageMost,      \* the largest limits
    MaxEvents,      \* bound: rows of the event table
    MaxDelay        \* bound: ticks between the acceptance of an event and its row

Cachables == {"overview", "timeseries", "events-top", "users"}
ExportStates == {"processing", "completed", "missing"}

ASSUME AnalyticsAssumption ==
    /\ Hour \in Nat \ {0} /\ Day \in Nat \ {0} /\ Week \in Nat \ {0}
    /\ Day % Hour = 0 /\ Week % Day = 0
    /\ Skew \in Nat /\ Skew < Hour
    /\ MaxEvents \in Nat /\ MaxDelay \in Nat
    /\ Values = Calls
    /\ ReportLifetime \in [Cachables -> TTLs]
    /\ \A q \in AnalyticsQueries : q.op \in Cachables => <<q.ws, q.op, q.hash>> \in CacheKeys
    /\ \A q \in AnalyticsQueries :
          /\ q.op \in Cachables \cup {"events-details"}
          /\ IF q.span = NULL THEN q.period \in [from : Int, to : Int] ELSE q.span \in Nat
          /\ q.op = "timeseries" => q.granularity \in {"hour", "day", "week"} /\ q.zone \in Int
    \* What the tables hold at the start came as all else does.
    /\ \A b \in AnalyticsBeginnings :
          /\ b.now \in 0..MaxTime
          /\ \A e \in b.events :
                /\ e.ts \in Int /\ e.at \in 0..b.now /\ e.delay \in Nat
                /\ e.at - e.delay - Skew <= e.ts
    /\ Calls \cap [export : Nat, status : ExportStates] = {}

\* The hash of a query is a function of what it asks for.
ASSUME HashAssumption ==
    \A q, r \in AnalyticsQueries : q = [r EXCEPT !.hash = q.hash] => q.hash = r.hash

VARIABLES
    workspaces, \* those there are
    events,     \* the event table; delay is history: its time since acceptance
    sessions,   \* the session table
    exports,    \* the times in the ids that export has returned
    period, statements, rows    \* of a call; statements: those still to run

tables == <<workspaces, events, sessions>>
callVars == <<pc, query, period, statements, rows, reply, began, ended>>
analyticsVars ==
    <<now, cache, workspaces, events, sessions, exports,
      pc, query, period, statements, rows, reply, began, ended>>

-----------------------------------------------------------------------------
(* The statements.                                                         *)

\* Bounds of a period are inclusive.
Within(t, p) == p.from <= t /\ t <= p.to

Selected(ws, p) == {e \in events : e.ws = ws /\ Within(e.ts, p)}

Names(E) == {e.name : e \in E}
Visitors(E) == {e.visitor : e \in E}

\* ORDER BY weight DESC: elements that tie come in any order.
Descending(S, Weight(_)) ==
    {s \in SetToSeqs(S) : \A i, j \in DOMAIN s : i < j => Weight(s[i]) >= Weight(s[j])}

\* LIMIT, OFFSET.
Slice(s, offset, limit) == SubSeq(s, offset + 1, Min({offset + limit, Len(s)}))

\* The count, the visitors and the percentage of a name are of all the events.
Rankings(E, limit) ==
    LET Count(n) == Cardinality({e \in E : e.name = n})
    IN {[events |-> E, names |-> Slice(s, 0, limit)] : s \in Descending(Names(E), Count)}

Offset(q) == (q.page - 1) * q.limit

Pages(E, q) ==
    LET Time(e) == e.ts
    IN {Slice(s, Offset(q), q.limit) : s \in Descending(E, Time)}

\* calculatePreviousPeriod: as long, and it ends a tick before.
PreviousPeriod(p) == [from |-> p.from - 1 - (p.to - p.from), to |-> p.from - 1]

Statements == {"counts", "top", "sessions", "previousCounts", "previousTop", "previousSessions",
               "series", "summary", "activity", "page", "count"}

Previous == {"previousCounts", "previousTop", "previousSessions"}
PeriodOf(s, p) == IF s \in Previous THEN PreviousPeriod(p) ELSE p

\* overview ranks one event; trends look among twice as many.
TopLimit(s, q) ==
    IF q.op = "overview" THEN 1 ELSE IF s = "top" THEN q.limit ELSE 2 * q.limit

\* The sessions that started in a period, with their events in it.
Active(ws, p) ==
    {[id |-> x.id, visitor |-> x.visitor, events |-> {e \in Selected(ws, p) : e.session = x.id}] :
        x \in {x \in sessions : x.ws = ws /\ Within(x.startedAt, p)}}

\* Mutant: only the time just before the period is searched.
ReturningLately(ws, p) ==
    Visitors(Selected(ws, p)) \cap Visitors(Selected(ws, PreviousPeriod(p)))

\* Those of the visitors who were seen before the period.
Returning(ws, p) ==
    {v \in Visitors(Selected(ws, p)) :
        \E e \in events : e.ws = ws /\ e.visitor = v /\ e.ts < p.from}

\* What a statement may return now.
Results(s, q, p) ==
    LET E == Selected(q.ws, PeriodOf(s, p))
    IN CASE s \in {"top", "previousTop"} -> Rankings(E, TopLimit(s, q))
         [] s \in {"sessions", "previousSessions", "activity"} -> {Active(q.ws, PeriodOf(s, p))}
         [] s = "page" -> Pages(E, q)
         [] s = "summary" -> {[events |-> E, returning |-> Returning(q.ws, p)]}
         [] s \in {"counts", "previousCounts", "series", "count"} -> {E}

\* The statements of the endpoints: those of a group run concurrently.
OverviewPlan == <<{"counts", "top", "sessions"},
                  {"previousCounts", "previousTop", "previousSessions"}>>
TimeSeriesPlan == <<{"series"}>>
TopEventsPlan == <<{"top"}, {"previousTop"}>>
VisitorsPlan == <<{"summary"}, {"activity"}>>
EventDetailsPlan == <<{"page", "count"}>>

StatementsOf(op) ==
    CASE op = "overview" -> OverviewPlan
      [] op = "timeseries" -> TimeSeriesPlan
      [] op = "events-top" -> TopEventsPlan
      [] op = "users" -> VisitorsPlan
      [] op = "events-details" -> EventDetailsPlan

-----------------------------------------------------------------------------
(* What a report says.                                                     *)

Size(g) == CASE g = "hour" -> Hour [] g = "day" -> Day [] g = "week" -> Week

\* getTruncatedDate: the week starts on Sunday, a day before that of date_trunc.
LabelOf(t, g) == IF g = "week" THEN t - ((t + Day) % Week) ELSE t - (t % Size(g))

\* date_trunc.
Bucket(t, g) == t - (t % Size(g))

\* Mutant: the last slot is dropped.
SlotsBeforeEnd(p, g) == {p.from + i * Size(g) : i \in 0..((p.to - p.from) \div Size(g)) - 1}

\* fillTimeSeriesGaps walks from the start, which is not truncated.
Slots(p, g) == {p.from + i * Size(g) : i \in 0..((p.to - p.from) \div Size(g))}

\* convertToTimezone
InZone(t, zone) == t + zone

\* The points of a series by label; a slot is shifted to the zone, a bucket is not.
Points(q, p, E) ==
    [l \in {LabelOf(InZone(t, q.zone), q.granularity) : t \in Slots(p, q.granularity)} |->
        Cardinality({e \in E : Bucket(e.ts, q.granularity) = l})]

-----------------------------------------------------------------------------
(* The calls.                                                              *)

Period(q) == IF q.span = NULL THEN q.period ELSE [from |-> now - q.span, to |-> now]

\* Mutant: what has ended may be kept.
HasEnded(q, p) == q.op \in Cachables /\ p.to <= now

\* Mutant: the hour is counted from the start of the period.
BeganAnHourAgo(q, p) == q.op \in Cachables /\ p.from <= now - Hour

\* shouldCache
ShouldCache(q, p) ==
    /\ q.op \in Cachables
    /\ p.to <= now - Hour
    /\ q.span = NULL => p.to - p.from <= LongestRange

\* buildCacheKey
ReportKey(q) == <<q.ws, q.op, q.hash>>

InLimits(q) ==
    /\ q.op = "events-top" => q.limit \in 1..TopMost
    /\ q.op = "events-details" => q.page >= 1 /\ q.limit \in 1..PageMost

\* The controller's and the service's refusals.
IsRefused(q) == ~q.reads \/ ~InLimits(q)

\* validateGranularity, which comes after the look-up.
TooFine(q, p) == q.op = "timeseries" /\ p.to - p.from > LongestSeries[q.granularity]

Conclude(c, r) ==
    /\ pc' = [pc EXCEPT ![c] = "done"]
    /\ reply' = [reply EXCEPT ![c] = r]
    /\ ended' = [ended EXCEPT ![c] = now]

\* A query arrives: it is refused, answered from the cache, or starts its statements.
Arrive(c) ==
    /\ pc[c] = "idle"
    /\ \E q \in {q \in AnalyticsQueries : q.ws \in workspaces} :
          LET p == Period(q)
              hit == IF ShouldCache(q, p) THEN Cached(ReportKey(q)) ELSE NULL
          IN /\ query' = [query EXCEPT ![c] = q]
             /\ period' = [period EXCEPT ![c] = p]
             /\ IF ~IsRefused(q) /\ ShouldCache(q, p) THEN Get(ReportKey(q)) ELSE UNCHANGED cache
             /\ IF IsRefused(q) \/ hit # NULL \/ TooFine(q, p)
                THEN Conclude(c, IF IsRefused(q) THEN NULL ELSE hit) /\ UNCHANGED statements
                ELSE /\ pc' = [pc EXCEPT ![c] = "query"]
                     /\ statements' = [statements EXCEPT ![c] = StatementsOf(q.op)]
                     /\ UNCHANGED <<reply, ended>>
    /\ began' = [began EXCEPT ![c] = now]
    /\ UNCHANGED <<now, tables, exports, rows>>

WithRow(f, s, result) == [x \in DOMAIN f \cup {s} |-> IF x = s THEN result ELSE f[x]]

\* One statement of the current group runs.
RunStatement(c) ==
    /\ pc[c] = "query"
    /\ statements[c] # <<>>
    /\ \E s \in Head(statements[c]) :
          LET rest == Head(statements[c]) \ {s}
          IN /\ \E result \in Results(s, query[c], period[c]) :
                   rows' = [rows EXCEPT ![c] = WithRow(@, s, result)]
             /\ statements' = [statements EXCEPT ![c] = IF rest = {} THEN Tail(@) ELSE <<rest>> \o Tail(@)]
    /\ UNCHANGED <<now, cache, tables, exports, pc, query, period, reply, began, ended>>

\* A statement fails, and with it the call.
Fail(c) ==
    /\ pc[c] = "query"
    /\ statements[c] # <<>>
    /\ statements' = [statements EXCEPT ![c] = <<>>]
    /\ Conclude(c, NULL)
    /\ UNCHANGED <<now, cache, tables, exports, query, period, rows, began>>

\* The report is complete; whether to keep it is decided again.
Deliver(c) ==
    /\ pc[c] = "query"
    /\ statements[c] = <<>>
    /\ Conclude(c, c)
    /\ IF ShouldCache(query[c], period[c])
       THEN Set(ReportKey(query[c]), c, ReportLifetime[query[c].op])
       ELSE UNCHANGED cache
    /\ UNCHANGED <<now, tables, exports, query, period, statements, rows, began>>

\* exportData: an id with the time in it, and nothing else.
Export(c) ==
    /\ pc[c] = "idle"
    /\ exports' = exports \cup {now}
    /\ Conclude(c, [export |-> now, status |-> "processing"])
    /\ began' = [began EXCEPT ![c] = now]
    /\ UNCHANGED <<now, cache, tables, query, period, statements, rows>>

\* getExportStatus: only an id of the current second is complete; a tick has many.
ExportStatus(c) ==
    /\ pc[c] = "idle"
    /\ \E t \in exports, status \in {"completed", "missing"} :
          /\ status = "completed" => t = now
          /\ Conclude(c, [export |-> t, status |-> status])
    /\ began' = [began EXCEPT ![c] = now]
    /\ UNCHANGED <<now, cache, tables, exports, query, period, statements, rows>>

-----------------------------------------------------------------------------
(* What happens meanwhile.                                                 *)

\* validateTimestamp
InSkew(accepted, t) == accepted - Skew <= t /\ t <= accepted + Skew

\* An event that was accepted some ticks ago gets its row; so does a session
\* that starts with it.
Ingest ==
    \E d \in Drafts, delay \in 0..MaxDelay, t \in 0..now + Skew :
        /\ d.ws \in workspaces
        /\ Cardinality(events) < MaxEvents
        /\ InSkew(now - delay, t)
        /\ events' = events \cup
              {[id |-> Cardinality(events) + 1, ws |-> d.ws, name |-> d.name,
                visitor |-> d.visitor, session |-> d.session,
                ts |-> t, at |-> now, delay |-> delay]}
        /\ sessions' = IF \E x \in sessions : x.id = d.session THEN sessions
                       ELSE sessions \cup {[id |-> d.session, ws |-> d.ws,
                                            visitor |-> d.visitor, startedAt |-> now]}
        /\ UNCHANGED <<now, cache, workspaces, exports, callVars>>

TimePasses == Advance /\ UNCHANGED <<cache, tables, exports, callVars>>

EntriesExpire == CleanupExpired /\ UNCHANGED <<now, tables, exports, callVars>>

AnalyticsInit ==
    /\ \E b \in AnalyticsBeginnings : now = b.now /\ workspaces = b.workspaces /\ events = b.events
                           /\ sessions = {}
    /\ cache = [k \in CacheKeys |-> NULL]
    /\ exports = {}
    /\ pc = [c \in Calls |-> "idle"]
    /\ query = [c \in Calls |-> NULL]
    /\ period = [c \in Calls |-> NULL]
    /\ statements = [c \in Calls |-> <<>>]
    /\ rows = [c \in Calls |-> <<>>]
    /\ reply = [c \in Calls |-> NULL]
    /\ began = [c \in Calls |-> 0]
    /\ ended = [c \in Calls |-> 0]

AnalyticsNext ==
    \/ \E c \in Calls : \/ Arrive(c) \/ RunStatement(c) \/ Fail(c) \/ Deliver(c)
                         \/ Export(c) \/ ExportStatus(c)
    \/ Ingest
    \/ EntriesExpire
    \/ TimePasses

AnalyticsSpec == AnalyticsInit /\ [][AnalyticsNext]_analyticsVars

-----------------------------------------------------------------------------
(* Properties.                                                             *)

\* Every variable has its type, no row is of the future, and each came within
\* the skew of the time it was accepted.
AnalyticsTypeOK ==
    /\ CacheOK
    /\ \A e \in events : /\ e.ts \in Int /\ e.at \in 0..now /\ e.delay \in Nat
                         /\ e.at - e.delay - Skew <= e.ts
    /\ \A x \in sessions : x.startedAt \in 0..now
    /\ exports \subseteq 0..now
    /\ pc \in [Calls -> {"idle", "query", "done"}]
    /\ query \in [Calls -> AnalyticsQueries \cup {NULL}]
    /\ period \in [Calls -> [from : Int, to : Int] \cup {NULL}]
    /\ statements \in [Calls -> Seq(SUBSET Statements)]
    /\ rows = [c \in Calls |-> rows[c]] /\ \A c \in Calls : DOMAIN rows[c] \subseteq Statements
    /\ reply \in [Calls -> Calls \cup {NULL} \cup [export : Nat, status : ExportStates]]
    /\ began \in [Calls -> 0..now] /\ ended \in [Calls -> 0..now]

\* The calls answered with a report, the reports on an endpoint, those in the cache.
Reported == {c \in Calls : reply[c] \in Calls}
ReportsOn(op) == {r \in {reply[c] : c \in Reported} : query[r].op = op}
Kept == {cache[k].value : k \in Held}

\* The events that bear on a report: those of its period and of the one it
\* compares with; who is a returning visitor, any before the end.
Relevant(r) ==
    {e \in events : /\ e.ws = query[r].ws /\ e.ts <= period[r].to
                    /\ query[r].op = "users" \/ e.ts >= PreviousPeriod(period[r]).from}

\* The statements that count events, and the events that the row of one counts.
Counting == {"counts", "previousCounts", "top", "previousTop", "series", "summary", "count"}
Counted(s, row) == IF s \in {"top", "previousTop", "summary"} THEN row.events ELSE row

\* The events of a period that were stored before some time.
Stored(r, p, t) == {e \in Selected(query[r].ws, p) : e.at < t}

\* A report is kept only of a period that has been over for an hour, when the
\* ingestion takes no more events of it: what the cache holds is what the
\* statements would return now, unless the report, or a row that bears on it,
\* took so long that it used up the hour.
KeptReportsExact ==
    \A r \in Kept :
        \/ \A s \in DOMAIN rows[r] : rows[r][s] \in Results(s, query[r], period[r])
        \/ \E late \in {0} \cup {e.delay : e \in Relevant(r)} :
              ended[r] - began[r] + late >= Hour - Skew

\* A report on a period that reaches into the last hour, from the cache or
\* not, counts every event that was stored before it was asked for: in its
\* totals, rankings, series and visitors, and in those of the previous period.
FreshUnlessEnded ==
    \A c \in Reported :
        LET r == reply[c]
        IN period[r].to > began[c] - Hour =>
              \A s \in DOMAIN rows[r] \cap Counting :
                  Stored(r, PeriodOf(s, period[r]), began[c]) \subseteq Counted(s, rows[r][s])

\* The points of a series in UTC by hours or days count every event of the
\* period, but for the last slot of a period that is no whole number of slots.
SeriesAccounts ==
    \A r \in ReportsOn("timeseries") :
        LET g == query[r].granularity
            p == period[r]
            E == rows[r]["series"]
        IN query[r].zone = 0 /\ g # "week" =>
              \A e \in E : \/ Bucket(e.ts, g) \in DOMAIN Points(query[r], p, E)
                           \/ Bucket(e.ts, g) = Bucket(p.to, g) /\ (p.to - p.from) % Size(g) # 0

\* A visitor is reported as new at most once: not after a report on an earlier
\* period has counted him.
NewOnce ==
    \A r, l \in ReportsOn("users") :
        LET earlier == rows[r]["summary"]
            later == rows[l]["summary"]
        IN /\ query[r].ws = query[l].ws
           /\ period[r].to < period[l].from
           /\ ended[r] < began[l]
           => Visitors(earlier.events) \cap Visitors(later.events) \subseteq later.returning

(* What the code says of itself and does not do.                           *)

\* The answer to an export says that it expires a day after it was made, and
\* README.md shows it complete with a link.
ExportIsKept ==
    \A c \in Calls :
        pc[c] = "done" /\ reply[c] \notin Calls \cup {NULL} /\ reply[c].status = "missing"
        => now > reply[c].export + Day

\* README.md: granularity may be week.
WeeksCount ==
    \A r \in ReportsOn("timeseries") :
        LET points == Points(query[r], period[r], rows[r]["series"])
        IN query[r].granularity = "week" /\ query[r].zone = 0 /\ rows[r]["series"] # {}
           => \E l \in DOMAIN points : points[l] > 0
=============================================================================
