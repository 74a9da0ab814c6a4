------------------------- MODULE MCWorkspaceAnalytics -------------------------
(* A small instance of WorkspaceAnalytics for TLC: every workspace is a      *)
(* workload of its own.                                                      *)
EXTENDS WorkspaceAnalytics, TLC

CONSTANTS a1, a2

P(from, to) == [from |-> from, to |-> to]
Ask(op, ws, p) == [op |-> op, ws |-> ws, reads |-> TRUE, span |-> NULL, period |-> p,
                   hash |-> p.from + 20 * p.to]
Named(op, ws, span) == [op |-> op, ws |-> ws, reads |-> TRUE, span |-> span, hash |-> 1]
Series(ws, p, g, zone) ==
    [granularity |-> g, zone |-> zone, hash |-> 0] @@ Ask("timeseries", ws, p)
Page(ws, p, n) == [page |-> n, limit |-> 2] @@ Ask("events-details", ws, p)

Draft(ws, n, v, s) == [ws |-> ws, name |-> n, visitor |-> v, session |-> s]
AtStart(ws, times) ==
    {[id |-> t, ws |-> ws, name |-> "n", visitor |-> "v", session |-> "s",
      ts |-> t, at |-> t, delay |-> 0] : t \in times}
Beginning(W, t, times) ==
    [now |-> t, workspaces |-> W, events |-> UNION {AtStart(ws, times) : ws \in W}]

\* Series over a period that ends as the clock starts, over one that is a
\* tick earlier and has the same hash, and over the last day; of two workspaces.
Keeping == [calls |-> 2, events |-> 1, until |-> 9,
    queries |-> {Series(ws, P(4, 6), "hour", 0) : ws \in {1, 2}}
                \cup {Series(1, P(3, 5), "hour", 0), [span |-> Day] @@ Series(1, P(0, 0), "hour", 0)},
    drafts |-> {Draft(1, "n", "v", "s")},
    beginnings |-> {Beginning({1, 2}, 7, {})}]

\* One overview while events arrive, and the cached answer to another.
Comparing == [calls |-> 2, events |-> 2, until |-> 10,
    queries |-> {Ask("overview", 7, P(5, 6))},
    drafts |-> {Draft(7, "n", "v", "s")},
    beginnings |-> {Beginning({7}, 9, T) : T \in {{2, 5}, {3, 4}, {1, 6}}}]

\* One series of any kind over past events; its hash does not matter.
Charting == [calls |-> 1, events |-> 2, until |-> 20,
    queries |-> {Series(3, P(f, t), g, z) : f \in {4, 5, 7}, t \in {12, 13, 16, 17},
                                            g \in {"hour", "day", "week"}, z \in {0, Hour}},
    drafts |-> {},
    beginnings |-> {Beginning({3}, 20, T) : T \in {T \in SUBSET {5, 8, 9, 12, 13, 17} : Cardinality(T) <= 2}}]

\* Pages of a list that grows.
Paging == [calls |-> 2, events |-> 4, until |-> 8,
    queries |-> {Page(4, P(5, 9), n) : n \in 1..2},
    drafts |-> {Draft(4, "n", "v", "s")},
    beginnings |-> {Beginning({4}, 8, T) : T \in {{5, 6, 7}}}]

\* Visitors of two periods that do not adjoin.
Visiting == [calls |-> 2, events |-> 2, until |-> 9,
    queries |-> {Ask("users", 5, P(1, 2)), Ask("users", 5, P(5, 6))},
    drafts |-> {Draft(5, "n", v, v) : v \in {"v", "w"}},
    beginnings |-> {Beginning({5}, 7, T) : T \in {{2}, {2, 6}}}]

\* Rankings, a query without the scope to read, and exports.
Ranking == [calls |-> 2, events |-> 2, until |-> 6,
    queries |-> {[limit |-> 1] @@ Ask("events-top", 6, P(5, 7)),
                 [limit |-> 51] @@ Ask("events-top", 6, P(5, 7)),
                 [reads |-> FALSE] @@ Ask("overview", 6, P(5, 7))},
    drafts |-> {Draft(6, n, "v", "s") : n \in {"n", "m"}},
    beginnings |-> {Beginning({6}, 6, {})}]

Workloads == {Keeping, Comparing, Charting, Paging, Visiting, Ranking}
MCAnalyticsQueries == UNION {w.queries : w \in Workloads}
MCDrafts == UNION {w.drafts : w \in Workloads}
MCAnalyticsBeginnings == UNION {w.beginnings : w \in Workloads}

MCKeys == {<<q.ws, q.op, q.hash>> : q \in {q \in MCAnalyticsQueries : q.op \in Cachables}}
MCReportLifetime == [op \in Cachables |-> IF op = "users" THEN 2 ELSE 1]
MCLongestSeries == [hour |-> 10, day |-> 15, week |-> 100]

\* Bound: the calls and events of one behaviour belong to one workload.
OneWorkload ==
    \E w \in Workloads :
        /\ workspaces \in {b.workspaces : b \in w.beginnings}
        /\ Cardinality({c \in Calls : pc[c] # "idle"}) <= w.calls
        /\ Cardinality(events) <= w.events
        /\ now <= w.until
        /\ exports # {} => w = Ranking
        /\ w # Keeping => \A e \in events : e.delay = 0

SymmetryOfCalls == Permutations(Calls)
=============================================================================
