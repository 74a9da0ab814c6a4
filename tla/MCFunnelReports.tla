---------------------------- MODULE MCFunnelReports ----------------------------
(* A small instance of FunnelReports for TLC: workloads that differ in what  *)
(* they ask and in how much else happens, each with tenants of its own.      *)
EXTENDS FunnelReports, TLC

CONSTANTS a1, a2, a3

Ask(op, f, t, w) == [op |-> op, funnel |-> f, tenant |-> t, workspace |-> w,
                     reads |-> TRUE, days |-> 30, options |-> TRUE]
Live(f, t, w, r) == [refresh |-> r] @@ Ask("live", f, t, w)
User(f, t, w, readable) == [readable |-> readable] @@ Ask("users", f, t, w)
Export(f, t, type) == [type |-> type] @@ Ask("export", f, t, f)

Beginning(T, F) == [tenants |-> T, funnels |-> F]

\* Live metrics where ids coincide, with intervals below and above the
\* limits; the funnel is archived.
Watching == [calls |-> 2, queried |-> 2, faults |-> 0, restarts |-> 0, until |-> 3, archives |-> {1},
    queries |-> {Live(1, 1, 1, r) : r \in {0, 9}},
    beginnings |-> {Beginning({1}, {Row(1, 1, 1)})}]

\* Live metrics that are checked on another funnel than they are about.
Shifted == [calls |-> 2, queried |-> 2, faults |-> 0, restarts |-> 0, until |-> 1, archives |-> 0..1,
    queries |-> {Live(4, 2, 3, 2), Live(2, 3, 4, 2), Live(4, 2, 4, 2), User(4, 2, 3, TRUE)},
    beginnings |-> {Beginning({2, 3}, F) : F \in {{Row(2, 3, 4)}, {Row(2, 3, 4), Row(4, 2, 3)}}}]

\* Every analysis, where its check succeeds, and what is refused.
Analysing == [calls |-> 2, queried |-> 2, faults |-> 1, restarts |-> 0, until |-> 0, archives |-> {},
    queries |-> {Ask(op, f, 5, 5) : op \in {"conversion", "dropoff", "cohorts", "timing", "bottlenecks",
                                            "paths", "attribution", "compare"}, f \in {5, 6}}
                \cup {User(5, 5, 5, b) : b \in BOOLEAN} \cup {User(6, 5, 5, TRUE)}
                \cup {[Ask("paths", 5, 5, 5) EXCEPT !.days = d] : d \in {NULL, 91}}
                \cup {[Ask("dropoff", 5, 5, 5) EXCEPT !.reads = FALSE],
                      [Ask("timing", 5, 5, 5) EXCEPT !.options = FALSE]},
    beginnings |-> {Beginning({5}, {Row(5, 5, 5)})}]

\* An export of raw events or of a summary, its status, a fault and a restart.
Restarting == [calls |-> 3, queried |-> 1, faults |-> 1, restarts |-> 1, until |-> 0, archives |-> {},
    queries |-> {Export(7, 7, type) : type \in {"raw", "summary"}},
    beginnings |-> {Beginning({7}, {Row(7, 7, 7)})}]

\* Exports of a funnel that is archived.
Archiving == [calls |-> 2, queried |-> 2, faults |-> 0, restarts |-> 0, until |-> 2, archives |-> {1},
    queries |-> {Export(8, 8, "raw")},
    beginnings |-> {Beginning({8}, {Row(8, 8, 8)})}]

\* Exports by two tenants of a funnel of one of them.
Sharing == [calls |-> 2, queried |-> 2, faults |-> 0, restarts |-> 0, until |-> 0, archives |-> {0},
    queries |-> {Export(11, 11, "raw"), Export(11, 12, "raw")},
    beginnings |-> {Beginning({11, 12}, {Row(11, 11, 11)})}]

\* Exports that collect reports.
Collecting == [calls |-> 2, queried |-> 2, faults |-> 1, restarts |-> 1, until |-> 0, archives |-> {},
    queries |-> {Export(10, 10, type) : type \in {"summary", "detailed", "raw"}}
                \cup {[Export(10, 10, "raw") EXCEPT !.days = 0]},
    beginnings |-> {Beginning({10}, {Row(10, 10, 10)})}]

Workloads == {Watching, Shifted, Analysing, Restarting, Archiving, Sharing, Collecting}
MCQueries == UNION {w.queries : w \in Workloads}
MCBeginnings == UNION {w.beginnings : w \in Workloads}
MCKeys == {Key(q) : q \in {q \in MCQueries : q.op # "export"}}
          \cup UNION {{ConfigKey(q), DataKey(q)} : q \in {q \in MCQueries : q.op = "export"}}

\* Bounds: what happens belongs to one workload; calls are told apart by their
\* names only, and arrive in the order of these.
OneWorkload ==
    /\ pc[a1] = "idle" => pc[a2] = "idle"
    /\ pc[a2] = "idle" => pc[a3] = "idle"
    /\ \E w \in Workloads :
          /\ tenants \in {b.tenants : b \in w.beginnings}
          /\ Cardinality({c \in Calls : pc[c] # "idle"}) <= w.calls
          /\ Cardinality({c \in Calls : query[c] # NULL}) <= w.queried
          /\ faults <= w.faults /\ restarts <= w.restarts /\ now <= w.until
          /\ \A f \in funnels : f.archivedAt \in w.archives \cup {NULL}
===============================================================================
