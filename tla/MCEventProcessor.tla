-------------------------- MODULE MCEventProcessor --------------------------
(* A small instance of EventProcessor for TLC, under three workloads. *)
EXTENDS EventProcessor, TLC

CONSTANTS w1, w2, w3, a1, a2, e1, m1, p1, p2, s1

\* w1 and w2 belong to one tenant, w3 to another.
MCTenantOf == [w \in Workspaces |-> IF w \in {w1, w2} THEN "t1" ELSE "t2"]

Track(w, a, e, s) ==
    [kind |-> "track", workspace |-> w, anonymousId |-> a, eventId |-> e, sessionId |-> s]
Identify(w, a, m, p) ==
    [kind |-> "identify", workspace |-> w, anonymousId |-> a, email |-> m, phone |-> p]

\* Submissions and retries of one event id from the workspaces of two tenants,
\* while a query fails.
Ingest == [
    requests |-> {Track(w, a1, e1, NULL) : w \in {w1, w2, w3}},
    time |-> 1, faults |-> 1]

\* One visitor of two workspaces, tracked without deduplication; a session may
\* be named by the client.
Sessions == [
    requests |-> {Track(w, a1, NULL, NULL) : w \in {w1, w2}} \cup {Track(w1, a1, NULL, s1)},
    time |-> 2, faults |-> 0]

\* Two visitors, identified in every combination of fingerprints, and tracked.
Identities == [
    requests |-> {Identify(w1, a1, m, p) : m \in {m1, NULL}, p \in {p1, NULL}}
                 \cup {Identify(w1, a2, m1, p2), Track(w1, a1, NULL, NULL)},
    time |-> 1, faults |-> 0]

Workloads == {Ingest, Sessions, Identities}
MCRequests == UNION {w.requests : w \in Workloads}

\* Bound: the calls of one behaviour belong to one workload.
OneWorkload ==
    \E w \in Workloads :
        /\ {request[c] : c \in Calls} \subseteq w.requests \cup {NULL}
        /\ now <= w.time
        /\ faults <= w.faults

SymmetryOfCalls == Permutations(Calls)
=============================================================================
