----------------------------- MODULE MCApiKeyAuth -----------------------------
(* A small instance of ApiKeyAuth for TLC, under four workloads. *)
EXTENDS ApiKeyAuth, TLC

CONSTANTS k1, k2, k3, k4, n1, n2, n3, n4, x1, x2

MCVersions == 5
MCValues == Verdicts

\* Three keys exist at the start; the fourth can be created.
ThreeKeys ==
    [k \in Keys |-> CASE k = k1 -> n1 [] k = k2 -> n2 [] k = k3 -> n3 [] k = k4 -> NULL]

Validate(k) == [op |-> "validate", key |-> k]
Revoke(k) == [op |-> "revoke", key |-> k]
Update(k, n, x) == [op |-> "update", key |-> k, name |-> n, scopes |-> x]
Create(k, n) == [op |-> "create", key |-> k, name |-> n, scopes |-> x1]

\* One key is validated again and again while it is revoked or rescoped.
OneKey == [
    requests |-> {Validate(k1), Revoke(k1), Update(k1, NULL, x2)},
    time |-> 2, faults |-> 1, calls |-> 3]

\* Three keys compete for two places in the cache.
Crowd == [
    requests |-> {Validate(k1), Validate(k2), Validate(k3)},
    time |-> 2, faults |-> 0, calls |-> 3]

\* Names are taken, given up and taken again.
Naming == [
    requests |-> {
        Create(k4, n1), Revoke(k1), Validate(k1),
        Update(k1, n4, NULL), Update(k1, n1, x2), Update(k2, n1, NULL), Update(k2, n4, NULL)},
    time |-> 0, faults |-> 1, calls |-> 3]

\* A key is given the name it has while that changes under the call.
Renaming == [
    requests |-> {Update(k1, n4, NULL), Update(k1, n1, x2), Update(k2, n4, NULL)},
    time |-> 0, faults |-> 0, calls |-> 4]

Workloads == {OneKey, Crowd, Naming, Renaming}
MCRequests == UNION {w.requests : w \in Workloads}

\* Bound: the calls of one behaviour belong to one workload.
OneWorkload ==
    \E w \in Workloads :
        /\ {request[c] : c \in Calls} \subseteq w.requests \cup {NULL}
        /\ now <= w.time
        /\ faults <= w.faults
        /\ Cardinality({c \in Calls : request[c] # NULL}) <= w.calls

SymmetryOfCalls == Permutations(Calls)
=============================================================================
