---------------------------- MODULE MCUserAccess ----------------------------
(* A small instance of UserAccess for TLC, under two workloads. *)
EXTENDS UserAccess, TLC

CONSTANTS u1, u2, u3, w1, w3, t1, t2

MCVersions == 1 + Cardinality(Calls)
MCValues == Mappings

TwoTenants == [w \in Workspaces |-> IF w = w3 THEN t2 ELSE t1]

\* Two admins of one workspace; the first is less in the other tenant's
\* workspace, and the third user has no profile.
Mixed ==
    [u \in Users |-> [w \in Workspaces |->
        CASE u \in {u1, u2} /\ w = w1 -> "admin"
          [] u = u1 /\ w = w3 -> "editor"
          [] OTHER -> NONE]]

Read(a) == [op |-> "read", actor |-> a]
Revoke(a, u, w) == [op |-> "revoke", actor |-> a, user |-> u, workspace |-> w]
Grant(a, u, w, r) == [op |-> "grant", actor |-> a, user |-> u, workspace |-> w, role |-> r]
Role(a, u, w, r) == [op |-> "role", actor |-> a, user |-> u, workspace |-> w, role |-> r]

\* The admins revoke each other while the clock runs.
Freshness == [
    requests |-> {Revoke(u1, u2, w1), Revoke(u2, u1, w1)},
    time |-> 2, faults |-> 0]

\* The first user manages the second in the workspaces of both tenants, and
\* the third; the second demotes him.
TwoTenantsManaged == [
    requests |-> {
        Grant(u1, u2, w1, "editor"), Grant(u1, u2, w3, "admin"), Grant(u1, u3, w1, "viewer"),
        Read(u3), Revoke(u1, u2, w3), Role(u2, u1, w1, "viewer")},
    time |-> 0, faults |-> 1]

Workloads == {Freshness, TwoTenantsManaged}
MCRequests == UNION {w.requests : w \in Workloads}

\* Bound: the calls of one behaviour belong to one workload.
OneWorkload ==
    \E w \in Workloads :
        /\ {request[c] : c \in Calls} \subseteq w.requests \cup {NULL}
        /\ now <= w.time
        /\ faults <= w.faults

SymmetryOfCalls == Permutations(Calls)
=============================================================================
