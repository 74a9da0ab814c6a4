------------------------------ MODULE MCTenancy ------------------------------
(* A small instance of Tenancy for TLC, under four workloads. *)
EXTENDS Tenancy

CONSTANTS c1, c2, c3, c4, u1, t1, t2, t3, t4, w1, w2, w3, n1, n2

Create(t, n) == [op |-> "create", user |-> u1, tenant |-> t, name |-> n]
Rename(id, n) == [op |-> "rename", user |-> u1, id |-> id, name |-> n]
Erase(id) == [op |-> "delete", user |-> u1, id |-> id]

\* The names of workspaces are taken, given up and taken again.
Naming == [
    requests |-> {Create(t1, n1), Create(t1, n2), Rename(w1, n2), Erase(w1)},
    calls |-> 3, creations |-> 3, kinds |-> {}, faults |-> 1]

\* So are those of tenants, while creations compete for two connections.
Competing == [
    requests |-> {Create(NULL, n1), Create(NULL, n2), Rename(t1, n2), Create(t1, n1)},
    calls |-> 3, creations |-> 3, kinds |-> {}, faults |-> 0]

\* A tenant gets the name of another that is being created, and is renamed
\* while somebody saves it under the name it has.
Renaming == [
    requests |-> {Rename(t1, n2), Create(NULL, n2), Rename(t1, n1)},
    calls |-> 4, creations |-> 1, kinds |-> {}, faults |-> 0]

\* A tenant and its workspaces are created, filled with data and deleted.
Deleting == [
    requests |-> {Create(t1, n1), Create(t1, n2), Erase(w1), Erase(t1)},
    calls |-> 3, creations |-> 3, kinds |-> Kinds, faults |-> 0]

Workloads == {Naming, Competing, Renaming, Deleting}
MCRequests == UNION {w.requests : w \in Workloads}

\* Bounds: the calls of one behaviour belong to one workload.  Calls, and ids
\* that no request names, are told apart by their names only: calls arrive and
\* ids are given out in the order of their names.
OneWorkload ==
    /\ At(c1, "idle") => At(c2, "idle")
    /\ At(c2, "idle") => At(c3, "idle")
    /\ At(c3, "idle") => At(c4, "idle")
    /\ t3 \in given => t2 \in given
    /\ t4 \in given => t3 \in given
    /\ w3 \in given => w2 \in given
    /\ \E w \in Workloads :
          /\ {request[c] : c \in Calls} \subseteq w.requests \cup {NULL}
          /\ Cardinality({c \in Calls : request[c] # NULL}) <= w.calls
          /\ Cardinality({c \in Calls : request[c] # NULL /\ request[c].op = "create"}) <= w.creations
          /\ \A v \in WorkspaceIds : data[v] \subseteq w.kinds
          /\ faults <= w.faults
=============================================================================
