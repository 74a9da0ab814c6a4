---------------------------- MODULE MCFunnelConfig ----------------------------
(* A small instance of FunnelConfig for TLC, under two workloads. *)
EXTENDS FunnelConfig, TLC

Create == [op |-> "create"]
List == [op |-> "list"]
Get == [op |-> "get", funnel |-> 1]
Update(steps) == [op |-> "update", funnel |-> 1, steps |-> steps]
Erase == [op |-> "archive", funnel |-> 1]
Release(v) == [op |-> "publish", funnel |-> 1, version |-> v]

\* One funnel is updated, published and archived while it is read.
Reading == [
    requests |-> {Create, Get, List, Update(TRUE), Release(NULL), Release(2), Erase},
    faults |-> 0]

\* Updates with and without steps, and archiving, while a query fails.
Changing == [
    requests |-> {Create, Update(TRUE), Update(FALSE), Release(2), Erase},
    faults |-> 1]

Workloads == {Reading, Changing}
MCRequests == UNION {w.requests : w \in Workloads}

\* Bound: the calls of one behaviour belong to one workload.
OneWorkload ==
    \E w \in Workloads :
        /\ {request[c] : c \in Calls} \subseteq w.requests \cup {NULL}
        /\ faults <= w.faults

SymmetryOfCalls == Permutations(Calls)
=============================================================================
