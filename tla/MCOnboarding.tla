----------------------------- MODULE MCOnboarding -----------------------------
(* A small instance of Onboarding for TLC, under two workloads. *)
EXTENDS Onboarding, TLC

CONSTANTS u1, u2, n1, n2

Onboard(u, n) == [op |-> "onboard", user |-> u, name |-> n]
Enter(u) == [op |-> "enter", user |-> u]

\* Two users; the first may ask twice, and for the name of the second.
TwoUsers == [
    requests |-> {Onboard(u1, n1), Onboard(u1, n2), Onboard(u2, n1)},
    calls |-> 3, faults |-> 3]

\* One user, whose other requests look his grants up.
OneUser == [requests |-> {Onboard(u1, n1), Enter(u1)}, calls |-> 4, faults |-> 0]

Workloads == {TwoUsers, OneUser}
MCOnboardings == UNION {w.requests : w \in Workloads}

\* Bound: the calls of one behaviour belong to one workload.
OneWorkload ==
    \E w \in Workloads :
        /\ {request[c] : c \in Calls} \subseteq w.requests \cup {NULL}
        /\ Cardinality({c \in Calls : request[c] # NULL}) <= w.calls
        /\ faults <= w.faults

SymmetryOfCalls == Permutations(Calls)
=============================================================================
