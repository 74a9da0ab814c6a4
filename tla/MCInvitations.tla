---------------------------- MODULE MCInvitations ----------------------------
(* A small instance of Invitations for TLC, under two workloads. *)
EXTENDS Invitations, TLC

CONSTANTS e1, e2

Invite(e, role) == [op |-> "create", email |-> e, role |-> role]
Accept(i) == [op |-> "accept", id |-> i]
Revoke(i) == [op |-> "revoke", id |-> i]

\* One email is invited twice, with different roles; the access it gets may be
\* revoked elsewhere.
OneEmail == [
    requests |-> {Invite(e1, "viewer"), Invite(e1, "admin")}
                 \cup {Accept(i) : i \in {1, 2}} \cup {Revoke(i) : i \in {1, 2}},
    faults |-> 1, removals |-> 1]

\* Two emails are invited and accept, one of them with an account, while two
\* queries fail.
TwoEmails == [
    requests |-> {Invite(e1, "viewer"), Invite(e2, "viewer")}
                 \cup {Accept(i) : i \in {1, 2}} \cup {Revoke(1)},
    faults |-> 2, removals |-> 0]

Workloads == {OneEmail, TwoEmails}
MCRequests == UNION {w.requests : w \in Workloads}

\* Bound: the calls of one behaviour belong to one workload.
OneWorkload ==
    \E w \in Workloads :
        /\ {request[c] : c \in Calls} \subseteq w.requests \cup {NULL}
        /\ faults <= w.faults
        /\ removals <= w.removals

SymmetryOfCalls == Permutations(Calls)
=============================================================================
