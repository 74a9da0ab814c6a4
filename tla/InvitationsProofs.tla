-------------------------- MODULE InvitationsProofs --------------------------
(***************************************************************************)
(* Who gets in by an invitation, how many of them an email has, and what   *)
(* an attempt to accept leaves behind: theorems for every value of the     *)
(* constants.                                                              *)
(***************************************************************************)
EXTENDS Invitations, FiniteSetTheorems, TLAPS

\* The fields of a request are those of its operation.
LEMMA RequestFields ==
    ASSUME NEW r \in Requests
    PROVE  /\ r.op \in {"create", "accept", "revoke"}
           /\ r.op = "create" => r.email \in Emails /\ r.role \in Roles
           /\ r.op # "create" => r.id \in Ids
BY InvitationsAssumption DEF AllRequests

-----------------------------------------------------------------------------
(* Types, and what each call knows at each await.                          *)

CreateSteps == {"findExisting", "insert"}
AcceptSteps == {"checkAccount", "createAccount", "commit"}
RevokeSteps == {"find", "cancel"}

CallOK(c) ==
    /\ pc[c] # "idle" => request[c] \in Requests
    /\ pc[c] # "idle" /\ request[c].op # "create" => request[c].id \in Known
    /\ pc[c] \in CreateSteps => request[c].op = "create"
    /\ pc[c] \in {"read"} \cup AcceptSteps => request[c].op = "accept"
    /\ pc[c] \in RevokeSteps => request[c].op = "revoke"

\* The rows have their types, no two of a status for an email, and the ids
\* are given in order.
TableOK ==
    /\ invitation \in [Ids -> Rows \cup {NULL}]
    /\ \E n \in Nat : Known = 1..n
    /\ \A i, j \in Known :
          i # j /\ invitation[i].email = invitation[j].email => invitation[i].status # invitation[j].status

TypeInv ==
    /\ TypeOK
    /\ \E n \in Nat : Known = 1..n
    /\ \A c \in Calls : CallOK(c)

\* Nobody has asked for anything and nobody is invited.
LEMMA InitTypeInv == Init => TypeInv
<1> SUFFICES ASSUME Init PROVE TypeInv
  OBVIOUS
<1>1. Known = {} /\ Known = 1..0
  BY DEF Init, Known
<1> QED
  BY <1>1, InvitationsAssumption DEF Init, TypeInv, TypeOK, CallOK, Steps, CreateSteps, AcceptSteps, RevokeSteps

\* The next id is not given yet.
LEMMA FreshId ==
    ASSUME TypeInv
    PROVE  /\ Cardinality(Known) + 1 \notin Known
           /\ \E n \in Nat : Known \cup {Cardinality(Known) + 1} = 1..n
<1>1. PICK n \in Nat : Known = 1..n
  BY DEF TypeInv
<1>2. Cardinality(1..n) = n
  BY FS_Interval
<1>3. 1..n \cup {n + 1} = 1..(n + 1) /\ n + 1 \notin 1..n
  OBVIOUS
<1> QED
  BY <1>1, <1>2, <1>3

\* A row that is written keeps the table well typed if its status is free.
LEMMA WriteTypes ==
    ASSUME TypeOK, NEW i \in Ids, NEW row \in Rows, invitation' = [invitation EXCEPT ![i] = row],
           IndexAllows(i, row.email, row.status), \E n \in Nat : Known \cup {i} = 1..n
    PROVE  TableOK' /\ Known' = Known \cup {i}
<1>1. row # NULL
  BY InvitationsAssumption
<1>2. invitation'[i] = row /\ \A j \in Ids : j # i => invitation'[j] = invitation[j]
  BY DEF TypeOK
<1>3. Known' = Known \cup {i}
  BY <1>1, <1>2 DEF Known
<1>4. ASSUME NEW j \in Known, j # i, invitation[j].email = row.email PROVE invitation[j].status # row.status
  BY <1>4 DEF IndexAllows, Invited
<1>5. ASSUME NEW j \in Known', NEW k \in Known', j # k, invitation'[j].email = invitation'[k].email
      PROVE  invitation'[j].status # invitation'[k].status
  <2>1. (j = i \/ j \in Known) /\ (k = i \/ k \in Known) /\ Known \subseteq Ids
    BY <1>3, <1>5 DEF Known
  <2>2. CASE j = i
    BY <1>2, <1>4, <1>5, <2>1, <2>2
  <2>3. CASE k = i
    BY <1>2, <1>4, <1>5, <2>1, <2>3
  <2>4. CASE j # i /\ k # i
    BY <1>2, <1>5, <2>1, <2>4 DEF TypeOK
  <2> QED
    BY <2>2, <2>3, <2>4
<1>6. invitation' \in [Ids -> Rows \cup {NULL}]
  BY DEF TypeOK
<1> QED
  BY <1>3, <1>5, <1>6 DEF TableOK

\* A row that stays the only one of its status for its email is rewritten.
LEMMA RewriteTypes ==
    ASSUME TypeInv, NEW i \in Known, NEW row \in Rows, invitation' = [invitation EXCEPT ![i] = row],
           IndexAllows(i, row.email, row.status)
    PROVE  TableOK' /\ Known' = Known
<1>1. Known \cup {i} = Known /\ i \in Ids
  BY DEF Known
<1>2. \E n \in Nat : Known \cup {i} = 1..n
  BY <1>1 DEF TypeInv
<1> QED
  BY <1>1, <1>2, WriteTypes DEF TypeInv

\* Nothing is written.
LEMMA SameTable ==
    ASSUME TypeInv, UNCHANGED invitation
    PROVE  TableOK' /\ Known' = Known
<1>1. Known' = Known
  BY DEF Known
<1> QED
  BY <1>1 DEF TableOK, TypeInv, TypeOK

\* What Insert writes.
LEMMA InsertedRow ==
    ASSUME TypeInv, NEW c \in Calls, Insert(c)
    PROVE  \/ UNCHANGED invitation /\ Return(c, "failed")
           \/ UNCHANGED invitation /\ Return(c, "done")
           \/ /\ Return(c, "done")
              /\ \E i \in Ids \ Known, row \in Rows :
                    /\ invitation' = [invitation EXCEPT ![i] = row]
                    /\ IndexAllows(i, row.email, row.status)
                    /\ \E n \in Nat : Known \cup {i} = 1..n
                    /\ row.email = request[c].email /\ row.status = "PENDING"
                    /\ row.madeBy = c /\ row.acceptedBy = NULL
<1> DEFINE i == Cardinality(Known) + 1
           row == [email |-> EmailOf(c), role |-> request[c].role, status |-> "PENDING",
                   expired |-> FALSE, madeBy |-> c, acceptedBy |-> NULL]
<1>1. request[c] \in Requests /\ request[c].op = "create"
  BY DEF Insert, At, TypeInv, CallOK, CreateSteps
<1>2. EmailOf(c) = request[c].email /\ request[c].email \in Emails /\ request[c].role \in Roles
  BY <1>1, RequestFields DEF EmailOf
<1>3. row \in Rows
  BY <1>2 DEF Rows, InviteStatus
<1>4. \/ UNCHANGED invitation /\ Return(c, "failed")
      \/ /\ IndexAllows(i, EmailOf(c), "PENDING")
         /\ invitation' = [invitation EXCEPT ![i] = row] /\ Return(c, "done")
  BY DEF Insert
<1>5. i \notin Known /\ \E n \in Nat : Known \cup {i} = 1..n
  BY FreshId
<1>6. CASE i \in Ids
  BY <1>2, <1>3, <1>4, <1>5, <1>6
<1>7. CASE i \notin Ids
  <2>1. [invitation EXCEPT ![i] = row] = invitation
    BY <1>7 DEF TypeInv, TypeOK
  <2> QED
    BY <1>4, <2>1
<1> QED
  BY <1>6, <1>7

\* What Commit writes.
LEMMA CommittedRow ==
    ASSUME TypeInv, NEW c \in Calls, Commit(c)
    PROVE  \/ UNCHANGED <<invitation, profiles, access>> /\ Return(c, "failed")
           \/ /\ Return(c, "done")
              /\ profiles' \subseteq Emails /\ access' \in [Emails -> Roles \cup {NULL}]
              /\ \E row \in Rows :
                    /\ invitation' = [invitation EXCEPT ![request[c].id] = row]
                    /\ IndexAllows(request[c].id, row.email, row.status)
                    /\ row.email = invitation[request[c].id].email /\ row.status = "ACCEPTED"
                    /\ row.madeBy = invitation[request[c].id].madeBy /\ row.acceptedBy = c
<1> DEFINE i == request[c].id
           row == [invitation[i] EXCEPT !.status = "ACCEPTED", !.acceptedBy = c]
<1>1. request[c].op = "accept" /\ i \in Ids /\ invitation[i] \in Rows
  BY DEF Commit, At, TypeInv, TypeOK, CallOK, AcceptSteps, Known
<1>2. EmailOf(c) = invitation[i].email /\ invitation[i].email \in Emails /\ invitation[i].role \in Roles
  BY <1>1 DEF EmailOf, Rows
<1>3. /\ row \in Rows /\ row.email = invitation[i].email /\ row.status = "ACCEPTED"
      /\ row.madeBy = invitation[i].madeBy /\ row.acceptedBy = c
  BY <1>1 DEF Rows, InviteStatus
<1>4. Accepted(i, c) = [invitation EXCEPT ![i] = row]
  BY DEF Accepted
<1>5. \/ UNCHANGED <<invitation, profiles, access>> /\ Return(c, "failed")
      \/ /\ IndexAllows(i, EmailOf(c), "ACCEPTED") /\ Return(c, "done")
         /\ profiles' = profiles \cup {EmailOf(c)}
         /\ access' = [access EXCEPT ![EmailOf(c)] = invitation[i].role]
         /\ invitation' = Accepted(i, c)
  BY DEF Commit
<1>6. /\ profiles \cup {EmailOf(c)} \subseteq Emails
      /\ [access EXCEPT ![EmailOf(c)] = invitation[i].role] \in [Emails -> Roles \cup {NULL}]
  BY <1>2 DEF TypeInv, TypeOK
<1>7. IndexAllows(i, EmailOf(c), "ACCEPTED") => IndexAllows(i, row.email, row.status)
  BY <1>2, <1>3
<1> HIDE DEF row
<1> QED
  BY <1>3, <1>4, <1>5, <1>6, <1>7

\* What Cancel writes.
LEMMA CanceledRow ==
    ASSUME TypeInv, NEW c \in Calls, Cancel(c)
    PROVE  \/ UNCHANGED invitation /\ Return(c, "failed")
           \/ /\ Return(c, "done")
              /\ \E row \in Rows :
                    /\ invitation' = [invitation EXCEPT ![request[c].id] = row]
                    /\ IndexAllows(request[c].id, row.email, row.status)
                    /\ row.email = invitation[request[c].id].email /\ row.status = "CANCELED"
                    /\ row.madeBy = invitation[request[c].id].madeBy
<1> DEFINE i == request[c].id
           row == [invitation[i] EXCEPT !.status = "CANCELED"]
<1>1. request[c].op = "revoke" /\ i \in Ids /\ invitation[i] \in Rows
  BY DEF Cancel, At, TypeInv, TypeOK, CallOK, RevokeSteps, Known
<1>2. EmailOf(c) = invitation[i].email
  BY <1>1 DEF EmailOf
<1>3. /\ row \in Rows /\ row.email = invitation[i].email /\ row.status = "CANCELED"
      /\ row.madeBy = invitation[i].madeBy
  BY <1>1 DEF Rows, InviteStatus
<1>4. [invitation EXCEPT ![i].status = "CANCELED"] = [invitation EXCEPT ![i] = row]
  OBVIOUS
<1> QED
  BY <1>2, <1>3, <1>4 DEF Cancel

\* The types after a step of a call under way, given those of the tables.
LEMMA StepTypes ==
    ASSUME TypeInv, NEW c \in Calls, InFlight(c), UNCHANGED <<request, before>>,
           \/ \E step \in Steps : Goto(c, step)
           \/ \E r \in {"done", "failed", "refused", "has access", "is pending"} : Return(c, r),
           pc'[c] \in AcceptSteps => pc[c] \in {"read"} \cup AcceptSteps,
           pc'[c] \in RevokeSteps => pc[c] \in RevokeSteps,
           pc'[c] \in CreateSteps => pc[c] \in CreateSteps,
           pc'[c] # "read",
           TableOK', Known \subseteq Known',
           accounts' \subseteq Emails, profiles' \subseteq Emails, access' \in [Emails -> Roles \cup {NULL}],
           faults' \in 0..MaxFaults, removals' \in 0..MaxRemovals,
           exists' \in [Calls -> BOOLEAN], lone' \in [Calls -> BOOLEAN]
    PROVE  TypeInv'
<1> USE DEF TypeInv, TypeOK
<1>1. pc[c] # "idle"
  BY DEF InFlight, Steps
<1>2. /\ pc' \in [Calls -> Steps \cup {"idle", "done"}] /\ pc'[c] # "idle"
      /\ \A d \in Calls : d # c => pc'[d] = pc[d]
      /\ reply' \in [Calls -> {NULL, "done", "failed", "refused", "has access", "is pending"}]
  <2>1. CASE \E step \in Steps : Goto(c, step)
    <3>1. PICK step \in Steps : pc' = [pc EXCEPT ![c] = step] /\ UNCHANGED reply
      BY <2>1 DEF Goto
    <3>2. step # "idle"
      BY <3>1 DEF Steps
    <3> QED
      BY <3>1, <3>2
  <2>2. CASE \E r \in {"done", "failed", "refused", "has access", "is pending"} : Return(c, r)
    <3>1. PICK r \in {"done", "failed", "refused", "has access", "is pending"} :
             pc' = [pc EXCEPT ![c] = "done"] /\ reply' = [reply EXCEPT ![c] = r]
      BY <2>2 DEF Return
    <3> QED
      BY <3>1
  <2> QED
    BY <2>1, <2>2
<1>3. ASSUME NEW d \in Calls PROVE CallOK(d)'
  <2>1. CallOK(d) /\ request'[d] = request[d]
    OBVIOUS
  <2>2. CASE d # c
    BY <1>2, <2>1, <2>2 DEF CallOK, Known
  <2>3. CASE d = c
    BY <1>1, <1>2, <2>1, <2>3 DEF CallOK, Known, CreateSteps, AcceptSteps, RevokeSteps
  <2> QED
    BY <2>2, <2>3
<1> QED
  BY <1>2, <1>3 DEF TableOK

\* Every step keeps the types and the unique index.
LEMMA NextTypeInv == TypeInv /\ [Next]_vars => TypeInv'
<1> SUFFICES ASSUME TypeInv, [Next]_vars PROVE TypeInv'
  OBVIOUS
<1> USE DEF At, tables, bounds
<1>0. /\ \A c \in Calls : CallOK(c)
      /\ invitation \in [Ids -> Rows \cup {NULL}]
      /\ accounts \subseteq Emails /\ profiles \subseteq Emails
      /\ access \in [Emails -> Roles \cup {NULL}]
      /\ faults \in 0..MaxFaults /\ removals \in 0..MaxRemovals
      /\ pc \in [Calls -> Steps \cup {"idle", "done"}]
      /\ exists \in [Calls -> BOOLEAN] /\ lone \in [Calls -> BOOLEAN]
  BY DEF TypeInv, TypeOK
<1>1. ASSUME NEW c \in Calls, NEW r \in Requests, Begin(c, r) PROVE TypeInv'
  <2>1. /\ pc[c] = "idle" /\ request' = [request EXCEPT ![c] = r]
        /\ before' = [before EXCEPT ![c] = {d \in Calls : Returned(d)}]
        /\ lone' = [Disturbed EXCEPT ![c] = ~ \E d \in Calls : InFlight(d)]
        /\ UNCHANGED <<tables, bounds, exists, reply>>
        /\ r.op # "create" => r.id \in Known
    BY <1>1, RequestFields DEF Begin, Goto
  <2>2. PICK step \in {"findExisting", "read", "find"} :
           /\ pc' = [pc EXCEPT ![c] = step]
           /\ step = "findExisting" => r.op = "create"
           /\ step = "read" => r.op = "accept"
           /\ step = "find" => r.op = "revoke"
    BY <1>1, RequestFields DEF Begin, Goto
  <2>3. lone' \in [Calls -> BOOLEAN]
    BY <1>0, <2>1 DEF Disturbed, InFlight
  <2>4. ASSUME NEW d \in Calls PROVE CallOK(d)'
    <3>1. CallOK(d) /\ Known' = Known
      BY <1>0, <2>1 DEF Known
    <3>2. CASE d # c
      <4>1. pc'[d] = pc[d] /\ request'[d] = request[d]
        BY <2>1, <2>2, <3>2 DEF TypeInv, TypeOK
      <4> QED
        BY <3>1, <4>1 DEF CallOK
    <3>3. CASE d = c
      <4>1. pc'[c] = step /\ request'[c] = r
        BY <2>1, <2>2 DEF TypeInv, TypeOK
      <4> QED
        BY <2>1, <2>2, <3>1, <3>3, <4>1 DEF CallOK, CreateSteps, AcceptSteps, RevokeSteps
    <3> QED
      BY <3>2, <3>3
  <2>5. pc' \in [Calls -> Steps \cup {"idle", "done"}]
    BY <1>0, <2>2 DEF Steps
  <2> QED
    BY <2>1, <2>3, <2>4, <2>5 DEF TypeInv, TypeOK, Known
<1>2. ASSUME NEW c \in Calls, FindExisting(c) \/ Read(c) \/ Find(c) PROVE TypeInv'
  <2>1. /\ pc[c] \in {"findExisting", "read", "find"} /\ InFlight(c)
        /\ UNCHANGED <<tables, bounds, request, exists, before, lone>>
    BY <1>2 DEF FindExisting, Read, Find, InFlight, Steps
  <2>2. \/ Goto(c, "insert") /\ pc[c] = "findExisting"
        \/ Goto(c, "checkAccount") /\ pc[c] = "read"
        \/ Goto(c, "cancel") /\ pc[c] = "find"
        \/ \E r \in {"refused", "has access", "is pending"} : Return(c, r)
    BY <1>2 DEF FindExisting, Read, Find
  <2>3. \/ pc'[c] = "insert" /\ pc[c] = "findExisting"
        \/ pc'[c] = "checkAccount" /\ pc[c] = "read"
        \/ pc'[c] = "cancel" /\ pc[c] = "find"
        \/ pc'[c] = "done"
    BY <1>0, <2>2 DEF Goto, Return
  <2>4. \/ \E step \in Steps : Goto(c, step)
        \/ \E r \in {"done", "failed", "refused", "has access", "is pending"} : Return(c, r)
    BY <2>2 DEF Steps
  <2> QED
    BY <1>0, <2>1, <2>3, <2>4, SameTable, StepTypes DEF CreateSteps, AcceptSteps, RevokeSteps
<1>3. ASSUME NEW c \in Calls, CheckAccount(c) PROVE TypeInv'
  <2>1. /\ pc[c] = "checkAccount" /\ InFlight(c) /\ UNCHANGED <<tables, bounds, request, before, lone>>
        /\ exists' \in [Calls -> BOOLEAN]
        /\ Goto(c, "commit") \/ Goto(c, "createAccount")
    BY <1>0, <1>3 DEF CheckAccount, InFlight, Steps, Listed
  <2>2. pc'[c] \in {"commit", "createAccount"}
    BY <1>0, <2>1 DEF Goto
  <2> QED
    BY <1>0, <2>1, <2>2, SameTable, StepTypes DEF Steps, CreateSteps, AcceptSteps, RevokeSteps
<1>4. ASSUME NEW c \in Calls, CreateAccount(c) PROVE TypeInv'
  <2>1. /\ pc[c] = "createAccount" /\ InFlight(c)
        /\ UNCHANGED <<invitation, profiles, access, bounds, request, exists, before, lone>>
        /\ Goto(c, "commit") \/ Return(c, "failed")
        /\ accounts' = accounts \cup {EmailOf(c)}
    BY <1>4 DEF CreateAccount, InFlight, Steps
  <2>2. EmailOf(c) \in Emails
    BY <1>0, <2>1 DEF EmailOf, CallOK, AcceptSteps, Known, Rows
  <2>3. pc'[c] \in {"commit", "done"}
    BY <1>0, <2>1 DEF Goto, Return
  <2> QED
    BY <1>0, <2>1, <2>2, <2>3, SameTable, StepTypes DEF Steps, CreateSteps, AcceptSteps, RevokeSteps
<1>5. ASSUME NEW c \in Calls, Insert(c) PROVE TypeInv'
  <2>1. /\ pc[c] = "insert" /\ InFlight(c)
        /\ UNCHANGED <<accounts, profiles, access, bounds, request, exists, before, lone>>
    BY <1>5 DEF Insert, InFlight, Steps
  <2>2. CASE UNCHANGED invitation /\ \E r \in {"failed", "done"} : Return(c, r)
    <3>1. pc'[c] = "done"
      BY <1>0, <2>2 DEF Return
    <3> QED
      BY <1>0, <2>1, <2>2, <3>1, SameTable, StepTypes DEF CreateSteps, AcceptSteps, RevokeSteps
  <2>3. CASE /\ Return(c, "done")
             /\ \E i \in Ids \ Known, row \in Rows :
                   /\ invitation' = [invitation EXCEPT ![i] = row]
                   /\ IndexAllows(i, row.email, row.status)
                   /\ \E n \in Nat : Known \cup {i} = 1..n
    <3>1. PICK i \in Ids \ Known, row \in Rows :
             /\ invitation' = [invitation EXCEPT ![i] = row]
             /\ IndexAllows(i, row.email, row.status)
             /\ \E n \in Nat : Known \cup {i} = 1..n
      BY <2>3
    <3>2. TableOK' /\ Known' = Known \cup {i}
      BY <3>1, WriteTypes DEF TypeInv
    <3>3. pc'[c] = "done"
      BY <1>0, <2>3 DEF Return
    <3> QED
      BY <1>0, <2>1, <2>3, <3>1, <3>2, <3>3, StepTypes DEF CreateSteps, AcceptSteps, RevokeSteps
  <2> QED
    BY <1>5, <2>2, <2>3, InsertedRow
<1>6. ASSUME NEW c \in Calls, NEW i \in Known, NEW row \in Rows, InFlight(c),
             invitation' = [invitation EXCEPT ![i] = row], IndexAllows(i, row.email, row.status),
             Return(c, "done"), UNCHANGED <<accounts, bounds, request, exists, before, lone>>,
             profiles' \subseteq Emails, access' \in [Emails -> Roles \cup {NULL}]
      PROVE  TypeInv'
  <2>1. TableOK' /\ Known' = Known
    BY <1>6, RewriteTypes
  <2>2. pc'[c] = "done"
    BY <1>0, <1>6 DEF Return
  <2> QED
    BY <1>0, <1>6, <2>1, <2>2, StepTypes DEF CreateSteps, AcceptSteps, RevokeSteps
<1>7. ASSUME NEW c \in Calls, Commit(c) \/ Cancel(c), UNCHANGED <<invitation, profiles, access>>, Return(c, "failed")
      PROVE  TypeInv'
  <2>1. InFlight(c) /\ UNCHANGED <<accounts, bounds, request, exists, before, lone>>
    BY <1>7 DEF Commit, Cancel, InFlight, Steps
  <2>2. pc'[c] = "done"
    BY <1>0, <1>7 DEF Return
  <2> QED
    BY <1>0, <1>7, <2>1, <2>2, SameTable, StepTypes DEF CreateSteps, AcceptSteps, RevokeSteps
<1>8. ASSUME NEW c \in Calls, Commit(c) PROVE TypeInv'
  <2>1. InFlight(c) /\ UNCHANGED <<accounts, bounds, request, exists, before, lone>> /\ request[c].id \in Known
    BY <1>0, <1>8 DEF Commit, InFlight, Steps, CallOK, AcceptSteps
  <2> QED
    BY <1>6, <1>7, <1>8, <2>1, CommittedRow
<1>9. ASSUME NEW c \in Calls, Cancel(c) PROVE TypeInv'
  <2>1. /\ InFlight(c) /\ UNCHANGED <<accounts, profiles, access, bounds, request, exists, before, lone>>
        /\ request[c].id \in Known
    BY <1>0, <1>9 DEF Cancel, InFlight, Steps, CallOK, RevokeSteps
  <2> QED
    BY <1>0, <1>6, <1>7, <1>9, <2>1, CanceledRow
<1>10. ASSUME NEW c \in Calls, Fault(c) PROVE TypeInv'
  <2>1. /\ InFlight(c) /\ faults' \in 0..MaxFaults /\ lone' = [lone EXCEPT ![c] = FALSE]
        /\ UNCHANGED <<invitation, profiles, access, removals, request, before>>
        /\ accounts' \in {accounts} \cup (IF At(c, "createAccount") THEN {accounts \cup {EmailOf(c)}} ELSE {})
        /\ \/ pc[c] = "checkAccount" /\ exists' = [exists EXCEPT ![c] = FALSE] /\ Goto(c, "createAccount")
           \/ UNCHANGED exists /\ Return(c, "failed")
    BY <1>0, <1>10, InvitationsAssumption DEF Fault
  <2>2. pc[c] = "createAccount" => EmailOf(c) \in Emails
    BY <1>0 DEF EmailOf, CallOK, AcceptSteps, Known, Rows
  <2>3. accounts' \subseteq Emails /\ exists' \in [Calls -> BOOLEAN] /\ lone' \in [Calls -> BOOLEAN]
    BY <1>0, <2>1, <2>2
  <2>4. (pc[c] = "checkAccount" /\ pc'[c] = "createAccount") \/ pc'[c] = "done"
    BY <1>0, <2>1 DEF Goto, Return
  <2>5. \/ \E step \in Steps : Goto(c, step)
        \/ \E r \in {"done", "failed", "refused", "has access", "is pending"} : Return(c, r)
    BY <2>1 DEF Steps
  <2> QED
    BY <1>0, <2>1, <2>3, <2>4, <2>5, SameTable, StepTypes DEF CreateSteps, AcceptSteps, RevokeSteps
<1>11. ASSUME NEW i \in Ids, Expire(i) PROVE TypeInv'
  <2> DEFINE row == [invitation[i] EXCEPT !.expired = TRUE]
  <2>1. i \in Known /\ invitation[i] \in Rows
    BY <1>0, <1>11 DEF Expire, Known
  <2>2. row \in Rows /\ row.email = invitation[i].email /\ row.status = invitation[i].status
    BY <2>1 DEF Rows
  <2>3. invitation' = [invitation EXCEPT ![i] = row]
    BY <1>11 DEF Expire
  <2>4. IndexAllows(i, row.email, row.status)
    BY <2>1, <2>2 DEF IndexAllows, Invited, TypeInv, TypeOK
  <2> HIDE DEF row
  <2>5. TableOK' /\ Known' = Known
    BY <2>1, <2>2, <2>3, <2>4, RewriteTypes
  <2>6. lone' \in [Calls -> BOOLEAN]
    BY <1>0, <1>11, <2>1 DEF Expire, Disturbed, InFlight
  <2>7. UNCHANGED <<accounts, profiles, access, bounds, pc, request, exists, reply, before>>
    BY <1>11 DEF Expire
  <2>8. \A c \in Calls : CallOK(c)'
    BY <1>0, <2>5, <2>7 DEF CallOK
  <2> QED
    BY <2>5, <2>6, <2>7, <2>8 DEF TypeInv, TypeOK, TableOK
<1>12. ASSUME NEW e \in Emails, RemoveAccess(e) PROVE TypeInv'
  <2>1. /\ UNCHANGED <<invitation, accounts, profiles, faults, pc, request, exists, reply, before>>
        /\ access' \in [Emails -> Roles \cup {NULL}] /\ removals' \in 0..MaxRemovals
        /\ lone' \in [Calls -> BOOLEAN]
    BY <1>0, <1>12, InvitationsAssumption DEF RemoveAccess, Disturbed, InFlight
  <2> QED
    BY <1>0, <2>1 DEF TypeInv, TypeOK, CallOK, Known
<1>13. CASE UNCHANGED vars
  BY <1>0, <1>13 DEF TypeInv, TypeOK, vars, CallOK, Known
<1> QED
  BY <1>1, <1>2, <1>3, <1>4, <1>5, <1>8, <1>9, <1>10, <1>11, <1>12, <1>13 DEF Next, AllReturned

\* Every reachable state of every instance is well typed, and no email has two
\* invitations of one status.
THEOREM TypeCorrect == Spec => []TypeOK
<1>1. Init => TypeInv
  BY InitTypeInv
<1>2. TypeInv /\ [Next]_vars => TypeInv'
  BY NextTypeInv
<1>3. TypeInv => TypeOK
  BY DEF TypeInv
<1> QED
  BY <1>1, <1>2, <1>3, PTL DEF Spec

-----------------------------------------------------------------------------
(* What a step does to the calls and to the rows, whatever its action.     *)

\* The rows keep their email and their maker; no status goes back to PENDING.
SameRow(i) ==
    /\ i \in Known' /\ invitation'[i].email = invitation[i].email
    /\ invitation'[i].madeBy = invitation[i].madeBy

SameStatus(i) ==
    invitation'[i].status = invitation[i].status /\ invitation'[i].acceptedBy = invitation[i].acceptedBy

\* The only rows that change are the one c accepts or cancels and the one it
\* inserts.
RowsChange(c) ==
    /\ \A i \in Known :
          /\ SameRow(i)
          /\ \/ SameStatus(i)
             \/ /\ pc[c] = "commit" /\ request[c].id = i
                /\ invitation'[i].status = "ACCEPTED" /\ invitation'[i].acceptedBy = c
             \/ pc[c] = "cancel" /\ request[c].id = i /\ invitation'[i].status = "CANCELED"
    /\ \A i \in Known' \ Known :
          /\ pc[c] = "insert" /\ invitation'[i].email = request[c].email
          /\ invitation'[i].status = "PENDING" /\ invitation'[i].madeBy = c

RowsStay == Known' = Known /\ \A i \in Known : SameRow(i) /\ SameStatus(i)

OthersStay(c) ==
    \A d \in Calls : d # c => /\ pc'[d] = pc[d] /\ request'[d] = request[d]
                              /\ reply'[d] = reply[d] /\ before'[d] = before[d]

\* A call begins.
Starts(c) ==
    /\ pc[c] = "idle" /\ OthersStay(c) /\ RowsStay /\ UNCHANGED accounts
    /\ pc'[c] \in {"findExisting", "read", "find"}
    /\ before'[c] = {d \in Calls : pc[d] = "done"}
    /\ \A d \in Calls : lone'[d] => ~ \E e \in Calls : e # d /\ InFlight(d)' /\ InFlight(e)'
    /\ \A d \in Calls : d # c /\ lone'[d] => lone[d]

\* What the step that c has taken says of what it found.
Found(c) ==
    /\ pc'[c] = "insert" => Invited(EmailOf(c), {"PENDING", "ACCEPTED"}) = {} /\ UNCHANGED invitation
    /\ pc'[c] \in AcceptSteps =>
          \/ pc[c] \in AcceptSteps
          \/ pc[c] = "read" /\ invitation[request[c].id].status = "PENDING"
    /\ pc'[c] = "cancel" => invitation[request[c].id].status = "PENDING" /\ UNCHANGED invitation
    /\ pc'[c] = "createAccount" /\ lone'[c] => ~Listed(EmailOf(c)) /\ UNCHANGED accounts

\* What the answer that c has given says of the rows.
Answered(c) ==
    pc'[c] = "done" =>
        /\ reply'[c] = "done" /\ request[c].op = "accept" =>
              pc[c] = "commit" /\ invitation'[request[c].id].status = "ACCEPTED"
        /\ reply'[c] = "done" /\ request[c].op = "revoke" => invitation'[request[c].id].status = "CANCELED"
        /\ reply'[c] = "failed" /\ request[c].op = "accept" /\ lone'[c] =>
              \/ pc[c] = "createAccount" /\ EmailOf(c) \in accounts
              \/ /\ pc[c] = "commit" /\ UNCHANGED invitation
                 /\ ~IndexAllows(request[c].id, EmailOf(c), "ACCEPTED")

\* A call under way takes a step.
Works(c) ==
    /\ InFlight(c) /\ OthersStay(c) /\ RowsChange(c) /\ UNCHANGED <<request, before>>
    /\ pc'[c] # "idle"
    /\ \A d \in Calls : lone'[d] => lone[d]
    /\ Found(c) /\ Answered(c)

\* Something happens outside of the calls.
Outside ==
    /\ RowsStay /\ UNCHANGED <<pc, request, reply, before, accounts>>
    /\ \A d \in Calls : lone'[d] => lone[d]

\* Where the program counter goes.
LEMMA PcAfter ==
    ASSUME TypeInv, NEW c \in Calls
    PROVE  /\ \A step \in Steps : Goto(c, step) =>
                 pc'[c] = step /\ reply'[c] = reply[c] /\ \A d \in Calls : d # c => pc'[d] = pc[d] /\ reply'[d] = reply[d]
           /\ \A r : Return(c, r) =>
                 pc'[c] = "done" /\ reply'[c] = r /\ \A d \in Calls : d # c => pc'[d] = pc[d] /\ reply'[d] = reply[d]
BY DEF TypeInv, TypeOK, Goto, Return

\* Rows that are not written stay.
LEMMA RowsUnchanged ==
    ASSUME UNCHANGED invitation
    PROVE  RowsStay /\ \A c \in Calls : RowsChange(c)
BY DEF RowsStay, RowsChange, SameRow, SameStatus, Known

LEMMA StartsShape == ASSUME TypeInv, NEW c \in Calls, NEW r \in Requests, Begin(c, r) PROVE Starts(c)
<1>1. /\ pc[c] = "idle" /\ request' = [request EXCEPT ![c] = r]
      /\ before' = [before EXCEPT ![c] = {d \in Calls : pc[d] = "done"}]
      /\ lone' = [[d \in Calls |-> lone[d] /\ ~InFlight(d)] EXCEPT ![c] = ~ \E d \in Calls : InFlight(d)]
      /\ UNCHANGED <<invitation, accounts, reply>>
  BY RequestFields DEF Begin, At, Goto, tables, Returned, Disturbed
<1>2. \E step \in {"findExisting", "read", "find"} : pc' = [pc EXCEPT ![c] = step]
  BY RequestFields DEF Begin, Goto
<1>3. OthersStay(c) /\ pc'[c] \in {"findExisting", "read", "find"} /\ before'[c] = {d \in Calls : pc[d] = "done"}
  BY <1>1, <1>2 DEF OthersStay, TypeInv, TypeOK
<1>4. lone'[c] = ~ \E d \in Calls : InFlight(d)
  BY <1>1
<1>5. \A d \in Calls : d # c => lone'[d] = (lone[d] /\ ~InFlight(d))
  BY <1>1
<1>6. \A d \in Calls : d # c => InFlight(d)' = InFlight(d)
  BY <1>3 DEF OthersStay, InFlight
<1>7. \A d \in Calls : lone'[d] => ~ \E e \in Calls : e # d /\ InFlight(d)' /\ InFlight(e)'
  BY <1>4, <1>5, <1>6
<1> QED
  BY <1>1, <1>3, <1>5, <1>7, RowsUnchanged DEF Starts

\* Steps that only read and go on, or refuse.
LEMMA ReadShape ==
    ASSUME TypeInv, NEW c \in Calls, FindExisting(c) \/ Read(c) \/ Find(c) \/ CheckAccount(c)
    PROVE  Works(c)
<1>1. /\ pc[c] \in {"findExisting", "read", "find", "checkAccount"}
      /\ UNCHANGED <<invitation, accounts, request, before, lone>>
  BY DEF FindExisting, Read, Find, CheckAccount, At, tables
<1>2. \/ /\ pc[c] = "findExisting" /\ Goto(c, "insert")
         /\ Invited(EmailOf(c), {"PENDING", "ACCEPTED"}) = {}
      \/ /\ pc[c] = "read" /\ Goto(c, "checkAccount") /\ invitation[request[c].id].status = "PENDING"
      \/ /\ pc[c] = "find" /\ Goto(c, "cancel") /\ invitation[request[c].id].status = "PENDING"
      \/ /\ pc[c] = "checkAccount" /\ Goto(c, "createAccount") /\ ~Listed(EmailOf(c))
      \/ /\ pc[c] = "checkAccount" /\ Goto(c, "commit")
      \/ \E r \in {"refused", "has access", "is pending"} : Return(c, r)
  BY DEF FindExisting, Read, Find, CheckAccount, At, PendingOrAccepted, Acceptable, Revocable
<1>3. \/ /\ pc[c] = "findExisting" /\ pc'[c] = "insert" /\ UNCHANGED reply
         /\ Invited(EmailOf(c), {"PENDING", "ACCEPTED"}) = {}
      \/ /\ pc[c] = "read" /\ pc'[c] = "checkAccount" /\ invitation[request[c].id].status = "PENDING"
      \/ /\ pc[c] = "find" /\ pc'[c] = "cancel" /\ invitation[request[c].id].status = "PENDING"
      \/ /\ pc[c] = "checkAccount" /\ pc'[c] = "createAccount" /\ ~Listed(EmailOf(c))
      \/ /\ pc[c] = "checkAccount" /\ pc'[c] = "commit"
      \/ pc'[c] = "done" /\ reply'[c] \in {"refused", "has access", "is pending"}
  BY <1>2, PcAfter DEF Goto, Steps
<1>4. OthersStay(c)
  BY <1>1, <1>2, PcAfter DEF OthersStay, Steps
<1>5. Found(c) /\ Answered(c)
  BY <1>1, <1>3 DEF Found, Answered, AcceptSteps
<1> QED
  BY <1>1, <1>3, <1>4, <1>5, RowsUnchanged DEF Works, InFlight, Steps

LEMMA CreateAccountShape == ASSUME TypeInv, NEW c \in Calls, CreateAccount(c) PROVE Works(c)
<1>1. pc[c] = "createAccount" /\ UNCHANGED <<invitation, request, before, lone>>
  BY DEF CreateAccount, At
<1>2. (Return(c, "failed") /\ EmailOf(c) \in accounts) \/ Goto(c, "commit")
  BY DEF CreateAccount
<1>3. \/ pc'[c] = "done" /\ reply'[c] = "failed" /\ EmailOf(c) \in accounts
      \/ pc'[c] = "commit"
  BY <1>2, PcAfter DEF Steps
<1>4. OthersStay(c)
  BY <1>1, <1>2, PcAfter DEF OthersStay, Steps
<1>5. Found(c) /\ Answered(c)
  BY <1>1, <1>3 DEF Found, Answered, AcceptSteps
<1> QED
  BY <1>1, <1>3, <1>4, <1>5, RowsUnchanged DEF Works, InFlight, Steps

LEMMA FaultShape == ASSUME TypeInv, NEW c \in Calls, Fault(c) PROVE Works(c)
<1>1. /\ InFlight(c) /\ UNCHANGED <<invitation, request, before>>
      /\ lone' = [lone EXCEPT ![c] = FALSE]
  BY DEF Fault
<1>2. \/ pc[c] = "checkAccount" /\ Goto(c, "createAccount")
      \/ Return(c, "failed")
  BY DEF Fault, At
<1>3. \/ pc[c] = "checkAccount" /\ pc'[c] = "createAccount"
      \/ pc'[c] = "done" /\ reply'[c] = "failed"
  BY <1>2, PcAfter DEF Steps
<1>4. OthersStay(c)
  BY <1>1, <1>2, PcAfter DEF OthersStay, Steps
<1>5. ~lone'[c] /\ \A d \in Calls : lone'[d] => lone[d]
  BY <1>1 DEF TypeInv, TypeOK
<1>6. Found(c) /\ Answered(c)
  BY <1>1, <1>3, <1>5 DEF Found, Answered, AcceptSteps
<1> QED
  BY <1>1, <1>3, <1>4, <1>5, <1>6, RowsUnchanged DEF Works

LEMMA InsertShape == ASSUME TypeInv, NEW c \in Calls, Insert(c) PROVE Works(c)
<1>1. /\ pc[c] = "insert" /\ request[c].op = "create" /\ UNCHANGED <<accounts, request, before, lone>>
  BY DEF Insert, At, TypeInv, CallOK, CreateSteps
<1>2. Return(c, "done") \/ Return(c, "failed")
  BY DEF Insert
<1>3. pc'[c] = "done"
  BY <1>2, PcAfter
<1>4. OthersStay(c)
  BY <1>1, <1>2, PcAfter DEF OthersStay
<1>5. RowsChange(c)
  <2>1. CASE UNCHANGED invitation
    BY <2>1, RowsUnchanged
  <2>2. CASE \E i \in Ids \ Known, row \in Rows :
                /\ invitation' = [invitation EXCEPT ![i] = row]
                /\ IndexAllows(i, row.email, row.status)
                /\ \E n \in Nat : Known \cup {i} = 1..n
                /\ row.email = request[c].email /\ row.status = "PENDING" /\ row.madeBy = c
    <3>1. PICK i \in Ids \ Known, row \in Rows :
             /\ invitation' = [invitation EXCEPT ![i] = row]
             /\ IndexAllows(i, row.email, row.status)
             /\ \E n \in Nat : Known \cup {i} = 1..n
             /\ row.email = request[c].email /\ row.status = "PENDING" /\ row.madeBy = c
      BY <2>2
    <3>2. Known' = Known \cup {i}
      BY <3>1, WriteTypes DEF TypeInv
    <3>3. invitation'[i] = row /\ \A j \in Known : invitation'[j] = invitation[j]
      BY <3>1 DEF TypeInv, TypeOK, Known
    <3> QED
      BY <1>1, <3>1, <3>2, <3>3 DEF RowsChange, SameRow, SameStatus
  <2> QED
    BY <2>1, <2>2, InsertedRow
<1>6. Found(c) /\ Answered(c)
  BY <1>1, <1>3 DEF Found, Answered, AcceptSteps
<1> QED
  BY <1>1, <1>3, <1>4, <1>5, <1>6 DEF Works, InFlight, Steps

LEMMA CommitShape == ASSUME TypeInv, NEW c \in Calls, Commit(c) PROVE Works(c)
<1> DEFINE i == request[c].id
<1>1. /\ pc[c] = "commit" /\ request[c].op = "accept" /\ i \in Known
      /\ UNCHANGED <<accounts, request, before, lone>>
  BY DEF Commit, At, TypeInv, CallOK, AcceptSteps
<1>2. \/ /\ Return(c, "failed") /\ UNCHANGED invitation /\ ~IndexAllows(i, EmailOf(c), "ACCEPTED")
      \/ /\ Return(c, "done") /\ IndexAllows(i, EmailOf(c), "ACCEPTED") /\ invitation' = Accepted(i, c)
  BY DEF Commit
<1>3. OthersStay(c) /\ pc'[c] = "done"
  BY <1>1, <1>2, PcAfter DEF OthersStay
<1>4. CASE Return(c, "failed") /\ UNCHANGED invitation /\ ~IndexAllows(i, EmailOf(c), "ACCEPTED")
  <2>1. reply'[c] = "failed"
    BY <1>4, PcAfter
  <2>2. Found(c) /\ Answered(c)
    BY <1>1, <1>3, <1>4, <2>1 DEF Found, Answered, AcceptSteps
  <2> QED
    BY <1>1, <1>3, <1>4, <2>2, RowsUnchanged DEF Works, InFlight, Steps
<1>5. CASE Return(c, "done") /\ invitation' = Accepted(i, c)
  <2>1. reply'[c] = "done"
    BY <1>5, PcAfter
  <2>2. invitation[i] \in Rows /\ i \in Ids
    BY <1>1 DEF TypeInv, TypeOK, Known
  <2>3. /\ invitation'[i].email = invitation[i].email /\ invitation'[i].madeBy = invitation[i].madeBy
        /\ invitation'[i].status = "ACCEPTED" /\ invitation'[i].acceptedBy = c /\ invitation'[i] # NULL
        /\ \A j \in Ids : j # i => invitation'[j] = invitation[j]
    <3>1. PICK row \in Rows :
             /\ invitation' = [invitation EXCEPT ![i] = row]
             /\ row.email = invitation[i].email /\ row.status = "ACCEPTED"
             /\ row.madeBy = invitation[i].madeBy /\ row.acceptedBy = c
      <4>1. ~Return(c, "failed")
        BY <2>1, PcAfter
      <4> QED
        BY <4>1, CommittedRow
    <3>2. row # NULL
      BY InvitationsAssumption
    <3> QED
      BY <2>2, <3>1, <3>2 DEF TypeInv, TypeOK
  <2>4. Known' = Known
    BY <1>1, <2>2, <2>3 DEF Known
  <2>5. RowsChange(c)
    BY <1>1, <2>3, <2>4 DEF RowsChange, SameRow, SameStatus, Known
  <2>6. Found(c) /\ Answered(c)
    BY <1>1, <1>3, <2>1, <2>3 DEF Found, Answered, AcceptSteps
  <2> QED
    BY <1>1, <1>3, <2>5, <2>6 DEF Works, InFlight, Steps
<1> QED
  BY <1>2, <1>4, <1>5

LEMMA CancelShape == ASSUME TypeInv, NEW c \in Calls, Cancel(c) PROVE Works(c)
<1> DEFINE i == request[c].id
<1>1. /\ pc[c] = "cancel" /\ request[c].op = "revoke" /\ i \in Known
      /\ UNCHANGED <<accounts, request, before, lone>>
  BY DEF Cancel, At, TypeInv, CallOK, RevokeSteps
<1>2. Return(c, "failed") \/ Return(c, "done")
  BY DEF Cancel
<1>3. OthersStay(c) /\ pc'[c] = "done"
  BY <1>1, <1>2, PcAfter DEF OthersStay
<1>4. CASE Return(c, "failed") /\ UNCHANGED invitation
  <2>1. reply'[c] = "failed"
    BY <1>4, PcAfter
  <2>2. Found(c) /\ Answered(c)
    BY <1>1, <1>3, <2>1 DEF Found, Answered, AcceptSteps
  <2> QED
    BY <1>1, <1>3, <1>4, <2>2, RowsUnchanged DEF Works, InFlight, Steps
<1>5. CASE ~(Return(c, "failed") /\ UNCHANGED invitation)
  <2>1. invitation[i] \in Rows /\ i \in Ids
    BY <1>1 DEF TypeInv, TypeOK, Known
  <2>2. PICK row \in Rows :
             /\ invitation' = [invitation EXCEPT ![i] = row]
             /\ row.email = invitation[i].email /\ row.status = "CANCELED"
             /\ row.madeBy = invitation[i].madeBy
    BY <1>5, CanceledRow
  <2>3. row # NULL
    BY InvitationsAssumption
  <2>4. /\ invitation'[i] = row
        /\ \A j \in Ids : j # i => invitation'[j] = invitation[j]
    BY <2>1, <2>2 DEF TypeInv, TypeOK
  <2>5. Known' = Known
    BY <1>1, <2>1, <2>3, <2>4 DEF Known
  <2>6. RowsChange(c)
    BY <1>1, <2>2, <2>4, <2>5 DEF RowsChange, SameRow, SameStatus, Known
  <2>7. Found(c) /\ Answered(c)
    BY <1>1, <1>3, <2>2, <2>4 DEF Found, Answered, AcceptSteps
  <2> QED
    BY <1>1, <1>3, <2>6, <2>7 DEF Works, InFlight, Steps
<1> QED
  BY <1>4, <1>5

\* Every step is one of three kinds.
LEMMA StepShape ==
    ASSUME TypeInv, [Next]_vars
    PROVE  Outside \/ \E c \in Calls : Starts(c) \/ Works(c)
<1>1. ASSUME NEW i \in Ids, Expire(i) PROVE Outside
  <2>1. invitation[i] \in Rows /\ Known \subseteq Ids
    BY <1>1 DEF Expire, TypeInv, TypeOK, Known
  <2>2. /\ \A j \in Ids : j # i => invitation'[j] = invitation[j]
        /\ invitation'[i] = [invitation[i] EXCEPT !.expired = TRUE]
    BY <1>1 DEF Expire, TypeInv, TypeOK
  <2>3. [invitation[i] EXCEPT !.expired = TRUE] \in Rows
    BY <2>1 DEF Rows
  <2>4. Known' = Known
    BY <1>1, <2>2, <2>3, InvitationsAssumption DEF Known, Expire
  <2>5. RowsStay
    BY <2>1, <2>2, <2>4 DEF RowsStay, SameRow, SameStatus, Rows
  <2>6. \A d \in Calls : lone'[d] => lone[d]
    BY <1>1 DEF Expire, Disturbed
  <2> QED
    BY <1>1, <2>5, <2>6 DEF Outside, Expire
<1>2. ASSUME NEW e \in Emails, RemoveAccess(e) PROVE Outside
  <2>1. \A d \in Calls : lone'[d] => lone[d]
    BY <1>2 DEF RemoveAccess, Disturbed
  <2> QED
    BY <1>2, <2>1, RowsUnchanged DEF Outside, RemoveAccess
<1>3. CASE UNCHANGED vars
  BY <1>3, RowsUnchanged DEF Outside, vars, tables
<1> QED
  BY <1>1, <1>2, <1>3, StartsShape, ReadShape, CreateAccountShape, FaultShape, InsertShape, CommitShape,
     CancelShape DEF Next, AllReturned

-----------------------------------------------------------------------------
(* The invariant.                                                          *)

Closes(d, i) == Did(d, "accept", i) \/ Did(d, "revoke", i)

\* A call that had returned before another began is history to it.
History == \A c, d \in Calls : d \in before[c] => Returned(d) /\ pc[c] # "idle"

\* Who made a row and who accepted it has begun.
Authors ==
    \A i \in Known :
        /\ pc[invitation[i].madeBy] # "idle"
        /\ invitation[i].status = "ACCEPTED" =>
              invitation[i].acceptedBy \in Calls /\ pc[invitation[i].acceptedBy] # "idle"

\* A row that was used or revoked is not pending again.
Closed == \A d \in Calls : \A i \in Known : Closes(d, i) => invitation[i].status # "PENDING"

\* The row an acceptance has read was open when the acceptance began.
ReadOpen ==
    \A c \in Calls :
        pc[c] \in AcceptSteps \/ Did(c, "accept", request[c].id)
        => \A d \in before[c] : ~Closes(d, request[c].id)

\* A call about to insert found nothing accepted: what is accepted now was
\* accepted meanwhile.
NoneAcceptedBefore ==
    \A c \in Calls : pc[c] = "insert" =>
        \A i \in Known : invitation[i].email = request[c].email /\ invitation[i].status = "ACCEPTED"
                         => invitation[i].acceptedBy \notin before[c]

\* The row an acceptance has read was the only pending one of its email.
NonePendingBefore ==
    \A c \in Calls : pc[c] \in AcceptSteps =>
        \A j \in Known : /\ j # request[c].id /\ invitation[j].status = "PENDING"
                         /\ invitation[j].email = invitation[request[c].id].email
                         => invitation[j].madeBy \notin before[c]

OneLive ==
    \A i, j \in Known :
        /\ i # j /\ invitation[i].email = invitation[j].email
        /\ invitation[i].status = "ACCEPTED" /\ invitation[j].status \in {"ACCEPTED", "PENDING"}
        => Overlap(invitation[i].acceptedBy, invitation[j].madeBy)

\* A call that nothing has met is the only one under way.
Alone == \A c, d \in Calls : lone[c] /\ InFlight(c) /\ InFlight(d) => c = d

\* What it found of the account still holds.
NoAccount ==
    \A c \in Calls :
        lone[c] /\ pc[c] = "createAccount" /\ EmailOf(c) \notin Unlisted => EmailOf(c) \notin accounts

\* An acceptance that failed, met by nothing, found another accepted row, which
\* no revocation under way has read as pending.
OtherAccepted(c) ==
    \E j \in Known :
        /\ j # request[c].id /\ invitation[j].status = "ACCEPTED"
        /\ invitation[j].email = invitation[request[c].id].email
        /\ \A d \in Calls : pc[d] = "cancel" => request[d].id # j

Refused(c) == Undisturbed(c, "accept") /\ reply[c] = "failed" /\ EmailOf(c) \notin Unlisted

Retried == \A c \in Calls : Refused(c) => OtherAccepted(c)

AccessInv == History /\ Closed /\ ReadOpen

LEMMA InitAccess == Init => AccessInv
BY DEF Init, AccessInv, History, Closed, ReadOpen, Known, Did, Closes, Returned, AcceptSteps

LEMMA HistoryStep ==
    ASSUME TypeInv, History, Outside \/ \E c \in Calls : Starts(c) \/ Works(c)
    PROVE  History'
<1>1. CASE Outside
  BY <1>1 DEF Outside, History, Returned
<1>2. ASSUME NEW c \in Calls, Starts(c) PROVE History'
  <2> SUFFICES ASSUME NEW e \in Calls, NEW d \in Calls, d \in before'[e]
               PROVE  pc'[d] = "done" /\ pc'[e] # "idle"
    BY DEF History, Returned
  <2>1. pc[d] = "done" /\ pc'[e] # "idle"
    <3>1. CASE e = c
      BY <1>2, <3>1 DEF Starts
    <3>2. CASE e # c
      BY <1>2, <3>2 DEF Starts, OthersStay, History, Returned
    <3> QED
      BY <3>1, <3>2
  <2> QED
    BY <1>2, <2>1 DEF Starts, OthersStay
<1>3. ASSUME NEW c \in Calls, Works(c) PROVE History'
  BY <1>3 DEF Works, OthersStay, History, Returned, InFlight, Steps
<1> QED
  BY <1>1, <1>2, <1>3

\* The calls another call has found done answer no more.
LEMMA ClosesKept ==
    ASSUME TypeInv, History, NEW c \in Calls, Starts(c) \/ Works(c), NEW d \in Calls, d # c, NEW i
    PROVE  Closes(d, i)' = Closes(d, i)
BY DEF Starts, Works, OthersStay, Closes, Did, Returned

LEMMA ClosedStep ==
    ASSUME TypeInv, TypeInv', History, Closed, Outside \/ \E c \in Calls : Starts(c) \/ Works(c)
    PROVE  Closed'
<1>1. CASE Outside
  BY <1>1 DEF Outside, Closed, RowsStay, SameStatus, Closes, Did, Returned
<1>2. ASSUME NEW c \in Calls, Starts(c) PROVE Closed'
  <2>1. \A i : ~Closes(c, i)'
    BY <1>2 DEF Starts, Closes, Did, Returned
  <2> QED
    BY <1>2, <2>1, ClosesKept DEF Closed, Starts, RowsStay, SameStatus
<1>3. ASSUME NEW c \in Calls, Works(c), NEW d \in Calls, NEW i \in Known', Closes(d, i)'
      PROVE  invitation'[i].status # "PENDING"
  <2>1. CASE d = c
    BY <1>3, <2>1 DEF Works, Answered, Closes, Did, Returned
  <2>2. CASE d # c
    <3>1. Closes(d, i)
      BY <1>3, <2>2, ClosesKept
    <3>2. i \in Known
      BY <1>3, <3>1, RequestFields DEF Closes, Did, Returned, TypeInv, CallOK
    <3> QED
      BY <1>3, <3>1, <3>2 DEF Closed, Works, RowsChange, SameStatus
  <2> QED
    BY <2>1, <2>2
<1> QED
  BY <1>1, <1>2, <1>3 DEF Closed

LEMMA ReadOpenStep ==
    ASSUME TypeInv, TypeInv', History, Closed, ReadOpen, Outside \/ \E c \in Calls : Starts(c) \/ Works(c)
    PROVE  ReadOpen'
<1>1. CASE Outside
  BY <1>1 DEF Outside, ReadOpen, Closes, Did, Returned
<1>2. ASSUME NEW c \in Calls, Starts(c) \/ Works(c),
             NEW e \in Calls, pc'[e] \in AcceptSteps \/ Did(e, "accept", request[e].id)',
             NEW d \in Calls, d \in before'[e]
      PROVE  ~Closes(d, request[e].id)'
  <2>1. e # c \/ Works(c)
    BY <1>2 DEF Starts, AcceptSteps, Did, Returned
  <2>2. d \in before[e] /\ request'[e] = request[e]
    BY <1>2, <2>1 DEF Starts, Works, OthersStay
  <2>3. d # c /\ Returned(d)
    BY <1>2, <2>2 DEF History, Starts, Works, InFlight, Steps, Returned
  <2>4. CASE pc[e] \in AcceptSteps \/ Did(e, "accept", request[e].id)
    BY <1>2, <2>2, <2>3, <2>4, ClosesKept DEF ReadOpen
  <2>5. CASE e = c /\ pc[c] = "read" /\ invitation[request[c].id].status = "PENDING"
    <3>1. request[c].id \in Known
      BY <2>5, RequestFields DEF TypeInv, CallOK
    <3> QED
      BY <1>2, <2>2, <2>3, <2>5, <3>1, ClosesKept DEF Closed
  <2>6. CASE e # c
    <3>1. pc'[e] = pc[e] /\ reply'[e] = reply[e]
      BY <1>2, <2>6 DEF Starts, Works, OthersStay
    <3> QED
      BY <1>2, <2>2, <2>4, <3>1 DEF Did, Returned
  <2>7. CASE e = c /\ Works(c)
    <3>1. pc[c] \in AcceptSteps \/ (pc[c] = "read" /\ invitation[request[c].id].status = "PENDING")
      BY <1>2, <2>2, <2>7 DEF Works, Found, Answered, Did, Returned, AcceptSteps
    <3> QED
      BY <2>4, <2>5, <2>7, <3>1
  <2> QED
    BY <2>1, <2>6, <2>7
<1>3. ASSUME NEW c \in Calls, Starts(c) \/ Works(c) PROVE ReadOpen'
  <2>1. \A e \in Calls : before'[e] \subseteq Calls
    BY DEF TypeInv, TypeOK
  <2> QED
    BY <1>2, <1>3, <2>1 DEF ReadOpen
<1> QED
  BY <1>1, <1>3

\* Revoking an invitation, or using it, keeps out every acceptance of it that
\* begins later, whatever else runs: what acceptInvitation promises by reading
\* the status first.
THEOREM RevocationHolds == Spec => []ClosedBeforeAccept
<1>1. Init => TypeInv /\ AccessInv
  BY InitTypeInv, InitAccess
<1>2. TypeInv /\ AccessInv /\ [Next]_vars => (TypeInv /\ AccessInv)'
  BY NextTypeInv, StepShape, HistoryStep, ClosedStep, ReadOpenStep DEF AccessInv
<1>3. AccessInv => ClosedBeforeAccept
  <2>1. ASSUME AccessInv, NEW c \in Calls, NEW d \in Calls, NEW i \in Ids, Did(c, "accept", i), d \in before[c]
        PROVE  ~Did(d, "revoke", i) /\ ~Did(d, "accept", i)
    <3>1. request[c].id = i
      BY <2>1 DEF Did
    <3> QED
      BY <2>1, <3>1 DEF AccessInv, ReadOpen, Closes
  <2> QED
    BY <2>1 DEF ClosedBeforeAccept
<1> QED
  BY <1>1, <1>2, <1>3, PTL DEF Spec

-----------------------------------------------------------------------------
(* How many invitations of an email are live.                              *)

LiveInv == History /\ Authors /\ NoneAcceptedBefore /\ NonePendingBefore /\ OneLive

LEMMA InitLive == Init => LiveInv
BY DEF Init, LiveInv, History, Authors, NoneAcceptedBefore, NonePendingBefore, OneLive, Known, AcceptSteps

\* What a call asks for is settled when it begins.
LEMMA BegunKept ==
    ASSUME NEW c \in Calls, Starts(c) \/ Works(c), NEW d \in Calls, pc[d] # "idle"
    PROVE  pc'[d] # "idle" /\ before'[d] = before[d] /\ request'[d] = request[d]
BY DEF Starts, Works, OthersStay

\* A row after a step is an old one, or the one just inserted.
LEMMA RowAfter ==
    ASSUME TypeInv, NEW c \in Calls, Starts(c) \/ Works(c), NEW i \in Known'
    PROVE  \/ i \in Known /\ SameRow(i) /\ SameStatus(i)
           \/ /\ Works(c) /\ i \in Known /\ SameRow(i) /\ pc[c] = "commit" /\ request[c].id = i
              /\ invitation'[i].status = "ACCEPTED" /\ invitation'[i].acceptedBy = c
           \/ Works(c) /\ i \in Known /\ SameRow(i) /\ invitation'[i].status = "CANCELED"
           \/ /\ Works(c) /\ pc[c] = "insert" /\ invitation'[i].email = request[c].email
              /\ invitation'[i].status = "PENDING" /\ invitation'[i].madeBy = c
BY DEF Starts, Works, RowsStay, RowsChange

LEMMA AuthorsStep ==
    ASSUME TypeInv, TypeInv', Authors, Outside \/ \E c \in Calls : Starts(c) \/ Works(c)
    PROVE  Authors'
<1>1. CASE Outside
  BY <1>1 DEF Outside, Authors, RowsStay, SameRow, SameStatus
<1>2. ASSUME NEW c \in Calls, Starts(c) \/ Works(c), NEW i \in Known'
      PROVE  /\ pc'[invitation'[i].madeBy] # "idle"
             /\ invitation'[i].status = "ACCEPTED" =>
                   invitation'[i].acceptedBy \in Calls /\ pc'[invitation'[i].acceptedBy] # "idle"
  <2>1. Works(c) => pc'[c] # "idle"
    BY DEF Works
  <2>2. i \in Known => invitation[i].madeBy \in Calls
    BY DEF TypeInv, TypeOK, Known, Rows
  <2>3. i \in Known => pc'[invitation[i].madeBy] # "idle"
    BY <1>2, <2>2, BegunKept DEF Authors
  <2>4. i \in Known /\ invitation[i].status = "ACCEPTED" =>
           invitation[i].acceptedBy \in Calls /\ pc'[invitation[i].acceptedBy] # "idle"
    BY <1>2, BegunKept DEF Authors
  <2> QED
    BY <1>2, <2>1, <2>3, <2>4, RowAfter DEF SameRow, SameStatus
<1> QED
  BY <1>1, <1>2 DEF Authors

LEMMA NoneAcceptedStep ==
    ASSUME TypeInv, TypeInv', History, NoneAcceptedBefore, Outside \/ \E c \in Calls : Starts(c) \/ Works(c)
    PROVE  NoneAcceptedBefore'
<1>1. CASE Outside
  BY <1>1 DEF Outside, NoneAcceptedBefore, RowsStay, SameRow, SameStatus
<1>2. ASSUME NEW c \in Calls, Starts(c) \/ Works(c), NEW e \in Calls, pc'[e] = "insert", NEW i \in Known',
             invitation'[i].email = request'[e].email, invitation'[i].status = "ACCEPTED"
      PROVE  invitation'[i].acceptedBy \notin before'[e]
  <2>1. /\ before'[e] = before[e] /\ request'[e] = request[e]
        /\ c \notin before[e]
    BY <1>2 DEF Starts, Works, OthersStay, History, Returned, InFlight, Steps
  <2>2. CASE invitation'[i].acceptedBy = c
    BY <2>1, <2>2
  <2>3. CASE i \in Known /\ SameRow(i) /\ SameStatus(i)
    <3>1. CASE e # c
      <4>1. pc[e] = "insert"
        BY <1>2, <3>1 DEF Starts, Works, OthersStay
      <4> QED
        BY <1>2, <2>1, <2>3, <4>1 DEF NoneAcceptedBefore, SameRow, SameStatus
    <3>2. CASE e = c
      <4>1. Invited(EmailOf(c), {"PENDING", "ACCEPTED"}) = {} /\ request[c].op = "create"
        BY <1>2, <2>1, <3>2 DEF Starts, Works, Found, TypeInv, CallOK, CreateSteps
      <4>2. EmailOf(c) = request[c].email
        BY <4>1 DEF EmailOf
      <4> QED
        BY <1>2, <2>1, <2>3, <3>2, <4>1, <4>2 DEF Invited, SameRow, SameStatus
    <3> QED
      BY <3>1, <3>2
  <2> QED
    BY <1>2, <2>2, <2>3, RowAfter
<1> QED
  BY <1>1, <1>2 DEF NoneAcceptedBefore

LEMMA NonePendingStep ==
    ASSUME TypeInv, TypeInv', History, NonePendingBefore, Outside \/ \E c \in Calls : Starts(c) \/ Works(c)
    PROVE  NonePendingBefore'
<1>1. CASE Outside
  <2>1. \A e \in Calls : pc[e] \in AcceptSteps => request[e].id \in Known
    BY DEF TypeInv, CallOK, AcceptSteps
  <2> QED
    BY <1>1, <2>1 DEF Outside, NonePendingBefore, RowsStay, SameRow, SameStatus
<1>2. ASSUME NEW c \in Calls, Starts(c) \/ Works(c), NEW e \in Calls, pc'[e] \in AcceptSteps, NEW j \in Known',
             j # request'[e].id, invitation'[j].status = "PENDING",
             invitation'[j].email = invitation'[request'[e].id].email
      PROVE  invitation'[j].madeBy \notin before'[e]
  <2>1. /\ before'[e] = before[e] /\ request'[e] = request[e]
        /\ c \notin before[e]
    BY <1>2 DEF Starts, Works, OthersStay, History, Returned, InFlight, Steps, AcceptSteps
  <2>2. CASE invitation'[j].madeBy = c
    BY <2>1, <2>2
  <2>3. CASE j \in Known /\ SameRow(j) /\ SameStatus(j)
    <3>1. pc[e] \in AcceptSteps \/ (e = c /\ pc[c] = "read" /\ invitation[request[c].id].status = "PENDING")
      BY <1>2 DEF Starts, Works, OthersStay, Found, AcceptSteps
    <3>2. request[e].id \in Known
      BY <3>1, RequestFields DEF TypeInv, CallOK, AcceptSteps
    <3>3. invitation'[request[e].id].email = invitation[request[e].id].email
      BY <1>2, <3>2 DEF Starts, Works, RowsStay, RowsChange, SameRow
    <3>4. CASE pc[e] \in AcceptSteps
      BY <1>2, <2>1, <2>3, <3>3, <3>4 DEF NonePendingBefore, SameRow, SameStatus
    <3>5. CASE e = c /\ invitation[request[c].id].status = "PENDING"
      <4>1. /\ j # request[e].id /\ invitation[j].email = invitation[request[e].id].email
            /\ invitation[j].status = invitation[request[e].id].status
        BY <1>2, <2>1, <2>3, <3>3, <3>5 DEF SameRow, SameStatus
      <4> QED
        BY <2>3, <3>2, <4>1 DEF TypeInv, TypeOK
    <3> QED
      BY <3>1, <3>4, <3>5
  <2> QED
    BY <1>2, <2>2, <2>3, RowAfter
<1> QED
  BY <1>1, <1>2 DEF NonePendingBefore

LEMMA OneLiveStep ==
    ASSUME TypeInv, TypeInv', LiveInv, Outside \/ \E c \in Calls : Starts(c) \/ Works(c)
    PROVE  OneLive'
<1>1. CASE Outside
  BY <1>1 DEF LiveInv, Outside, OneLive, RowsStay, SameRow, SameStatus, Overlap
<1>2. ASSUME NEW c \in Calls, Starts(c) \/ Works(c), NEW i \in Known', NEW j \in Known', i # j,
             invitation'[i].email = invitation'[j].email,
             invitation'[i].status = "ACCEPTED", invitation'[j].status \in {"ACCEPTED", "PENDING"}
      PROVE  /\ invitation'[i].acceptedBy \notin before'[invitation'[j].madeBy]
             /\ invitation'[j].madeBy \notin before'[invitation'[i].acceptedBy]
  <2>1. invitation'[j].status = "PENDING"
    BY <1>2 DEF TypeInv, TypeOK
  <2>2. \A d \in Calls : Works(c) => c \notin before[d]
    BY DEF LiveInv, History, Returned, Works, InFlight, Steps
  <2>3. CASE i \in Known /\ SameRow(i) /\ SameStatus(i) /\ j \in Known /\ SameRow(j) /\ SameStatus(j)
    <3>1. /\ invitation[j].madeBy \in Calls /\ pc[invitation[j].madeBy] # "idle"
          /\ invitation[i].acceptedBy \in Calls /\ pc[invitation[i].acceptedBy] # "idle"
      BY <1>2, <2>3 DEF LiveInv, Authors, TypeInv, TypeOK, Known, Rows, SameStatus
    <3>2. Overlap(invitation[i].acceptedBy, invitation[j].madeBy)
      BY <1>2, <2>3 DEF LiveInv, OneLive, SameRow, SameStatus
    <3> QED
      BY <1>2, <2>3, <3>1, <3>2, BegunKept DEF Overlap, SameRow, SameStatus
  <2>4. CASE /\ Works(c) /\ i \in Known /\ SameRow(i) /\ pc[c] = "commit" /\ request[c].id = i
             /\ invitation'[i].acceptedBy = c /\ j \in Known /\ SameRow(j) /\ SameStatus(j)
    <3>1. invitation[j].madeBy \in Calls
      BY <2>4 DEF TypeInv, TypeOK, Known, Rows
    <3>2. before' = before
      BY <2>4 DEF Works
    <3>3. invitation[j].madeBy \notin before[c]
      BY <1>2, <2>1, <2>4 DEF LiveInv, NonePendingBefore, AcceptSteps, SameRow, SameStatus
    <3> QED
      BY <2>2, <2>4, <3>1, <3>2, <3>3 DEF SameRow
  <2>5. CASE /\ Works(c) /\ pc[c] = "insert" /\ invitation'[j].email = request[c].email /\ invitation'[j].madeBy = c
             /\ i \in Known /\ SameRow(i) /\ SameStatus(i)
    <3>1. invitation[i].acceptedBy \in Calls
      BY <1>2, <2>5 DEF LiveInv, Authors, SameStatus
    <3>2. before' = before
      BY <2>5 DEF Works
    <3>3. invitation[i].acceptedBy \notin before[c]
      BY <1>2, <2>5 DEF LiveInv, NoneAcceptedBefore, SameRow, SameStatus
    <3> QED
      BY <2>2, <2>5, <3>1, <3>2, <3>3 DEF SameStatus
  <2>6. \/ i \in Known /\ SameRow(i) /\ SameStatus(i)
        \/ /\ Works(c) /\ i \in Known /\ SameRow(i) /\ pc[c] = "commit" /\ request[c].id = i
           /\ invitation'[i].acceptedBy = c
    BY <1>2, RowAfter
  <2>7. \/ j \in Known /\ SameRow(j) /\ SameStatus(j)
        \/ Works(c) /\ pc[c] = "insert" /\ invitation'[j].email = request[c].email /\ invitation'[j].madeBy = c
    BY <1>2, <2>1, RowAfter
  <2> QED
    BY <2>3, <2>4, <2>5, <2>6, <2>7
<1> QED
  BY <1>1, <1>2 DEF OneLive, Overlap

\* An email has one invitation that is pending or accepted, whatever runs at a
\* time, but for the one that was created while another was being accepted:
\* neither createInvitation's look for the others nor the unique index, which
\* tells a status from another, sees that one.
THEOREM LiveInvitations == Spec => []OneLiveInvitation
<1>1. Init => TypeInv /\ LiveInv
  BY InitTypeInv, InitLive
<1>2. TypeInv /\ LiveInv /\ [Next]_vars => (TypeInv /\ LiveInv)'
  <2>1. ASSUME TypeInv, LiveInv, [Next]_vars PROVE (TypeInv /\ LiveInv)'
    <3>1. TypeInv' /\ (Outside \/ \E c \in Calls : Starts(c) \/ Works(c))
      BY <2>1, NextTypeInv, StepShape
    <3> QED
      BY <2>1, <3>1, HistoryStep, AuthorsStep, NoneAcceptedStep, NonePendingStep, OneLiveStep DEF LiveInv
  <2> QED
    BY <2>1
<1>3. LiveInv => OneLiveInvitation
  BY DEF LiveInv, OneLive, OneLiveInvitation, Invited
<1> QED
  BY <1>1, <1>2, <1>3, PTL DEF Spec

-----------------------------------------------------------------------------
(* What a failed attempt leaves behind.                                    *)

RetryInv == Alone /\ NoAccount /\ Retried

LEMMA InitRetry == Init => RetryInv
BY DEF Init, RetryInv, Alone, NoAccount, Retried, Refused, Undisturbed, Returned

\* The email of an acceptance is settled when it begins.
LEMMA EmailKept ==
    ASSUME TypeInv, Outside \/ \E c \in Calls : Starts(c) \/ Works(c),
           NEW d \in Calls, pc[d] # "idle", request[d].op = "accept"
    PROVE  /\ request'[d] = request[d] /\ EmailOf(d)' = EmailOf(d)
           /\ EmailOf(d) = invitation[request[d].id].email
<1>1. request[d].id \in Known
  BY RequestFields DEF TypeInv, CallOK
<1>2. request'[d] = request[d]
  BY DEF Outside, Starts, Works, OthersStay
<1>3. invitation'[request[d].id].email = invitation[request[d].id].email
  BY <1>1 DEF Outside, Starts, Works, RowsStay, RowsChange, SameRow
<1> QED
  BY <1>2, <1>3 DEF EmailOf

LEMMA AloneStep ==
    ASSUME Alone, Outside \/ \E c \in Calls : Starts(c) \/ Works(c)
    PROVE  Alone'
<1>1. CASE Outside
  BY <1>1 DEF Outside, Alone, InFlight
<1>2. ASSUME NEW c \in Calls, Starts(c) PROVE Alone'
  BY <1>2 DEF Starts, Alone
<1>3. ASSUME NEW c \in Calls, Works(c) PROVE Alone'
  <2>1. \A d \in Calls : InFlight(d)' => InFlight(d)
    BY <1>3 DEF Works, OthersStay, InFlight
  <2> QED
    BY <1>3, <2>1 DEF Works, Alone
<1> QED
  BY <1>1, <1>2, <1>3

LEMMA NoAccountStep ==
    ASSUME TypeInv, TypeInv', Alone, NoAccount, Outside \/ \E c \in Calls : Starts(c) \/ Works(c)
    PROVE  NoAccount'
<1> SUFFICES ASSUME NEW e \in Calls, lone'[e], pc'[e] = "createAccount", EmailOf(e)' \notin Unlisted
             PROVE  EmailOf(e)' \notin accounts'
  BY DEF NoAccount
<1>1. /\ pc[e] \in {"checkAccount", "createAccount", "commit", "read"} /\ lone[e]
      /\ pc[e] # "createAccount" => Works(e)
  BY DEF Outside, Starts, Works, OthersStay, Found, AcceptSteps
<1>2. request[e].op = "accept" /\ pc[e] # "idle" /\ InFlight(e)
  BY <1>1 DEF TypeInv, CallOK, AcceptSteps, InFlight, Steps
<1>3. EmailOf(e)' = EmailOf(e)
  BY <1>2, EmailKept
<1>4. CASE Works(e)
  BY <1>3, <1>4 DEF Works, Found, Listed
<1>5. CASE ~Works(e)
  <2>1. UNCHANGED accounts
    <3>1. ASSUME NEW c \in Calls, Works(c), c # e PROVE FALSE
      BY <1>1, <1>2, <3>1 DEF Works, Alone
    <3> QED
      BY <1>5, <3>1 DEF Outside, Starts
  <2> QED
    BY <1>1, <1>3, <1>5, <2>1 DEF NoAccount
<1> QED
  BY <1>4, <1>5

\* The other accepted row stays accepted.
LEMMA OtherAcceptedKept ==
    ASSUME TypeInv, Outside \/ \E c \in Calls : Starts(c) \/ Works(c),
           NEW e \in Calls, pc[e] # "idle", request[e].op = "accept", OtherAccepted(e)
    PROVE  OtherAccepted(e)'
<1>1. PICK j \in Known :
         /\ j # request[e].id /\ invitation[j].status = "ACCEPTED"
         /\ invitation[j].email = invitation[request[e].id].email
         /\ \A d \in Calls : pc[d] = "cancel" => request[d].id # j
  BY DEF OtherAccepted
<1>2. request'[e] = request[e] /\ request[e].id \in Known
  BY EmailKept, RequestFields DEF TypeInv, CallOK
<1>3. /\ j \in Known' /\ invitation'[j].email = invitation[j].email
      /\ invitation'[request[e].id].email = invitation[request[e].id].email
  BY <1>2 DEF Outside, Starts, Works, RowsStay, RowsChange, SameRow
<1>4. invitation'[j].status = "ACCEPTED"
  BY <1>1 DEF Outside, Starts, Works, RowsStay, RowsChange, SameStatus
<1>5. ASSUME NEW d \in Calls, pc'[d] = "cancel" PROVE request'[d].id # j
  <2>1. CASE pc[d] = "cancel" /\ request'[d] = request[d]
    BY <1>1, <2>1
  <2>2. CASE Works(d)
    BY <1>1, <1>5, <2>2 DEF Works, Found
  <2> QED
    BY <1>5, <2>1, <2>2 DEF Outside, Starts, Works, OthersStay
<1> QED
  BY <1>1, <1>2, <1>3, <1>4, <1>5 DEF OtherAccepted

LEMMA RetriedStep ==
    ASSUME TypeInv, TypeInv', RetryInv, Outside \/ \E c \in Calls : Starts(c) \/ Works(c)
    PROVE  Retried'
<1> SUFFICES ASSUME NEW e \in Calls, Refused(e)' PROVE OtherAccepted(e)'
  BY DEF Retried
<1>1. /\ pc'[e] = "done" /\ lone'[e] /\ request'[e].op = "accept" /\ reply'[e] = "failed"
      /\ EmailOf(e)' \notin Unlisted
  BY DEF Refused, Undisturbed, Returned
<1>2. pc[e] # "idle" /\ request[e].op = "accept" /\ lone[e]
  BY <1>1 DEF Outside, Starts, Works, OthersStay, InFlight, Steps
<1>3. EmailOf(e)' = EmailOf(e) /\ request'[e] = request[e] /\ EmailOf(e) = invitation[request[e].id].email
  BY <1>2, EmailKept
<1>4. CASE pc[e] = "done" /\ reply[e] = reply'[e]
  <2>1. OtherAccepted(e)
    BY <1>1, <1>2, <1>3, <1>4 DEF RetryInv, Retried, Refused, Undisturbed, Returned
  <2> QED
    BY <1>2, <2>1, OtherAcceptedKept
<1>5. CASE Works(e)
  <2>1. \/ pc[e] = "createAccount" /\ EmailOf(e) \in accounts
        \/ /\ pc[e] = "commit" /\ UNCHANGED invitation
           /\ ~IndexAllows(request[e].id, EmailOf(e), "ACCEPTED")
    BY <1>1, <1>2, <1>5 DEF Works, Answered
  <2>2. pc[e] = "commit" /\ UNCHANGED invitation /\ ~IndexAllows(request[e].id, EmailOf(e), "ACCEPTED")
    BY <1>1, <1>2, <1>3, <2>1 DEF RetryInv, NoAccount
  <2>3. PICK j \in Known : j # request[e].id /\ invitation[j].email = EmailOf(e) /\ invitation[j].status = "ACCEPTED"
    BY <2>2 DEF IndexAllows, Invited
  <2>4. ASSUME NEW d \in Calls, pc'[d] = "cancel" PROVE FALSE
    <3>1. d # e /\ pc[d] = "cancel"
      BY <1>1, <1>5, <2>4 DEF Works, OthersStay
    <3> QED
      BY <1>2, <1>5, <3>1 DEF RetryInv, Alone, Works, InFlight, Steps
  <2>5. Known' = Known /\ invitation' = invitation
    BY <2>2 DEF Known
  <2> QED
    BY <1>3, <2>3, <2>4, <2>5 DEF OtherAccepted
<1> QED
  BY <1>1, <1>4, <1>5 DEF Outside, Starts, Works, OthersStay

\* What an earlier attempt left behind, an account that no rollback takes back,
\* keeps no later one out: an acceptance that nothing meets fails only if another
\* invitation of the email is accepted already, because checkUserExists finds
\* the account.
THEOREM AcceptanceRetryable == Spec => []AcceptIsRetryable
<1>1. Init => TypeInv /\ RetryInv
  BY InitTypeInv, InitRetry
<1>2. TypeInv /\ RetryInv /\ [Next]_vars => (TypeInv /\ RetryInv)'
  <2>1. ASSUME TypeInv, RetryInv, [Next]_vars PROVE (TypeInv /\ RetryInv)'
    <3>1. TypeInv' /\ (Outside \/ \E c \in Calls : Starts(c) \/ Works(c))
      BY <2>1, NextTypeInv, StepShape
    <3> QED
      BY <2>1, <3>1, AloneStep, NoAccountStep, RetriedStep DEF RetryInv
  <2> QED
    BY <2>1
<1>3. TypeInv /\ RetryInv => AcceptIsRetryable
  <2>1. ASSUME TypeInv, RetryInv, NEW c \in Calls,
               Undisturbed(c, "accept"), EmailOf(c) \notin Unlisted, reply[c] = "failed"
        PROVE  Invited(EmailOf(c), {"ACCEPTED"}) \ {request[c].id} # {}
    <3>1. OtherAccepted(c) /\ EmailOf(c) = invitation[request[c].id].email
      BY <2>1 DEF RetryInv, Retried, Refused, Undisturbed, EmailOf
    <3> QED
      BY <3>1 DEF OtherAccepted, Invited
  <2> QED
    BY <2>1 DEF AcceptIsRetryable
<1> QED
  BY <1>1, <1>2, <1>3, PTL DEF Spec
=============================================================================
