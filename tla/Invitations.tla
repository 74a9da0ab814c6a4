----------------------------- MODULE Invitations -----------------------------
(***************************************************************************)
(* InvitationsService: an admin invites an email into his workspace, the   *)
(* invited accepts with the token, the admin revokes.  Every handler reads *)
(* the invitation, awaits, and then writes its status whatever it has      *)
(* become; accepting also makes an account at Supabase, which no rollback  *)
(* takes back.  One workspace; an account and its user are named by their  *)
(* email.                                                                  *)
(***************************************************************************)
EXTENDS Integers, FiniteSets

CONSTANTS
    Calls,
    Requests,
    Emails,
    Unlisted,        \* the emails whose account is not among the first 1000
    FirstAccounts,   \* the accounts there are at the start
    MaxInvitations,  \* bound: rows of invitation
    MaxFaults,       \* bound: queries and requests that fail
    MaxRemovals,     \* bound: accesses that are revoked elsewhere
    NULL

Roles == {"viewer", "admin"}
Ids == 1..MaxInvitations
InviteStatus == {"PENDING", "ACCEPTED", "CANCELED"}

AllRequests ==
    [op : {"create"}, email : Emails, role : Roles]
    \cup [op : {"accept", "revoke"}, id : Ids]

\* expired says that expiresAt has passed.  madeBy and acceptedBy are history:
\* the calls that made the row and that last set it to ACCEPTED.
Rows == [email : Emails, role : Roles, status : InviteStatus, expired : BOOLEAN,
         madeBy : Calls, acceptedBy : Calls \cup {NULL}]

ASSUME InvitationsAssumption ==
    /\ Requests \subseteq AllRequests
    /\ Unlisted \subseteq Emails /\ FirstAccounts \subseteq Emails
    /\ MaxInvitations \in Nat \ {0} /\ MaxFaults \in Nat /\ MaxRemovals \in Nat
    /\ NULL \notin Rows \cup Roles \cup Calls

VARIABLES
    invitation,   \* [Ids -> Rows or NULL]
    accounts,     \* the emails with an account at Supabase
    profiles,     \* user_profile
    access,       \* [Emails -> role or NULL]: user_workspace_access, not revoked
    faults, removals,
    pc,
    request,
    exists,       \* local: what checkUserExists answered
    reply,
    before,       \* history: the calls that had returned when it began
    lone          \* history: no other call, fault or outside change met it

tables == <<invitation, accounts, profiles, access>>
bounds == <<faults, removals>>
vars == <<tables, bounds, pc, request, exists, reply, before, lone>>

Steps == {"findExisting", "insert", "read", "checkAccount", "createAccount", "commit", "find", "cancel"}

At(c, step) == pc[c] = step
InFlight(c) == pc[c] \in Steps
Returned(c) == pc[c] = "done"
Goto(c, step) == pc' = [pc EXCEPT ![c] = step] /\ UNCHANGED reply
Return(c, r) == pc' = [pc EXCEPT ![c] = "done"] /\ reply' = [reply EXCEPT ![c] = r]

Known == {i \in Ids : invitation[i] # NULL}
Invited(e, statuses) == {i \in Known : invitation[i].email = e /\ invitation[i].status \in statuses}
EmailOf(c) == IF request[c].op = "create" THEN request[c].email ELSE invitation[request[c].id].email

\* The unique index on (tenant, workspace, email, status) accepts the status.
IndexAllows(i, e, status) == Invited(e, {status}) \subseteq {i}

Init ==
    /\ invitation = [i \in Ids |-> NULL]
    /\ accounts = FirstAccounts
    /\ profiles = {} /\ access = [e \in Emails |-> NULL]
    /\ faults = 0 /\ removals = 0
    /\ pc = [c \in Calls |-> "idle"]
    /\ request = [c \in Calls |-> NULL]
    /\ exists = [c \in Calls |-> FALSE]
    /\ reply = [c \in Calls |-> NULL]
    /\ before = [c \in Calls |-> {}]
    /\ lone = [c \in Calls |-> FALSE]

Disturbed == [c \in Calls |-> lone[c] /\ ~InFlight(c)]

\* The caller is an admin of the workspace; a token is known once its row is.
Begin(c, r) ==
    /\ At(c, "idle")
    /\ IF r.op = "create"
       THEN Cardinality(Known) + Cardinality({d \in Calls : InFlight(d) /\ request[d].op = "create"})
                < MaxInvitations
       ELSE r.id \in Known
    /\ request' = [request EXCEPT ![c] = r]
    /\ before' = [before EXCEPT ![c] = {d \in Calls : Returned(d)}]
    /\ lone' = [Disturbed EXCEPT ![c] = ~ \E d \in Calls : InFlight(d)]
    /\ Goto(c, CASE r.op = "create" -> "findExisting" [] r.op = "accept" -> "read"
                 [] r.op = "revoke" -> "find")
    /\ UNCHANGED <<tables, bounds, exists>>

-----------------------------------------------------------------------------
(* createInvitation                                                        *)

\* Mutant: an accepted invitation is overlooked.
Pending(e) == Invited(e, {"PENDING"})

\* An expired invitation still counts as pending.
PendingOrAccepted(e) == Invited(e, {"PENDING", "ACCEPTED"})

FindExisting(c) ==
    /\ At(c, "findExisting")
    /\ \/ PendingOrAccepted(EmailOf(c)) = {} /\ Goto(c, "insert")
       \/ \E i \in PendingOrAccepted(EmailOf(c)) :
             Return(c, IF invitation[i].status = "ACCEPTED" THEN "has access" ELSE "is pending")
    /\ UNCHANGED <<tables, bounds, request, exists, before, lone>>

\* Whether the email has an account is looked up and only logged.
Insert(c) ==
    LET i == Cardinality(Known) + 1
        row == [email |-> EmailOf(c), role |-> request[c].role, status |-> "PENDING",
                expired |-> FALSE, madeBy |-> c, acceptedBy |-> NULL]
    IN /\ At(c, "insert")
       /\ IF IndexAllows(i, EmailOf(c), "PENDING")
          THEN invitation' = [invitation EXCEPT ![i] = row] /\ Return(c, "done")
          ELSE UNCHANGED invitation /\ Return(c, "failed")
       /\ UNCHANGED <<accounts, profiles, access, bounds, request, exists, before, lone>>

-----------------------------------------------------------------------------
(* acceptInvitation                                                        *)

\* Mutant: the status is not looked at.
NotExpired(i) == ~invitation[i].expired

Acceptable(i) == ~invitation[i].expired /\ invitation[i].status = "PENDING"

Read(c) ==
    /\ At(c, "read")
    /\ IF Acceptable(request[c].id) THEN Goto(c, "checkAccount") ELSE Return(c, "refused")
    /\ UNCHANGED <<tables, bounds, request, exists, before, lone>>

\* Mutant: nobody is looked for.
NobodyListed(e) == FALSE

\* listUsers, page by page, up to the first 1000 accounts.
Listed(e) == e \in accounts \ Unlisted

CheckAccount(c) ==
    /\ At(c, "checkAccount")
    /\ exists' = [exists EXCEPT ![c] = Listed(EmailOf(c))]
    /\ Goto(c, IF Listed(EmailOf(c)) THEN "commit" ELSE "createAccount")
    /\ UNCHANGED <<tables, bounds, request, before, lone>>

\* Supabase refuses a second account for an email.
CreateAccount(c) ==
    /\ At(c, "createAccount")
    /\ IF EmailOf(c) \in accounts THEN Return(c, "failed") ELSE Goto(c, "commit")
    /\ accounts' = accounts \cup {EmailOf(c)}
    /\ UNCHANGED <<invitation, profiles, access, bounds, request, exists, before, lone>>

\* The update asks for the id alone.
Accepted(i, c) == [invitation EXCEPT ![i].status = "ACCEPTED", ![i].acceptedBy = c]

\* The transaction writes the profile, the access with the role of the
\* invitation as it was read, and the status; all or nothing.
Commit(c) ==
    LET i == request[c].id IN
    /\ At(c, "commit")
    /\ IF IndexAllows(i, EmailOf(c), "ACCEPTED")
       THEN /\ profiles' = profiles \cup {EmailOf(c)}
            /\ access' = [access EXCEPT ![EmailOf(c)] = invitation[i].role]
            /\ invitation' = Accepted(i, c)
            /\ Return(c, "done")
       ELSE UNCHANGED <<invitation, profiles, access>> /\ Return(c, "failed")
    /\ UNCHANGED <<accounts, bounds, request, exists, before, lone>>

-----------------------------------------------------------------------------
(* revokeInvitation                                                        *)

Revocable(i) == invitation[i].status = "PENDING"

Find(c) ==
    /\ At(c, "find")
    /\ IF Revocable(request[c].id) THEN Goto(c, "cancel") ELSE Return(c, "refused")
    /\ UNCHANGED <<tables, bounds, request, exists, before, lone>>

Cancel(c) ==
    LET i == request[c].id IN
    /\ At(c, "cancel")
    /\ IF IndexAllows(i, EmailOf(c), "CANCELED")
       THEN invitation' = [invitation EXCEPT ![i].status = "CANCELED"] /\ Return(c, "done")
       ELSE UNCHANGED invitation /\ Return(c, "failed")
    /\ UNCHANGED <<accounts, profiles, access, bounds, request, exists, before, lone>>

-----------------------------------------------------------------------------

\* Anything awaited fails.  checkUserExists turns its failure into "no"; the
\* transaction is rolled back; an account that was made stays.
Fault(c) ==
    /\ InFlight(c) /\ faults < MaxFaults
    /\ faults' = faults + 1
    /\ IF At(c, "checkAccount")
       THEN exists' = [exists EXCEPT ![c] = FALSE] /\ Goto(c, "createAccount")
       ELSE UNCHANGED exists /\ Return(c, "failed")
    /\ accounts' \in {accounts} \cup
          (IF At(c, "createAccount") THEN {accounts \cup {EmailOf(c)}} ELSE {})
    /\ lone' = [lone EXCEPT ![c] = FALSE]
    /\ UNCHANGED <<invitation, profiles, access, removals, request, before>>

\* expiresAt passes.
Expire(i) ==
    /\ i \in Known /\ ~invitation[i].expired /\ invitation[i].status = "PENDING"
    /\ invitation' = [invitation EXCEPT ![i].expired = TRUE]
    /\ lone' = Disturbed
    /\ UNCHANGED <<accounts, profiles, access, bounds, pc, request, exists, reply, before>>

\* UserManagementController takes an access away.
RemoveAccess(e) ==
    /\ access[e] # NULL /\ removals < MaxRemovals
    /\ removals' = removals + 1
    /\ access' = [access EXCEPT ![e] = NULL]
    /\ lone' = Disturbed
    /\ UNCHANGED <<invitation, accounts, profiles, faults, pc, request, exists, reply, before>>

AllReturned == (\A c \in Calls : Returned(c)) /\ UNCHANGED vars

Next ==
    \/ \E c \in Calls :
          \/ \E r \in Requests : Begin(c, r)
          \/ FindExisting(c) \/ Insert(c)
          \/ Read(c) \/ CheckAccount(c) \/ CreateAccount(c) \/ Commit(c)
          \/ Find(c) \/ Cancel(c)
          \/ Fault(c)
    \/ \E i \in Ids : Expire(i)
    \/ \E e \in Emails : RemoveAccess(e)
    \/ AllReturned

Spec == Init /\ [][Next]_vars

-----------------------------------------------------------------------------
(* Properties.                                                             *)

\* Every variable has its type, and the unique index holds.
TypeOK ==
    /\ invitation \in [Ids -> Rows \cup {NULL}]
    /\ accounts \subseteq Emails /\ profiles \subseteq Emails
    /\ access \in [Emails -> Roles \cup {NULL}]
    /\ faults \in 0..MaxFaults /\ removals \in 0..MaxRemovals
    /\ pc \in [Calls -> Steps \cup {"idle", "done"}]
    /\ request \in [Calls -> Requests \cup {NULL}]
    /\ exists \in [Calls -> BOOLEAN]
    /\ reply \in [Calls -> {NULL, "done", "failed", "refused", "has access", "is pending"}]
    /\ before \in [Calls -> SUBSET Calls] /\ lone \in [Calls -> BOOLEAN]
    /\ \A i, j \in Known :
          i # j /\ invitation[i].email = invitation[j].email => invitation[i].status # invitation[j].status

Overlap(c, d) == c \notin before[d] /\ d \notin before[c]
Did(c, op, i) == Returned(c) /\ request[c].op = op /\ request[c].id = i /\ reply[c] = "done"

\* An email has one invitation that is pending or accepted, unless one was
\* accepted while the other was created.
OneLiveInvitation ==
    \A e \in Emails : \A i, j \in Invited(e, {"ACCEPTED", "PENDING"}) :
        i # j /\ invitation[i].status = "ACCEPTED"
        => Overlap(invitation[i].acceptedBy, invitation[j].madeBy)

\* An invitation that was revoked, or used, before an acceptance began does
\* not get anybody in: revocation is too late only for those under way.
ClosedBeforeAccept ==
    \A c, d \in Calls : \A i \in Ids :
        Did(c, "accept", i) /\ d \in before[c] => ~Did(d, "revoke", i) /\ ~Did(d, "accept", i)

Undisturbed(c, op) == Returned(c) /\ lone[c] /\ request[c].op = op

\* What an earlier attempt left behind, an account without an access or a
\* profile, does not keep a later one from succeeding: an acceptance that
\* nothing disturbs is refused only for what the invitation is, and fails only
\* if another invitation of the email is accepted already.
AcceptIsRetryable ==
    \A c \in Calls :
        Undisturbed(c, "accept") /\ EmailOf(c) \notin Unlisted /\ reply[c] = "failed"
        => Invited(EmailOf(c), {"ACCEPTED"}) \ {request[c].id} # {}

(* What the code says of itself and does not do.                           *)

\* invitations.service.ts: "Can only revoke pending invitations".
RevokesOnlyPending ==
    [][\A i \in Known :
          invitation'[i].status = "CANCELED" => invitation[i].status # "ACCEPTED"]_vars

\* invitations.controller.ts: "Revoke a pending invitation"; nothing disturbs it.
PendingCanBeRevoked ==
    \A c \in Calls : Undisturbed(c, "revoke") => reply[c] # "failed"

\* invitations.service.ts: "Check if user is already invited or has access".
ConflictMeansAccess ==
    [][\A c \in Calls :
          At(c, "findExisting") /\ reply'[c] = "has access" => access[EmailOf(c)] # NULL]_vars

\* invitations.service.ts: "We allow inviting existing users"; nothing disturbs it.
ExistingUserCanAccept ==
    \A c \in Calls :
        Undisturbed(c, "accept") /\ EmailOf(c) \in FirstAccounts => reply[c] # "failed"
=============================================================================
