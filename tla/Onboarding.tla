------------------------------ MODULE Onboarding ------------------------------
(***************************************************************************)
(* OnboardingService and its controller: a user without a workspace makes  *)
(* a tenant, a workspace and his own access to it in one transaction.      *)
(* Every query is retried once after an error about prepared statements,   *)
(* and before the retry the connection that all requests share is reset.   *)
(* What other requests of the user keep in the cache of his grants is      *)
(* modelled as far as onboarding invalidates it.  The token is valid.      *)
(***************************************************************************)
EXTENDS AccountCalls

CONSTANTS
    Onboardings,
    FirstMembers    \* the users who have access to a workspace at the start

AllOnboardings == [op : {"onboard"}, user : Users, name : Names] \cup [op : {"enter"}, user : Users]

\* What may be thrown.  P2002 is the violation of a unique index, P20xx every
\* other code of Prisma that begins so.
Errors == {"has access", "name exists", "prepared statement", "P2002", "P20xx", "other"}

ASSUME OnboardingAssumption ==
    /\ Onboardings \subseteq AllOnboardings
    /\ FirstMembers \subseteq Users
    /\ MaxFaults \in Nat
    /\ NULL \notin Names \cup Calls \cup Errors

VARIABLES
    tenants,    \* [Calls -> Names or NULL]: the tenant, with its workspace, that a call made
    mapping,    \* [Users -> ...]: the cached grants: absent, none or some
    attempt,    \* local: of executeWithRetry
    found,      \* local: the grants that were read for the cache
    error,      \* local: what was thrown
    blind       \* history: its check for an existing access failed

stores == <<tenants, mapping>>
onboardVars == <<stores, faults, pc, request, attempt, found, error, reply, before, blind>>

Queries == {"checkAccess", "findName", "transaction"}
OnboardSteps == Queries \cup {"answer", "lookUp", "read", "fill"}

Made(u) == {c \in Calls : tenants[c] # NULL /\ request[c].user = u}
\* Mutant: only an access that somebody else granted counts.
WasInvited(u) == u \in FirstMembers

HasAccess(u) == u \in FirstMembers \/ Made(u) # {}
TenantNamed(n) == \E c \in Calls : tenants[c] = n

OnboardInit ==
    /\ tenants = [c \in Calls |-> NULL]
    /\ mapping = [u \in Users |-> "absent"]
    /\ faults = 0
    /\ pc = [c \in Calls |-> "idle"]
    /\ request = [c \in Calls |-> NULL]
    /\ attempt = [c \in Calls |-> 1]
    /\ found = [c \in Calls |-> NULL]
    /\ error = [c \in Calls |-> NULL]
    /\ reply = [c \in Calls |-> NULL]
    /\ before = [c \in Calls |-> {}]
    /\ blind = {}

BeginRequest(c, r) ==
    /\ At(c, "idle")
    /\ request' = [request EXCEPT ![c] = r]
    /\ before' = [before EXCEPT ![c] = {d \in Calls : Returned(d)}]
    /\ Goto(c, IF r.op = "onboard" THEN "checkAccess" ELSE "lookUp")
    /\ UNCHANGED <<stores, faults, attempt, found, error, blind>>

-----------------------------------------------------------------------------
(* createTenantAndWorkspace                                                *)

Throw(c, e) == error' = [error EXCEPT ![c] = e] /\ Goto(c, "answer")
Proceed(c, step) == Goto(c, step) /\ UNCHANGED error

\* Each operation has its own attempts.
FirstAttempt(c) == attempt' = [attempt EXCEPT ![c] = 1]

CheckAccess(c) ==
    /\ At(c, "checkAccess")
    /\ IF HasAccess(request[c].user) THEN Throw(c, "has access") ELSE Proceed(c, "findName")
    /\ FirstAttempt(c)
    /\ UNCHANGED <<stores, faults, request, found, before, blind>>

Duplicate(n) == TenantNamed(n)

FindName(c) ==
    /\ At(c, "findName")
    /\ IF Duplicate(request[c].name) THEN Throw(c, "name exists") ELSE Proceed(c, "transaction")
    /\ FirstAttempt(c)
    /\ UNCHANGED <<stores, faults, request, found, before, blind>>

\* Mutant: the cached grants stay.
KeepMapping(u) == mapping

\* invalidateUser
Invalidated(u) == [mapping EXCEPT ![u] = "absent"]

\* Tenant, workspace, profile and access, all or nothing; then, without an
\* await, the cached grants of the user are deleted.
Transaction(c) ==
    /\ At(c, "transaction")
    /\ tenants' = [tenants EXCEPT ![c] = request[c].name]
    /\ mapping' = Invalidated(request[c].user)
    /\ Return(c, "created")
    /\ FirstAttempt(c)
    /\ UNCHANGED <<faults, request, found, error, before, blind>>

\* The service's catch turns an error that says "already exists", or speaks of
\* a prepared statement, into one of its own, which the name that exists does,
\* and a P2002 into a ConflictException; the controller passes on only a
\* ConflictException, and answers a Prisma error with a code P20xx as bad data.
Status(e) ==
    CASE e \in {"has access", "P2002"} -> "conflict"
      [] e = "P20xx" -> "bad request"
      [] e \in {"name exists", "prepared statement", "other"} -> "internal error"

Answer(c) ==
    /\ At(c, "answer")
    /\ Return(c, Status(error[c]))
    /\ UNCHANGED <<stores, faults, request, attempt, found, error, before, blind>>

\* What becomes of a call whose query failed for good: hasExistingAccess
\* answers "no", everything else throws.
AfterFailure(c, e) ==
    IF At(c, "checkAccess") THEN <<"findName", error[c]>>
    ELSE IF pc[c] \in Queries THEN <<"answer", e>>
    ELSE <<"done", NULL>>

\* The queries of the calls of S fail for good.
FailAll(S, e) ==
    /\ pc' = [c \in Calls |-> IF c \in S THEN AfterFailure(c, e)[1] ELSE pc[c]]
    /\ error' = [c \in Calls |-> IF c \in S THEN AfterFailure(c, e)[2] ELSE error[c]]
    /\ attempt' = [c \in Calls |-> IF c \in S THEN 1 ELSE attempt[c]]
    /\ blind' = blind \cup {c \in S : At(c, "checkAccess")}
    /\ reply' = [c \in Calls |-> IF c \in S /\ At(c, "read") THEN "none" ELSE reply[c]]

AtDatabase == {c \in Calls : pc[c] \in Queries \cup {"read"}}

\* The connection is reset, under which queries of others fail, and the
\* operation is tried again; the second time it throws.  One kind of these
\* errors, P2017, is told by its code alone.
PreparedStatementError(c) ==
    /\ pc[c] \in Queries /\ faults < MaxFaults
    /\ faults' = faults + 1
    /\ IF attempt[c] = 1
       THEN /\ attempt' = [attempt EXCEPT ![c] = 2]
            /\ UNCHANGED <<pc, error, blind, reply>>
       ELSE \E e \in {"prepared statement", "P20xx"} : FailAll({c}, e)
    /\ UNCHANGED <<stores, request, found, before>>

ResetHits(c, S) ==
    /\ pc[c] \in Queries /\ attempt[c] = 2
    /\ S # {} /\ S \subseteq AtDatabase \ {c} /\ faults < MaxFaults
    /\ faults' = faults + 1
    /\ FailAll(S, "other")
    /\ UNCHANGED <<stores, request, found, before>>

\* Only the transaction writes, and may find a value of a unique index taken.
QueryError(c) ==
    /\ c \in AtDatabase /\ faults < MaxFaults
    /\ faults' = faults + 1
    /\ \E e \in {"P20xx", "other"} \cup (IF At(c, "transaction") THEN {"P2002"} ELSE {}) : FailAll({c}, e)
    /\ UNCHANGED <<stores, request, found, before>>

\* The transaction is committed and its answer lost.
LostCommit(c) ==
    /\ At(c, "transaction") /\ faults < MaxFaults
    /\ faults' = faults + 1
    /\ tenants' = [tenants EXCEPT ![c] = request[c].name]
    /\ Throw(c, "other")
    /\ FirstAttempt(c)
    /\ UNCHANGED <<mapping, request, found, before, blind>>

-----------------------------------------------------------------------------
(* Another request of the user: HybridAuthGuard looks his grants up.       *)

LookUp(c) ==
    /\ At(c, "lookUp")
    /\ IF mapping[request[c].user] # "absent" THEN Return(c, mapping[request[c].user])
       ELSE Goto(c, "read")
    /\ UNCHANGED <<stores, faults, request, attempt, found, error, before, blind>>

ReadGrants(c) ==
    /\ At(c, "read")
    /\ found' = [found EXCEPT ![c] = IF HasAccess(request[c].user) THEN "some" ELSE "none"]
    /\ Goto(c, "fill")
    /\ UNCHANGED <<stores, faults, request, attempt, error, before, blind>>

FillMapping(c) ==
    /\ At(c, "fill")
    /\ mapping' = [mapping EXCEPT ![request[c].user] = found[c]]
    /\ Return(c, found[c])
    /\ UNCHANGED <<tenants, faults, request, attempt, found, error, before, blind>>

ExpireMapping(u) ==
    /\ mapping[u] # "absent"
    /\ mapping' = [mapping EXCEPT ![u] = "absent"]
    /\ UNCHANGED <<tenants, faults, pc, request, attempt, found, error, reply, before, blind>>

AllAnswered == (\A c \in Calls : Returned(c)) /\ UNCHANGED onboardVars

OnboardNext ==
    \/ \E c \in Calls :
          \/ \E r \in Onboardings : BeginRequest(c, r)
          \/ CheckAccess(c) \/ FindName(c) \/ Transaction(c) \/ Answer(c)
          \/ PreparedStatementError(c) \/ QueryError(c) \/ LostCommit(c)
          \/ \E S \in SUBSET Calls : ResetHits(c, S)
          \/ LookUp(c) \/ ReadGrants(c) \/ FillMapping(c)
    \/ \E u \in Users : ExpireMapping(u)
    \/ AllAnswered

OnboardSpec == OnboardInit /\ [][OnboardNext]_onboardVars

-----------------------------------------------------------------------------
(* Properties.                                                             *)

\* Every variable has its type.
OnboardTypeOK ==
    /\ tenants \in [Calls -> Names \cup {NULL}]
    /\ mapping \in [Users -> {"absent", "none", "some"}]
    /\ faults \in 0..MaxFaults
    /\ pc \in [Calls -> OnboardSteps \cup {"idle", "done"}]
    /\ request \in [Calls -> Onboardings \cup {NULL}]
    /\ attempt \in [Calls -> 1..2]
    /\ found \in [Calls -> {NULL, "none", "some"}]
    /\ error \in [Calls -> Errors \cup {NULL}]
    /\ reply \in [Calls -> {NULL, "created", "conflict", "bad request", "internal error", "none", "some"}]
    /\ before \in [Calls -> SUBSET Calls] /\ blind \subseteq Calls
    /\ \A c \in Calls :
          (At(c, "answer") => error[c] # NULL) /\ (attempt[c] = 2 => pc[c] \in Queries)

\* A user is onboarded a second time only by a call that overlapped the first
\* or whose check failed, and two tenants have one name only if their calls
\* overlapped, whatever failed.
SecondTenantByRace ==
    \A c, d \in {c \in Calls : tenants[c] # NULL} :
        c # d =>
            /\ request[c].user = request[d].user
               => Overlap(c, d) \/ (c \in before[d] /\ d \in blind) \/ (d \in before[c] /\ c \in blind)
            /\ tenants[c] = tenants[d] => Overlap(c, d)

\* Who was onboarded is kept out of his workspace afterwards only if a request
\* of his was looking up his grants while he was onboarded; no fault met one.
KeptOutByRace ==
    \A c, d \in Calls :
        /\ Returned(c) /\ reply[c] = "none" /\ faults = 0
        /\ d \in before[c] /\ reply[d] = "created" /\ request[c].user = request[d].user
        => \E q \in Calls : request[q] = request[c] /\ Overlap(q, d)

(* What the code says of itself and does not do.                           *)

\* onboarding.controller.ts: "Handle ConflictException from service (already
\* properly mapped)", for a name that is taken.
NameConflictIsConflict ==
    \A c \in Calls : Returned(c) /\ error[c] = "name exists" => reply[c] = "conflict"

\* onboarding.service.ts: "Check if user already has workspace access (prevent
\* duplicate onboarding)".
OnboardedOnce == \A u \in Users : Cardinality(Made(u)) <= 1

\* onboarding.service.ts: "Invalidate user mapping cache to ensure fresh
\* access data", without a fault.
FreshAfterOnboarding ==
    \A c, d \in Calls :
        Returned(c) /\ d \in before[c] /\ reply[d] = "created" /\ request[c].user = request[d].user
        /\ request[c].op = "enter" /\ faults = 0
        => reply[c] = "some"
=============================================================================
