------------------------------- MODULE Tenancy -------------------------------
(***************************************************************************)
(* TenantService and WorkspaceService: create, rename and delete.          *)
(*                                                                         *)
(* A create looks for the name and inserts the row in a transaction; from  *)
(* within the transaction it saves the caller's profile and grants him     *)
(* access over other connections of the pool.  A delete counts the active  *)
(* data and then deletes the row with all that references it.  The caller  *)
(* is an admin; the check of that, which precedes everything, is left out. *)
(***************************************************************************)
EXTENDS AccountCalls

CONSTANTS
    Requests,
    TenantIds, WorkspaceIds,
    Kinds,         \* what counts as active data: events, funnels, keys, users
    FirstTenants,  \* the tenants there are at the start, all with FirstName
    FirstName,
    Connections    \* the connections of the pool

Ids == TenantIds \cup WorkspaceIds

AllRequests ==
    [op : {"create"}, user : Users, tenant : TenantIds \cup {NULL}, name : Names]
    \cup [op : {"rename"}, user : Users, id : Ids, name : Names]
    \cup [op : {"delete"}, user : Users, id : Ids]

\* namedBy is history: the call that gave the row its name.
Rows == [tenant : TenantIds \cup {NULL}, name : Names, namedBy : Calls \cup {NULL}]

ASSUME TenancyAssumption ==
    /\ Requests \subseteq AllRequests
    /\ TenantIds \cap WorkspaceIds = {}
    /\ FirstTenants \subseteq TenantIds /\ FirstName \in Names
    /\ NULL \notin Ids \cup Calls \cup Names \cup Rows \cup {"done", "failed"}
    /\ Connections \in Nat \ {0} /\ MaxFaults \in Nat

VARIABLES
    row,         \* tenant and workspace: [Ids -> Rows or NULL], what is committed
    given,       \* the ids that were ever given out
    data,        \* [WorkspaceIds -> SUBSET Kinds]: the active data of a workspace
    profiles,    \* user_profile
    members,     \* the users granted access to a workspace by its creation
    tx,          \* [Calls -> the uncommitted row, or NULL]
    target,      \* local: the id of the row
    held         \* history: the active data behind the row when it began

tables == <<row, given, data, profiles, members>>
locals == <<request, before, held>>
vars == <<tables, faults, pc, locals, tx, target, reply>>

Steps == {"findTenant", "findDuplicate", "insert", "saveProfile", "grant", "commit",
          "find", "findOther", "update", "count", "remove", "blocked"}

InFlight(c) == pc[c] \in Steps

Exists(id) == row[id] # NULL
IsTenant(id) == id \in TenantIds
WorkspacesOf(t) == {w \in WorkspaceIds : Exists(w) /\ row[w].tenant = t}

\* An open transaction keeps its connection, and so does a deletion that waits
\* for a lock; every other query needs a free one.
Open == {c \in Calls : tx[c] # NULL}
Blocked == {c \in Calls : At(c, "blocked")}
HasConnection == Cardinality(Open \cup Blocked) < Connections

\* What the _count of the deletion counts.
ActiveData(id) ==
    IF IsTenant(id) THEN {<<w, "workspace">> : w \in WorkspacesOf(id)}
    ELSE {<<id, k>> : k \in data[id]} \cup {<<id, u>> : u \in {v \in Users : <<v, id>> \in members}}

Init ==
    /\ row = [id \in Ids |-> IF id \in FirstTenants
                 THEN [tenant |-> NULL, name |-> FirstName, namedBy |-> NULL] ELSE NULL]
    /\ given = FirstTenants
    /\ data = [w \in WorkspaceIds |-> {}]
    /\ profiles = {} /\ members = {}
    /\ faults = 0
    /\ pc = [c \in Calls |-> "idle"]
    /\ request = [c \in Calls |-> NULL]
    /\ tx = [c \in Calls |-> NULL]
    /\ target = [c \in Calls |-> NULL]
    /\ reply = [c \in Calls |-> NULL]
    /\ before = [c \in Calls |-> {}]
    /\ held = [c \in Calls |-> {}]

Begin(c, r) ==
    /\ At(c, "idle")
    /\ r.op # "create" => r.id \in given
    /\ request' = [request EXCEPT ![c] = r]
    /\ before' = [before EXCEPT ![c] = {d \in Calls : Returned(d)}]
    /\ held' = [held EXCEPT ![c] = IF r.op = "delete" THEN ActiveData(r.id) ELSE {}]
    /\ target' = [target EXCEPT ![c] = IF r.op = "create" THEN NULL ELSE r.id]
    /\ Goto(c, CASE r.op = "create" /\ r.tenant # NULL -> "findTenant"
                 [] r.op = "create" /\ r.tenant = NULL -> "findDuplicate"
                 [] r.op = "rename" -> "find"
                 [] r.op = "delete" -> "count")
    /\ UNCHANGED <<tables, faults, tx>>

-----------------------------------------------------------------------------
(* create                                                                  *)

FindTenant(c) ==
    /\ At(c, "findTenant") /\ HasConnection
    /\ IF Exists(request[c].tenant) THEN Goto(c, "findDuplicate") ELSE Return(c, "not found")
    /\ UNCHANGED <<tables, faults, locals, tx, target>>

\* Mutant: only tenants are searched.
NameTakenByTenant(tenant, name, id) ==
    \E other \in TenantIds \ {id} : Exists(other) /\ row[other].name = name

\* Tenants share one space of names, the workspaces of a tenant another.
NameTaken(tenant, name, id) ==
    \E other \in Ids \ {id} :
        /\ Exists(other) /\ IsTenant(other) = (tenant = NULL)
        /\ row[other].tenant = tenant /\ row[other].name = name

FindDuplicate(c) ==
    /\ At(c, "findDuplicate") /\ HasConnection
    /\ IF NameTaken(request[c].tenant, request[c].name, NULL) THEN Return(c, "conflict")
       ELSE Goto(c, "insert")
    /\ UNCHANGED <<tables, faults, locals, tx, target>>

\* The transaction begins with the insert, which nobody else sees; it fails
\* when the tenant is gone.
Insert(c) ==
    /\ At(c, "insert") /\ HasConnection
    /\ IF request[c].tenant # NULL /\ ~Exists(request[c].tenant)
       THEN Return(c, "failed") /\ UNCHANGED <<given, tx, target>>
       ELSE \E id \in (IF request[c].tenant = NULL THEN TenantIds ELSE WorkspaceIds) \ given :
               /\ given' = given \cup {id}
               /\ target' = [target EXCEPT ![c] = id]
               /\ tx' = [tx EXCEPT ![c] =
                     [tenant |-> request[c].tenant, name |-> request[c].name, namedBy |-> c]]
               /\ Goto(c, "saveProfile")
    /\ UNCHANGED <<row, data, profiles, members, faults, locals>>

\* createUserProfile is not given the transaction: it commits by itself.
SaveProfile(c) ==
    /\ At(c, "saveProfile") /\ HasConnection
    /\ profiles' = profiles \cup {request[c].user}
    /\ Goto(c, IF request[c].tenant = NULL THEN "commit" ELSE "grant")
    /\ UNCHANGED <<row, given, data, members, faults, locals, tx, target>>

\* grantWorkspaceAccess looks the workspace up over its own connection, and
\* its answer is ignored.
Grant(c) ==
    /\ At(c, "grant") /\ HasConnection
    /\ members' = IF Exists(target[c]) THEN members \cup {<<request[c].user, target[c]>>}
                  ELSE members
    /\ Goto(c, "commit")
    /\ UNCHANGED <<row, given, data, profiles, faults, locals, tx, target>>

\* A transaction ends when its code does, whether it succeeds or throws.
Closed(c) == [tx EXCEPT ![c] = NULL]

\* A transaction that was closed meanwhile cannot be committed.
Commit(c) ==
    /\ At(c, "commit")
    /\ IF tx[c] # NULL THEN row' = [row EXCEPT ![target[c]] = tx[c]] /\ Return(c, "done")
       ELSE UNCHANGED row /\ Return(c, "failed")
    /\ tx' = Closed(c)
    /\ UNCHANGED <<given, data, profiles, members, faults, locals, target>>

\* Mutant: a transaction may stay open as long as it likes.
NeverExpires(c) == FALSE

Expires(c) == tx[c] # NULL /\ pc[c] \in {"saveProfile", "grant"} /\ ~HasConnection

\* The time limit of an interactive transaction, when its code waits for a
\* connection: it is rolled back and its connection is free, while the code
\* inside goes on.
TransactionTimeout(c) ==
    /\ Expires(c)
    /\ tx' = Closed(c)
    /\ UNCHANGED <<tables, faults, pc, locals, target, reply>>

-----------------------------------------------------------------------------
(* update, as far as it changes the name                                   *)

Find(c) ==
    /\ At(c, "find") /\ HasConnection
    /\ IF ~Exists(target[c]) THEN Return(c, "not found")
       ELSE Goto(c, IF row[target[c]].name = request[c].name THEN "update" ELSE "findOther")
    /\ UNCHANGED <<tables, faults, locals, tx, target>>

\* The tenant of a workspace never changes; a row that is gone fails in update.
TenantOf(id) == IF Exists(id) THEN row[id].tenant ELSE NULL

FindOther(c) ==
    /\ At(c, "findOther") /\ HasConnection
    /\ IF Exists(target[c]) /\ NameTaken(TenantOf(target[c]), request[c].name, target[c])
       THEN Return(c, "conflict") ELSE Goto(c, "update")
    /\ UNCHANGED <<tables, faults, locals, tx, target>>

\* Saving the name a row already has names nothing.
Renamed(c) ==
    [row EXCEPT ![target[c]] =
        IF @.name = request[c].name THEN @
        ELSE [@ EXCEPT !.name = request[c].name, !.namedBy = c]]

Update(c) ==
    /\ At(c, "update") /\ HasConnection
    /\ IF Exists(target[c])
       THEN /\ row' = Renamed(c)
            /\ Return(c, "done")
       ELSE UNCHANGED row /\ Return(c, "failed")
    /\ UNCHANGED <<given, data, profiles, members, faults, locals, tx, target>>

-----------------------------------------------------------------------------
(* delete                                                                  *)

\* Mutant: the members of a workspace are not counted.
CountsNoUsers(id) == {x \in ActiveData(id) : x[2] # "users" /\ x[2] \notin Users}

Counted(id) == ActiveData(id)

Count(c) ==
    /\ At(c, "count") /\ HasConnection
    /\ IF ~Exists(target[c]) THEN Return(c, "not found")
       ELSE IF Counted(target[c]) # {} THEN Return(c, "conflict")
       ELSE Goto(c, "remove")
    /\ UNCHANGED <<tables, faults, locals, tx, target>>

\* An uncommitted workspace keeps a lock on its tenant.
Locked(id) == \E d \in Open : tx[d].tenant = id

\* The deletion waits in the database until no transaction has the lock.
Block(c) ==
    /\ At(c, "remove") /\ HasConnection /\ Locked(target[c])
    /\ Goto(c, "blocked")
    /\ UNCHANGED <<tables, faults, locals, tx, target>>

MayRemove(c) ==
    /\ (At(c, "remove") /\ HasConnection) \/ At(c, "blocked")
    /\ ~Locked(target[c])

\* The row goes with all rows that reference it.
Cascade(id) ==
    LET gone == {id} \cup (IF IsTenant(id) THEN WorkspacesOf(id) ELSE {})
    IN /\ row' = [x \in Ids |-> IF x \in gone THEN NULL ELSE row[x]]
       /\ data' = [w \in WorkspaceIds |-> IF w \in gone THEN {} ELSE data[w]]
       /\ members' = {m \in members : m[2] \notin gone}

Remove(c) ==
    /\ MayRemove(c)
    /\ IF Exists(target[c]) THEN Cascade(target[c]) /\ Return(c, "done")
       ELSE Return(c, "failed") /\ UNCHANGED <<row, data, members>>
    /\ UNCHANGED <<given, profiles, faults, locals, tx, target>>

-----------------------------------------------------------------------------

\* A query fails; a transaction is rolled back.  A failure to save the profile
\* or to grant the access is ignored.
DatabaseError(c) ==
    /\ InFlight(c) /\ faults < MaxFaults
    /\ faults' = faults + 1
    /\ IF pc[c] \in {"saveProfile", "grant"}
       THEN Goto(c, IF At(c, "saveProfile") /\ request[c].tenant # NULL THEN "grant" ELSE "commit")
            /\ UNCHANGED tx
       ELSE Return(c, "failed") /\ tx' = Closed(c)
    /\ UNCHANGED <<tables, locals, target>>

\* A commit, a rename or a deletion is in the database and its caller is told
\* that it failed.
LostAnswer(c) ==
    /\ faults < MaxFaults
    /\ faults' = faults + 1
    /\ \/ /\ At(c, "commit") /\ tx[c] # NULL
          /\ row' = [row EXCEPT ![target[c]] = tx[c]] /\ UNCHANGED <<data, members>>
       \/ /\ At(c, "update") /\ HasConnection /\ Exists(target[c])
          /\ row' = Renamed(c) /\ UNCHANGED <<data, members>>
       \/ MayRemove(c) /\ Exists(target[c]) /\ Cascade(target[c])
    /\ tx' = Closed(c)
    /\ Return(c, "failed")
    /\ UNCHANGED <<given, profiles, locals, target>>

\* The other components put events, funnels, keys and users into a workspace.
AddData(w, kind) ==
    /\ Exists(w) /\ kind \notin data[w]
    /\ data' = [data EXCEPT ![w] = @ \cup {kind}]
    /\ UNCHANGED <<row, given, profiles, members, faults, pc, locals, tx, target, reply>>

Progress(c) ==
    \/ FindTenant(c) \/ FindDuplicate(c) \/ Insert(c) \/ SaveProfile(c) \/ Grant(c) \/ Commit(c)
    \/ Find(c) \/ FindOther(c) \/ Update(c) \/ Count(c) \/ Block(c) \/ Remove(c)

AllReturned == (\A c \in Calls : Returned(c)) /\ UNCHANGED vars

Next ==
    \/ \E c \in Calls : \/ \E r \in Requests : Begin(c, r)
                        \/ Progress(c) \/ TransactionTimeout(c) \/ DatabaseError(c) \/ LostAnswer(c)
    \/ \E w \in WorkspaceIds, kind \in Kinds : AddData(w, kind)
    \/ AllReturned

Spec == Init /\ [][Next]_vars

\* A query that can have a connection is answered, and a transaction that is
\* not committed in time is closed.
FairSpec == Spec /\ \A c \in Calls : WF_vars(Progress(c)) /\ WF_vars(TransactionTimeout(c))

-----------------------------------------------------------------------------
(* Properties.                                                             *)

\* Every variable has its type.
TypeOK ==
    /\ row \in [Ids -> Rows \cup {NULL}]
    /\ given \subseteq Ids
    /\ data \in [WorkspaceIds -> SUBSET Kinds]
    /\ profiles \subseteq Users /\ members \subseteq Users \X WorkspaceIds
    /\ faults \in 0..MaxFaults
    /\ pc \in [Calls -> Steps \cup {"idle", "done"}]
    /\ request \in [Calls -> Requests \cup {NULL}]
    /\ tx \in [Calls -> Rows \cup {NULL}]
    /\ target \in [Calls -> Ids \cup {NULL}]
    /\ reply \in [Calls -> {NULL, "done", "failed", "conflict", "not found"}]
    /\ before \in [Calls -> SUBSET Calls]
    /\ {id \in Ids : Exists(id)} \subseteq given
    /\ \A c \in Open : pc[c] \in {"saveProfile", "grant", "commit"}

\* Another call gave the row of c a different name while c was under way.
RenamedMeanwhile(c) ==
    \E z \in Calls :
        /\ Overlap(c, z) /\ reply[z] \in {"done", "failed"}
        /\ request[z].op = "rename" /\ target[z] = target[c]
        /\ request[z].name # request[c].name

\* Two tenants, or two workspaces of one tenant, share a name only if the
\* calls that named them overlapped, for no unique index guards a name; or if
\* one of them, having found that name on its row and so checked nothing,
\* wrote it back after another call had given the row a different one.
DuplicateNamesOverlap ==
    \A id, other \in {x \in Ids : Exists(x)} :
        /\ id # other /\ IsTenant(id) = IsTenant(other)
        /\ row[id].tenant = row[other].tenant /\ row[id].name = row[other].name
        /\ row[id].namedBy # NULL /\ row[other].namedBy # NULL
        => \/ Overlap(row[id].namedBy, row[other].namedBy)
           \/ \E x \in {id, other} :
                 request[row[x].namedBy].op = "rename" /\ RenamedMeanwhile(row[x].namedBy)

\* What a workspace or a tenant held when its deletion was asked for is not
\* deleted by it, whatever the caller is told: what the cascade takes came
\* after the deletion had been asked for.
DataAtStartSurvives ==
    [][\A c \in Calls :
          pc[c] \in {"remove", "blocked"} /\ Exists(target[c]) /\ row'[target[c]] = NULL
          => held[c] \cap ActiveData(target[c]) = {}
    ]_vars

\* Every call is answered, though a creation holds one connection and waits
\* for another, and a deletion holds one and waits for a creation: when all of
\* them wait for each other, a creation times out.
EveryCallAnswered == \A c \in Calls : InFlight(c) ~> Returned(c)

(* What the code says of itself and does not do.                           *)

\* workspace.controller.ts: "Workspaces with active data cannot be deleted."
ActiveDataSurvives ==
    [][\A w \in WorkspaceIds : Exists(w) /\ row'[w] = NULL => data[w] = {}]_vars

\* prisma.service.ts: "Add ?pgbouncer=true&connection_limit=1 to DATABASE_URL";
\* a creation that no fault and no other call disturbs is done.
LoneCreationSucceeds ==
    \A c \in Calls :
        Returned(c) /\ request[c].op = "create" /\ faults = 0 /\ (\A d \in Calls \ {c} : At(d, "idle"))
        => reply[c] # "failed"

\* workspace.service.ts: "Auto-grant admin access to workspace creator".
CreatorHasAccess ==
    \A c \in Calls :
        /\ Returned(c) /\ reply[c] = "done" /\ request[c].op = "create"
        /\ target[c] \in WorkspaceIds /\ Exists(target[c])
        => <<request[c].user, target[c]>> \in members
=============================================================================
