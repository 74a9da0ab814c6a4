------------------------------ MODULE UserAccess ------------------------------
(***************************************************************************)
(* What happens to a request that carries a user's token: HybridAuthGuard  *)
(* takes the user's grants from the cache or the tables and makes a        *)
(* context of them; UserManagementController then grants, revokes or       *)
(* changes the access of another user, under that context, and deletes     *)
(* that user's cached grants.  Between its awaits a call interleaves with  *)
(* all the others, so its context may have been overtaken when it is used. *)
(* The token itself is taken as valid.                                     *)
(***************************************************************************)
EXTENDS CacheService, AccessStore

CONSTANTS
    Calls,
    Requests,
    Initially,     \* [Users -> [Workspaces -> role or NONE]]: the first grants
    TTL,           \* USER_MAPPING_CACHE_TTL
    NegativeTTL,   \* the lifetime of "there is no such user"
    MaxVersion,    \* bound: writes of one user's grants
    MaxFaults      \* bound: queries that fail or answers that are lost

AllRequests ==
    [op : {"read"}, actor : Users]
    \cup [op : {"revoke"}, actor : Users, user : Users, workspace : Workspaces]
    \cup [op : {"grant", "role"}, actor : Users, user : Users,
          workspace : Workspaces, role : Roles]

Versions == 1..MaxVersion

\* UserMappingResult: the active grants.  version is history: how often the
\* user's grants had been written when they were read.
Mappings == [isValid : BOOLEAN, access : [Workspaces -> Grants \cup {NONE}], version : Versions]

\* HybridTenantContext
Contexts == [user : Users, workspace : Workspaces, role : Roles, mapping : Mappings]

Unauthorized == [error |-> "unauthorized"]
Forbidden == [error |-> "forbidden"]
Failed == [error |-> "failed"]
Done == [error |-> "none"]

ASSUME AccessAssumption ==
    /\ CacheKeys = Users
    /\ Requests \subseteq AllRequests
    /\ Initially \in [Users -> [Workspaces -> Roles \cup {NONE}]]
    /\ TTLs = {TTL, NegativeTTL} /\ NegativeTTL <= TTL
    /\ NULL \notin Mappings /\ NULL \notin Requests /\ NULL \notin 0..MaxTime
    /\ MaxVersion \in Nat \ {0}
    /\ MaxFaults \in Nat

VARIABLES
    faults,
    pc,
    request,
    found,      \* local: the mapping that was read or taken from the cache
    context,    \* request.tenantContext
    reply,
    version,    \* history: [Users -> Versions]
    wrote,      \* history: the version that a mutation wrote
    before,     \* history: the calls that had returned when it began
    began,      \* history: when it began
    filled      \* history: when it filled the cache, or NULL

locals == <<request, before, began>>
vars == <<cacheVars, storeVars, faults, pc, locals, found, context, reply, version, wrote, filled>>

Steps == {"findProfile", "fill", "saveProfile",
          "findWorkspace", "upsert", "revoke", "setRole", "invalidate"}

Returned(c) == pc[c] = "done"
At(c, step) == pc[c] = step
Actor(c) == request[c].actor
IsMutation(c) == request[c].op # "read"

Goto(c, step) == pc' = [pc EXCEPT ![c] = step] /\ UNCHANGED reply

Return(c, r) ==
    /\ pc' = [pc EXCEPT ![c] = "done"]
    /\ reply' = [reply EXCEPT ![c] = r]

Init ==
    /\ CacheInit
    /\ workspaces = Workspaces
    /\ profiles = {u \in Users : \E w \in Workspaces : Initially[u][w] # NONE}
    /\ \E order \in [Workspaces -> 1..Cardinality(Workspaces)] :
          /\ \A v, w \in Workspaces : order[v] = order[w] => v = w
          /\ grants = [u \in Users |-> [w \in Workspaces |->
                IF Initially[u][w] = NONE THEN NONE
                ELSE [role |-> Initially[u][w], revoked |-> FALSE, since |-> order[w]]]]
    /\ faults = 0
    /\ pc = [c \in Calls |-> "idle"]
    /\ request = [c \in Calls |-> NULL]
    /\ found = [c \in Calls |-> NULL]
    /\ context = [c \in Calls |-> NULL]
    /\ reply = [c \in Calls |-> NULL]
    /\ version = [u \in Users |-> 1]
    /\ wrote = [c \in Calls |-> 0]
    /\ before = [c \in Calls |-> {}]
    /\ began = [c \in Calls |-> 0]
    /\ filled = [c \in Calls |-> NULL]

-----------------------------------------------------------------------------
(* HybridAuthGuard.handleSupabaseJWTAuth and getUserWorkspaceAccess        *)

ActiveGrants(u) == [w \in Workspaces |-> IF IsActiveGrant(u, w) THEN grants[u][w] ELSE NONE]

Mapping(u) ==
    [isValid |-> u \in profiles, access |-> ActiveGrants(u), version |-> version[u]]

\* The workspaces of a mapping, and those with a role.
In(m) == {w \in Workspaces : m.access[w] # NONE}
InRole(m, role) == {w \in In(m) : m.access[w].role = role}

\* The workspace of a set that was granted first.
First(m, ws) == CHOOSE w \in ws : \A v \in ws : m.access[w].since <= m.access[v].since

\* Mutant: the search starts with the lowest role.
ViewerFirst(m) ==
    IF InRole(m, "viewer") # {} THEN First(m, InRole(m, "viewer")) ELSE First(m, In(m))

\* The first admin grant, else the first editor grant, else the first.
DefaultWorkspace(m) ==
    IF InRole(m, "admin") # {} THEN First(m, InRole(m, "admin"))
    ELSE IF InRole(m, "editor") # {} THEN First(m, InRole(m, "editor"))
    ELSE First(m, In(m))

\* The role is that of workspaceAccess[0], whatever the default workspace is.
ContextOf(u, m) ==
    [user |-> u, workspace |-> DefaultWorkspace(m), role |-> m.access[First(m, In(m))].role,
     mapping |-> m]

\* A mapping that is usable has a default workspace, the roles being the three
\* that are granted, so the context is never refused for the want of one.
IsUsable(m) == m.isValid /\ In(m) # {}

\* A usable mapping is followed by the upsert of the profile.
Enter(c, m) ==
    /\ found' = [found EXCEPT ![c] = m]
    /\ IF IsUsable(m) THEN Goto(c, "saveProfile") ELSE Return(c, Unauthorized)

Begin(c, r) ==
    /\ At(c, "idle")
    /\ request' = [request EXCEPT ![c] = r]
    /\ before' = [before EXCEPT ![c] = {d \in Calls : Returned(d)}]
    /\ began' = [began EXCEPT ![c] = now]
    /\ Get(r.actor)
    /\ IF Cached(r.actor) # NULL THEN Enter(c, Cached(r.actor))
       ELSE Goto(c, "findProfile") /\ UNCHANGED found
    /\ UNCHANGED <<now, storeVars, faults, context, version, wrote, filled>>

\* userProfile.findUnique with the active grants: one snapshot.
FindProfile(c) ==
    /\ At(c, "findProfile")
    /\ found' = [found EXCEPT ![c] = Mapping(Actor(c))]
    /\ Goto(c, "fill")
    /\ UNCHANGED <<cacheVars, storeVars, faults, locals, context, version, wrote, filled>>

Fill(c) ==
    /\ At(c, "fill")
    /\ Set(Actor(c), found[c], IF found[c].isValid THEN TTL ELSE NegativeTTL)
    /\ filled' = [filled EXCEPT ![c] = now]
    /\ Enter(c, found[c])
    /\ UNCHANGED <<now, storeVars, faults, locals, context, version, wrote>>

-----------------------------------------------------------------------------
(* UserManagementController and the mutations of UserMappingService        *)

MayManage(ctx) == ctx.role = "admin"

\* An admin does not revoke his own access.
RevokesItself(r) == r.op = "revoke" /\ r.user = r.actor

\* Mutant: any workspace will do.
InAnyTenant(r, ctx) == TRUE

\* The workspace belongs to the tenant of the context.
InTenant(r, ctx) == TenantOf[r.workspace] = TenantOf[ctx.workspace]

\* The handler up to its first query.
Handle(c, ctx) ==
    IF ~IsMutation(c) THEN Return(c, Done)
    ELSE IF ~MayManage(ctx) \/ RevokesItself(request[c]) THEN Return(c, Forbidden)
    ELSE Goto(c, CASE request[c].op = "grant" -> "findWorkspace"
                   [] request[c].op = "revoke" -> "revoke"
                   [] request[c].op = "role" -> "setRole")

\* createUserProfile, whose failure is ignored; then the context is set and
\* the handler runs.
SaveProfile(c) ==
    LET ctx == ContextOf(Actor(c), found[c])
    IN /\ At(c, "saveProfile")
       /\ \/ profiles' = profiles \cup {Actor(c)} /\ UNCHANGED faults
          \/ faults < MaxFaults /\ faults' = faults + 1 /\ UNCHANGED profiles
       /\ context' = [context EXCEPT ![c] = ctx]
       /\ Handle(c, ctx)
       /\ UNCHANGED <<cacheVars, workspaces, grants, locals, found, version, wrote, filled>>

FindWorkspace(c) ==
    /\ At(c, "findWorkspace")
    /\ IF request[c].workspace \in workspaces /\ InTenant(request[c], context[c]) THEN Goto(c, "upsert")
       ELSE Return(c, Failed)
    /\ UNCHANGED <<cacheVars, storeVars, faults, locals, found, context, version, wrote, filled>>

\* A write of the grants of the request's user.
Write(c, gs) ==
    LET u == request[c].user
    IN /\ version[u] < MaxVersion
       /\ grants' = gs
       /\ version' = [version EXCEPT ![u] = @ + 1]
       /\ wrote' = [wrote EXCEPT ![c] = version[u] + 1]
       /\ Goto(c, "invalidate")
       /\ UNCHANGED <<cacheVars, workspaces, profiles, faults, locals, found, context, filled>>

\* The grant references the profile: without one, or without the workspace,
\* the upsert fails.
Upsert(c) ==
    /\ At(c, "upsert")
    /\ IF request[c].user \in profiles /\ request[c].workspace \in workspaces
       THEN Write(c, Granted(request[c].user, request[c].workspace, request[c].role))
       ELSE /\ Return(c, Failed)
            /\ UNCHANGED <<cacheVars, storeVars, faults, locals, found, context, version, wrote, filled>>

RevokeGrant(c) ==
    /\ At(c, "revoke")
    /\ Write(c, IF InTenant(request[c], context[c])
                THEN Revoked(request[c].user, request[c].workspace) ELSE grants)

\* Without an active grant the role is not changed and the call fails.
SetRole(c) ==
    /\ At(c, "setRole")
    /\ IF InTenant(request[c], context[c]) /\ IsActiveGrant(request[c].user, request[c].workspace)
       THEN Write(c, Reroled(request[c].user, request[c].workspace, request[c].role))
       ELSE /\ Return(c, Failed)
            /\ UNCHANGED <<cacheVars, storeVars, faults, locals, found, context, version, wrote, filled>>

\* Mutant: the actor's entry is deleted, not the user's.
InvalidateActor(c) == Delete(Actor(c))

\* invalidateUserCache
InvalidateUser(c) == Delete(request[c].user)

Invalidate(c) ==
    /\ At(c, "invalidate")
    /\ InvalidateUser(c)
    /\ Return(c, Done)
    /\ UNCHANGED <<now, storeVars, faults, locals, found, context, version, wrote, filled>>

\* A query fails, or its answer is lost: every method answers that by false
\* or by an invalid mapping, which is not cached.
DatabaseError(c) ==
    /\ pc[c] \in Steps \ {"saveProfile"}
    /\ faults < MaxFaults
    /\ faults' = faults + 1
    /\ Return(c, IF pc[c] \in {"findProfile", "fill"} THEN Unauthorized ELSE Failed)
    /\ UNCHANGED <<cacheVars, storeVars, locals, found, context, version, wrote, filled>>

Housekeeping ==
    /\ CleanupExpired \/ Clear
    /\ UNCHANGED <<now, storeVars, faults, pc, locals, found, context, reply, version, wrote, filled>>

Tick ==
    /\ Advance
    /\ UNCHANGED <<cache, storeVars, faults, pc, locals, found, context, reply, version, wrote, filled>>

AllReturned == (\A c \in Calls : Returned(c)) /\ UNCHANGED vars

Progress(c) ==
    \/ FindProfile(c) \/ Fill(c) \/ SaveProfile(c) \/ FindWorkspace(c)
    \/ Upsert(c) \/ RevokeGrant(c) \/ SetRole(c) \/ Invalidate(c)

Next ==
    \/ \E c \in Calls : (\E r \in Requests : Begin(c, r)) \/ Progress(c) \/ DatabaseError(c)
    \/ Housekeeping
    \/ Tick
    \/ AllReturned

Spec == Init /\ [][Next]_vars

-----------------------------------------------------------------------------
(* Properties.                                                             *)

\* Every variable has its type.
TypeOK ==
    /\ CacheOK /\ StoreOK
    /\ faults \in 0..MaxFaults
    /\ pc \in [Calls -> Steps \cup {"idle", "done"}]
    /\ request \in [Calls -> Requests \cup {NULL}]
    /\ found \in [Calls -> Mappings \cup {NULL}]
    /\ context \in [Calls -> Contexts \cup {NULL}]
    /\ reply \in [Calls -> {NULL, Unauthorized, Forbidden, Failed, Done}]
    /\ version \in [Users -> Versions]
    /\ wrote \in [Calls -> 0..MaxVersion]
    /\ before \in [Calls -> SUBSET Calls]
    /\ began \in [Calls -> 0..MaxTime]
    /\ filled \in [Calls -> 0..MaxTime \cup {NULL}]
    /\ \A c \in Calls : (pc[c] = "idle") <=> (request[c] = NULL)

\* The context mixes the role of one workspace with the name of another, yet
\* it never carries a role above the one that its workspace gives.
RoleNeverExceeds ==
    \A c \in Calls : context[c] # NULL =>
        LET ctx == context[c]
        IN /\ ctx.workspace \in In(ctx.mapping)
           /\ Rank(ctx.role) <= Rank(ctx.mapping.access[ctx.workspace].role)

\* Nobody changes the grants of a tenant in which he held no admin grant when
\* his own grants were read, whatever the workspaces of other tenants give.
ManagedByTenantAdmin ==
    [][\A u \in Users, w \in Workspaces :
          grants'[u][w] # grants[u][w] =>
             \E c \in Calls :
                /\ pc[c] \in {"upsert", "revoke", "setRole"}
                /\ request[c].user = u /\ request[c].workspace = w
                /\ \E v \in InRole(found[c], "admin") : TenantOf[v] = TenantOf[w]
    ]_vars

\* A context is at least as new as every change of the user's grants that had
\* been answered when the call began, unless the lookup of a third call
\* overlapped that change and cached what it had read before, and what it
\* cached is served for at most one TTL.  An administrator who changes his own
\* grants looks them up himself before: that is no excuse.
Overlap(c, d) == c \notin before[d] /\ d \notin before[c]

ContextFresh ==
    \A c \in Calls : found[c] # NULL =>
        \A m \in before[c] :
            /\ IsMutation(m) /\ reply[m] = Done /\ request[m].user = Actor(c)
            /\ found[c].version < wrote[m]
            => \E d \in Calls \ {c, m} :
                  /\ found[d] = found[c] /\ Actor(d) = Actor(c)
                  /\ Overlap(d, m)
                  /\ filled[d] # NULL /\ began[c] <= filled[d] + TTL
=============================================================================
