--------------------------- MODULE UserAccessProofs ---------------------------
(***************************************************************************)
(* How old the grants behind a context can be, what its role may be, and   *)
(* whom its user may manage: theorems for every value of the constants.    *)
(***************************************************************************)
EXTENDS UserAccess, FiniteSetTheorems, TLAPS

-----------------------------------------------------------------------------
(* The first and the last of finitely many.                                *)

\* A finite set has an element for which f is least: otherwise some smallest
\* nonempty subset has none, and neither would it without one of its elements.
LEMMA LeastExists ==
    ASSUME NEW S, IsFiniteSet(S), S # {}, NEW f \in [S -> Int]
    PROVE  \E x \in S : \A y \in S : f[x] <= f[y]
<1> DEFINE Bad == {A \in SUBSET S : A # {} /\ ~\E x \in A : \A y \in A : f[x] <= f[y]}
<1> SUFFICES ASSUME Bad # {} PROVE FALSE
  OBVIOUS
<1>1. IsWellFoundedOn(StrictSubsetOrdering(S), FiniteSubsetsOf(S)) /\ FiniteSubsetsOf(S) = SUBSET S
  BY FS_StrictSubsetOrderingWellFounded, FS_FiniteSubsetsOfFinite
<1>2. PICK A \in Bad : \A B \in Bad : <<B, A>> \notin StrictSubsetOrdering(S)
  <2>1. Bad \subseteq SUBSET S
    OBVIOUS
  <2> HIDE DEF Bad
  <2> QED
    BY <1>1, <2>1, WFMin
<1>3. PICK x \in A : TRUE
  OBVIOUS
<1>4. A \ {x} \notin Bad
  BY <1>2, <1>3 DEF StrictSubsetOrdering
<1>5. A \ {x} # {}
  BY <1>3
<1>6. PICK y \in A \ {x} : \A z \in A \ {x} : f[y] <= f[z]
  BY <1>4, <1>5
<1>7. f[x] \in Int /\ f[y] \in Int /\ \A z \in A : f[z] \in Int
  BY <1>3, <1>6
<1>8. CASE f[x] <= f[y]
  BY <1>3, <1>6, <1>7, <1>8
<1>9. CASE f[y] <= f[x]
  BY <1>3, <1>6, <1>7, <1>9
<1> QED
  BY <1>7, <1>8, <1>9

LEMMA GreatestExists ==
    ASSUME NEW S, IsFiniteSet(S), S # {}, NEW f \in [S -> Int]
    PROVE  \E x \in S : \A y \in S : f[y] <= f[x]
<1> DEFINE g == [x \in S |-> 0 - f[x]]
<1>1. g \in [S -> Int] /\ \A x \in S : g[x] = 0 - f[x] /\ f[x] \in Int
  OBVIOUS
<1>2. \E x \in S : \A y \in S : g[x] <= g[y]
  <2> HIDE DEF g
  <2> QED
    BY <1>1, LeastExists
<1> QED
  BY <1>1, <1>2

-----------------------------------------------------------------------------
(* The context that a mapping gives.                                       *)

\* What is assumed of the constants.
LEMMA Assumptions ==
    /\ CacheKeys = Users /\ Requests \subseteq AllRequests
    /\ Initially \in [Users -> [Workspaces -> Roles \cup {NONE}]]
    /\ TTL \in Nat /\ NegativeTTL \in Nat /\ NegativeTTL <= TTL
    /\ MaxVersion \in Nat \ {0} /\ MaxFaults \in Nat /\ MaxTime \in Nat
    /\ NULL \notin Mappings /\ NULL \notin Requests /\ NULL \notin 0..MaxTime
    /\ IsFiniteSet(Users) /\ IsFiniteSet(Workspaces)
    /\ NONE \notin Roles /\ NONE \notin Grants
BY AccessAssumption, CacheAssumption, StoreAssumption

\* The fields of a request are those of its operation.
LEMMA RequestFields ==
    ASSUME NEW r \in Requests
    PROVE  /\ r.op \in {"read", "revoke", "grant", "role"} /\ r.actor \in Users
           /\ r.op # "read" => r.user \in Users /\ r.workspace \in Workspaces
           /\ r.op \in {"grant", "role"} => r.role \in Roles
<1>1. r \in AllRequests
  BY Assumptions
<1>2. CASE r \in [op : {"read"}, actor : Users]
  BY <1>2
<1>3. CASE r \in [op : {"revoke"}, actor : Users, user : Users, workspace : Workspaces]
  BY <1>3
<1>4. CASE r \in [op : {"grant", "role"}, actor : Users, user : Users, workspace : Workspaces, role : Roles]
  BY <1>4
<1> QED
  BY <1>1, <1>2, <1>3, <1>4 DEF AllRequests

\* A workspace of a mapping carries a grant.
LEMMA InGrant ==
    ASSUME NEW m \in Mappings, NEW w \in In(m)
    PROVE  w \in Workspaces /\ m.access[w] \in Grants
           /\ m.access[w].role \in Roles /\ m.access[w].since \in Nat
BY DEF In, Mappings, Grants

\* Of some workspaces of a mapping one was granted first.
LEMMA FirstOf ==
    ASSUME NEW m \in Mappings, NEW ws \in SUBSET In(m), ws # {}
    PROVE  First(m, ws) \in ws
<1> DEFINE f == [w \in ws |-> m.access[w].since]
<1>1. f \in [ws -> Int] /\ \A w \in ws : f[w] = m.access[w].since
  BY InGrant
<1>2. IsFiniteSet(ws)
  <2>1. ws \in SUBSET Workspaces
    BY DEF In
  <2> QED
    BY <2>1, Assumptions, FS_Subset
<1>3. \E w \in ws : \A v \in ws : m.access[w].since <= m.access[v].since
  <2> HIDE DEF f
  <2> QED
    BY <1>1, <1>2, LeastExists
<1> QED
  BY <1>3 DEF First

\* The context of a usable mapping never exceeds its workspace, and an admin's
\* is a workspace of which he is admin.
ContextOK(ctx) ==
    /\ ctx.workspace \in In(ctx.mapping)
    /\ Rank(ctx.role) <= Rank(ctx.mapping.access[ctx.workspace].role)

LEMMA ContextGood ==
    ASSUME NEW u \in Users, NEW m \in Mappings, IsUsable(m)
    PROVE  /\ ContextOf(u, m) \in Contexts /\ ContextOK(ContextOf(u, m))
           /\ ContextOf(u, m).role = "admin" => ContextOf(u, m).workspace \in InRole(m, "admin")
<1> DEFINE w == DefaultWorkspace(m)
           f == First(m, In(m))
           ctx == ContextOf(u, m)
<1>1. f \in In(m) /\ In(m) # {}
  BY FirstOf DEF IsUsable
<1>2. \A role \in Roles : InRole(m, role) \in SUBSET In(m)
  BY DEF InRole
<1>3. CASE InRole(m, "admin") # {}
  <2>1. w \in InRole(m, "admin")
    BY <1>2, <1>3, FirstOf DEF DefaultWorkspace, Roles
  <2> QED
    BY <1>1, <2>1, InGrant DEF ContextOf, ContextOK, Contexts, InRole, Rank, Roles
<1>4. CASE InRole(m, "admin") = {} /\ InRole(m, "editor") # {}
  <2>1. w \in InRole(m, "editor")
    BY <1>2, <1>4, FirstOf DEF DefaultWorkspace, Roles
  <2>2. m.access[f].role \in {"viewer", "editor"}
    BY <1>1, <1>4, InGrant DEF InRole, Roles
  <2> QED
    BY <1>1, <2>1, <2>2, InGrant DEF ContextOf, ContextOK, Contexts, InRole, Rank, Roles
<1>5. CASE InRole(m, "admin") = {} /\ InRole(m, "editor") = {}
  <2>1. w = f
    BY <1>5 DEF DefaultWorkspace
  <2>2. m.access[f].role # "admin"
    BY <1>1, <1>5 DEF InRole
  <2> QED
    BY <1>1, <2>1, <2>2, InGrant DEF ContextOf, ContextOK, Contexts, Rank, Roles
<1> QED
  BY <1>3, <1>4, <1>5

-----------------------------------------------------------------------------
(* Types, and what each call knows at each await.                          *)

Entries == [value : Mappings, expiresAt : Nat, lastAccessAt : Nat]
Replies == {Unauthorized, Forbidden, Failed, Done}
EntrySteps == {"idle", "findProfile", "fill"}
HandlerSteps == {"findWorkspace", "upsert", "revoke", "setRole"}

CacheTyped == now \in 0..MaxTime /\ cache \in [Users -> Entries \cup {NULL}]

CallsTyped ==
    /\ faults \in 0..MaxFaults
    /\ pc \in [Calls -> Steps \cup {"idle", "done"}]
    /\ request \in [Calls -> Requests \cup {NULL}]
    /\ found \in [Calls -> Mappings \cup {NULL}]
    /\ context \in [Calls -> Contexts \cup {NULL}]
    /\ reply \in [Calls -> Replies \cup {NULL}]
    /\ version \in [Users -> Versions]
    /\ wrote \in [Calls -> 0..MaxVersion]
    /\ before \in [Calls -> SUBSET Calls]
    /\ began \in [Calls -> 0..MaxTime]
    /\ filled \in [Calls -> 0..MaxTime \cup {NULL}]

CallOK(c) ==
    /\ pc[c] # "idle" => request[c] \in Requests
    /\ pc[c] \in {"idle", "findProfile"} => found[c] = NULL
    /\ pc[c] = "fill" => found[c] \in Mappings
    /\ pc[c] \in EntrySteps => filled[c] = NULL
    /\ pc[c] \in {"saveProfile"} \cup HandlerSteps => found[c] \in Mappings /\ IsUsable(found[c])
    /\ pc[c] \in HandlerSteps => /\ context[c] = ContextOf(Actor(c), found[c]) /\ context[c].role = "admin"
                                 /\ IsMutation(c)
    /\ pc[c] = "upsert" => InTenant(request[c], context[c])
    /\ pc[c] \in {"findWorkspace", "upsert"} => request[c].op = "grant"
    /\ pc[c] = "setRole" => request[c].op = "role"
    /\ pc[c] = "invalidate" => IsMutation(c)
    /\ context[c] # NULL => ContextOK(context[c])

TypeInv ==
    /\ CacheTyped /\ StoreOK /\ CallsTyped
    /\ \A c \in Calls : CallOK(c)

LEMMA InitTypeInv == Init => TypeInv
<1> SUFFICES ASSUME Init PROVE TypeInv
  OBVIOUS
<1> USE Assumptions
<1>1. CacheTyped
  BY DEF Init, CacheInit, CacheTyped
<1>2. StoreOK
  <2>1. PICK order \in [Workspaces -> 1..Cardinality(Workspaces)] :
            grants = [u \in Users |-> [w \in Workspaces |->
                IF Initially[u][w] = NONE THEN NONE
                ELSE [role |-> Initially[u][w], revoked |-> FALSE, since |-> order[w]]]]
    BY DEF Init
  <2>2. ASSUME NEW u \in Users, NEW w \in Workspaces, Initially[u][w] # NONE
        PROVE  [role |-> Initially[u][w], revoked |-> FALSE, since |-> order[w]] \in Grants
    <3>1. Initially[u][w] \in Roles /\ order[w] \in 1..Cardinality(Workspaces)
      BY <2>2
    <3>2. order[w] \in Nat \ {0}
      BY <3>1, FS_CardinalityType
    <3> QED
      BY <3>1, <3>2 DEF Grants
  <2>3. grants \in [Users -> [Workspaces -> Grants \cup {NONE}]]
    BY <2>1, <2>2
  <2> QED
    BY <2>3 DEF Init, StoreOK
<1>3. CallsTyped
  BY DEF Init, CallsTyped, Versions
<1>4. \A c \in Calls : CallOK(c)
  BY DEF Init, CallOK, EntrySteps, HandlerSteps
<1> QED
  BY <1>1, <1>2, <1>3, <1>4 DEF TypeInv

\* A call that has begun has a request.
LEMMA Begun ==
    ASSUME TypeInv, NEW c \in Calls, pc[c] # "idle"
    PROVE  /\ request[c] \in Requests /\ Actor(c) \in Users
           /\ IsMutation(c) => request[c].user \in Users /\ request[c].workspace \in Workspaces
<1>1. request[c] \in Requests
  BY DEF TypeInv, CallOK
<1> QED
  BY <1>1, RequestFields DEF Actor, IsMutation

-----------------------------------------------------------------------------
(* The operations of the cache.                                            *)

\* The entry of a user goes, or stays with its mapping and its lifetime.
Keeps(u) ==
    cache'[u] # NULL => /\ cache[u] # NULL
                        /\ cache'[u].value = cache[u].value
                        /\ cache'[u].expiresAt = cache[u].expiresAt

LEMMA GetKeeps ==
    ASSUME CacheTyped, NEW k \in Users, Get(k), UNCHANGED now
    PROVE  CacheTyped' /\ \A u \in Users : Keeps(u)
<1>1. CASE Fresh(k)
  <2> DEFINE e == [cache[k] EXCEPT !.lastAccessAt = now]
  <2>1. cache[k] \in Entries /\ cache[k] # NULL
    BY <1>1 DEF Fresh, CacheTyped
  <2>2. e \in Entries /\ e.value = cache[k].value /\ e.expiresAt = cache[k].expiresAt
    BY <2>1, Assumptions DEF Entries, CacheTyped
  <2>3. cache' = [cache EXCEPT ![k] = e]
    BY <1>1 DEF Get, Touch
  <2> HIDE DEF e
  <2> QED
    BY <2>1, <2>2, <2>3 DEF CacheTyped, Keeps
<1>2. CASE ~Fresh(k)
  BY <1>2 DEF Get, CacheTyped, Keeps
<1> QED
  BY <1>1, <1>2

LEMMA SetKeeps ==
    ASSUME CacheTyped, NEW k \in Users, NEW v \in Mappings, NEW ttl \in Nat, ttl <= TTL, Set(k, v, ttl), UNCHANGED now
    PROVE  /\ CacheTyped'
           /\ cache'[k].value = v /\ cache'[k].expiresAt <= now + TTL
           /\ \A u \in Users \ {k} : Keeps(u)
<1> DEFINE e == [value |-> v, expiresAt |-> now + ttl, lastAccessAt |-> now]
<1>1. e \in Entries /\ e.value = v /\ e.expiresAt <= now + TTL
  BY Assumptions DEF Entries, CacheTyped
<1>2. cache' = [cache EXCEPT ![k] = e]
      \/ \E victim \in LeastRecentlyUsed : cache' = [cache EXCEPT ![victim] = NULL, ![k] = e]
  BY DEF Set
<1> HIDE DEF e
<1>3. CASE cache' = [cache EXCEPT ![k] = e]
  BY <1>1, <1>3 DEF CacheTyped, Keeps
<1>4. ASSUME NEW victim \in LeastRecentlyUsed, cache' = [cache EXCEPT ![victim] = NULL, ![k] = e]
      PROVE  CacheTyped' /\ cache'[k] = e /\ \A u \in Users \ {k} : Keeps(u)
  BY <1>1, <1>4 DEF CacheTyped, Keeps
<1> QED
  BY <1>1, <1>2, <1>3, <1>4 DEF CacheTyped

\* A deletion, a clear and a clean-up only drop entries.
LEMMA DropKeeps ==
    ASSUME CacheTyped, UNCHANGED now, Clear \/ CleanupExpired \/ \E k \in Users : Delete(k)
    PROVE  CacheTyped' /\ \A u \in Users : Keeps(u)
BY Assumptions DEF CacheTyped, Clear, CleanupExpired, Delete, Keeps

-----------------------------------------------------------------------------
(* What a step does, whatever its action.                                  *)

OthersStay(c) ==
    \A d \in Calls : d # c =>
        /\ pc'[d] = pc[d] /\ request'[d] = request[d] /\ found'[d] = found[d] /\ context'[d] = context[d]
        /\ reply'[d] = reply[d] /\ wrote'[d] = wrote[d] /\ before'[d] = before[d]
        /\ began'[d] = began[d] /\ filled'[d] = filled[d]

\* A call begins with what is cached, if that is fresh, or with nothing.
Begins(c) ==
    /\ pc[c] = "idle" /\ pc'[c] \notin {"idle", "fill"} /\ (pc'[c] = "done" => reply'[c] # Done)
    /\ UNCHANGED <<now, version, wrote, filled, grants>> /\ \A u \in Users : Keeps(u)
    /\ request'[c] \in Requests
    /\ before'[c] = {d \in Calls : pc[d] = "done"} /\ began'[c] = now
    /\ \/ found'[c] = NULL
       \/ Fresh(request'[c].actor) /\ found'[c] = cache[request'[c].actor].value

\* The grants are read.
Reads(c) ==
    /\ pc[c] = "findProfile" /\ pc'[c] = "fill"
    /\ found'[c].version = version[Actor(c)]
    /\ UNCHANGED <<now, cache, version, wrote, filled, request, before, began, grants>>

\* What was read is cached.
Fills(c) ==
    /\ pc[c] = "fill" /\ pc'[c] \notin EntrySteps /\ (pc'[c] = "done" => reply'[c] # Done)
    /\ cache'[Actor(c)].value = found[c] /\ cache'[Actor(c)].expiresAt <= now + TTL
    /\ \A u \in Users \ {Actor(c)} : Keeps(u)
    /\ filled'[c] = now
    /\ UNCHANGED <<now, version, wrote, found, request, before, began, grants>>

\* The call goes on or ends, and nothing is written that others read.
Moves(c) ==
    /\ pc[c] \in Steps /\ pc'[c] \notin EntrySteps
    /\ pc'[c] = "done" /\ IsMutation(c) => reply'[c] # Done
    /\ UNCHANGED <<now, cache, version, wrote, filled, found, request, before, began, grants>>

\* The grants of the request's user are written, under an admin's context.
Writes(c) ==
    /\ pc[c] \in {"upsert", "revoke", "setRole"} /\ pc'[c] = "invalidate" /\ IsMutation(c)
    /\ version' = [version EXCEPT ![request[c].user] = @ + 1]
    /\ wrote'[c] = version[request[c].user] + 1
    /\ UNCHANGED <<now, cache, filled, found, request, before, began>>
    /\ \A u \in Users, w \in Workspaces :
          grants'[u][w] # grants[u][w] =>
             u = request[c].user /\ w = request[c].workspace /\ InTenant(request[c], context[c])

\* The entry of the request's user is deleted, and the call is answered.
Ends(c) ==
    /\ pc[c] = "invalidate" /\ pc'[c] = "done"
    /\ cache'[request[c].user] = NULL /\ \A u \in Users : Keeps(u)
    /\ UNCHANGED <<now, version, wrote, filled, found, request, before, began, grants>>

StepOf(c) ==
    /\ OthersStay(c)
    /\ Begins(c) \/ Reads(c) \/ Fills(c) \/ Moves(c) \/ Writes(c) \/ Ends(c)

Outside ==
    /\ UNCHANGED <<pc, request, found, reply, version, wrote, before, began, filled, grants>>
    /\ \A u \in Users : Keeps(u)

\* What the other calls know survives.
LEMMA OtherCalls ==
    ASSUME TypeInv, NEW c \in Calls, OthersStay(c), CallOK(c)'
    PROVE  \A d \in Calls : CallOK(d)'
BY DEF TypeInv, OthersStay, CallOK, Actor, IsMutation, InTenant

\* Where a call goes.
LEMMA PcAfter ==
    ASSUME TypeInv, NEW c \in Calls
    PROVE  /\ \A step \in Steps : Goto(c, step) =>
                 /\ pc' \in [Calls -> Steps \cup {"idle", "done"}] /\ reply' = reply
                 /\ pc'[c] = step /\ \A d \in Calls : d # c => pc'[d] = pc[d]
           /\ \A r \in Replies : Return(c, r) =>
                 /\ pc' \in [Calls -> Steps \cup {"idle", "done"}] /\ reply' \in [Calls -> Replies \cup {NULL}]
                 /\ pc'[c] = "done" /\ reply'[c] = r
                 /\ \A d \in Calls : d # c => pc'[d] = pc[d] /\ reply'[d] = reply[d]
BY DEF TypeInv, CallsTyped, Goto, Return

LEMMA RepliesDiffer == {Unauthorized, Forbidden, Failed} \subseteq Replies \ {Done} /\ Done \in Replies
<1>1. Unauthorized.error = "unauthorized" /\ Forbidden.error = "forbidden" /\ Failed.error = "failed" /\ Done.error = "none"
  BY DEF Unauthorized, Forbidden, Failed, Done
<1> QED
  BY <1>1 DEF Replies

\* What a look-up of the grants returns.
LEMMA MappingTyped == ASSUME TypeInv, NEW u \in Users PROVE Mapping(u) \in Mappings /\ Mapping(u).version = version[u]
<1>1. ActiveGrants(u) \in [Workspaces -> Grants \cup {NONE}]
  <2>1. grants[u] \in [Workspaces -> Grants \cup {NONE}]
    BY DEF TypeInv, StoreOK
  <2> QED
    BY <2>1 DEF ActiveGrants
<1>2. version[u] \in Versions
  BY DEF TypeInv, CallsTyped
<1> QED
  BY <1>1, <1>2 DEF Mapping, Mappings

\* A mapping decides whether the call enters.
LEMMA EnterStep ==
    ASSUME TypeInv, NEW c \in Calls, NEW m \in Mappings, Enter(c, m)
    PROVE  /\ found' \in [Calls -> Mappings \cup {NULL}] /\ found'[c] = m
           /\ pc' \in [Calls -> Steps \cup {"idle", "done"}] /\ reply' \in [Calls -> Replies \cup {NULL}]
           /\ \/ pc'[c] = "saveProfile" /\ IsUsable(m)
              \/ pc'[c] = "done" /\ reply'[c] # Done
           /\ \A d \in Calls : d # c => pc'[d] = pc[d] /\ reply'[d] = reply[d] /\ found'[d] = found[d]
<1>1. found' \in [Calls -> Mappings \cup {NULL}] /\ found'[c] = m /\ \A d \in Calls : d # c => found'[d] = found[d]
  BY DEF Enter, TypeInv, CallsTyped
<1>2. CASE IsUsable(m) /\ Goto(c, "saveProfile")
  <2>1. /\ pc' \in [Calls -> Steps \cup {"idle", "done"}] /\ reply' = reply
        /\ pc'[c] = "saveProfile" /\ \A d \in Calls : d # c => pc'[d] = pc[d]
    BY <1>2, PcAfter DEF Steps
  <2> QED
    BY <1>1, <1>2, <2>1 DEF TypeInv, CallsTyped
<1>3. CASE Return(c, Unauthorized)
  BY <1>1, <1>3, PcAfter, RepliesDiffer
<1> QED
  BY <1>2, <1>3 DEF Enter

-----------------------------------------------------------------------------
(* Every step keeps the types and has one of these shapes.                 *)

LEMMA BeginStep ==
    ASSUME TypeInv, NEW c \in Calls, NEW r \in Requests, Begin(c, r)
    PROVE  TypeInv' /\ StepOf(c)
<1> USE DEF At, storeVars
<1>1. /\ pc[c] = "idle" /\ UNCHANGED <<now, storeVars, faults, context, version, wrote, filled>> /\ Get(r.actor)
      /\ request' = [request EXCEPT ![c] = r]
      /\ before' = [before EXCEPT ![c] = {d \in Calls : Returned(d)}]
      /\ began' = [began EXCEPT ![c] = now]
      /\ r.actor \in Users /\ CallOK(c)
  BY RequestFields DEF Begin, TypeInv
<1>2. CacheTyped' /\ \A u \in Users : Keeps(u)
  BY <1>1, GetKeeps DEF TypeInv
<1>3. /\ request' \in [Calls -> Requests \cup {NULL}] /\ request'[c] = r
      /\ before' \in [Calls -> SUBSET Calls] /\ before'[c] = {d \in Calls : pc[d] = "done"}
      /\ began' \in [Calls -> 0..MaxTime] /\ began'[c] = now
      /\ \A d \in Calls : d # c => request'[d] = request[d] /\ before'[d] = before[d] /\ began'[d] = began[d]
  BY <1>1 DEF TypeInv, CallsTyped, CacheTyped, Returned
<1>4. /\ found' \in [Calls -> Mappings \cup {NULL}]
      /\ pc' \in [Calls -> Steps \cup {"idle", "done"}] /\ reply' \in [Calls -> Replies \cup {NULL}]
      /\ \/ pc'[c] = "findProfile" /\ found'[c] = NULL
         \/ /\ Fresh(r.actor) /\ found'[c] = cache[r.actor].value /\ found'[c] \in Mappings
            /\ \/ pc'[c] = "saveProfile" /\ IsUsable(found'[c])
               \/ pc'[c] = "done" /\ reply'[c] # Done
      /\ \A d \in Calls : d # c => pc'[d] = pc[d] /\ reply'[d] = reply[d] /\ found'[d] = found[d]
  <2>1. CASE Cached(r.actor) # NULL /\ Enter(c, Cached(r.actor))
    <3>1. Fresh(r.actor) /\ Cached(r.actor) = cache[r.actor].value
      BY <2>1 DEF Cached
    <3>2. cache[r.actor] \in Entries
      BY <1>1, <3>1 DEF Fresh, TypeInv, CacheTyped
    <3>3. Cached(r.actor) \in Mappings
      BY <3>1, <3>2 DEF Entries
    <3>4. PICK m \in Mappings : m = Cached(r.actor)
      BY <3>3
    <3>5. Enter(c, m)
      BY <2>1, <3>4
    <3> QED
      BY <3>1, <3>4, <3>5, EnterStep
  <2>2. CASE Goto(c, "findProfile") /\ UNCHANGED found
    <3>1. /\ pc' \in [Calls -> Steps \cup {"idle", "done"}] /\ reply' = reply
          /\ pc'[c] = "findProfile" /\ \A d \in Calls : d # c => pc'[d] = pc[d]
      BY <2>2, PcAfter DEF Steps
    <3> QED
      BY <1>1, <2>2, <3>1 DEF TypeInv, CallsTyped, CallOK
  <2> QED
    BY <2>1, <2>2 DEF Begin
<1>5. CallsTyped' /\ StoreOK'
  BY <1>1, <1>3, <1>4 DEF TypeInv, CallsTyped, StoreOK
<1>6. CallOK(c)'
  BY <1>1, <1>3, <1>4 DEF CallOK, EntrySteps, HandlerSteps
<1>7. OthersStay(c)
  BY <1>1, <1>3, <1>4 DEF OthersStay
<1>8. Begins(c)
  BY <1>1, <1>2, <1>3, <1>4 DEF Begins
<1> QED
  BY <1>2, <1>5, <1>6, <1>7, <1>8, OtherCalls DEF TypeInv, StepOf

LEMMA FindProfileStep == ASSUME TypeInv, NEW c \in Calls, FindProfile(c) PROVE TypeInv' /\ StepOf(c)
<1> USE DEF At, storeVars, locals, cacheVars
<1>1. /\ pc[c] = "findProfile" /\ Goto(c, "fill") /\ found' = [found EXCEPT ![c] = Mapping(Actor(c))]
      /\ UNCHANGED <<cacheVars, storeVars, faults, locals, context, version, wrote, filled>>
      /\ CallOK(c)
  BY DEF FindProfile, TypeInv
<1>2. Mapping(Actor(c)) \in Mappings /\ Mapping(Actor(c)).version = version[Actor(c)]
  BY <1>1, Begun, MappingTyped
<1>3. /\ pc' \in [Calls -> Steps \cup {"idle", "done"}] /\ reply' = reply
      /\ pc'[c] = "fill" /\ \A d \in Calls : d # c => pc'[d] = pc[d]
  BY <1>1, PcAfter DEF Steps
<1>4. found' \in [Calls -> Mappings \cup {NULL}] /\ found'[c] = Mapping(Actor(c)) /\ \A d \in Calls : d # c => found'[d] = found[d]
  BY <1>1, <1>2 DEF TypeInv, CallsTyped
<1>5. CallsTyped' /\ StoreOK' /\ CacheTyped'
  BY <1>1, <1>3, <1>4 DEF TypeInv, CallsTyped, StoreOK, CacheTyped
<1>6. CallOK(c)'
  BY <1>1, <1>2, <1>3, <1>4 DEF CallOK, EntrySteps, HandlerSteps
<1>7. OthersStay(c) /\ Reads(c)
  BY <1>1, <1>2, <1>3, <1>4 DEF OthersStay, Reads
<1> QED
  BY <1>5, <1>6, <1>7, OtherCalls DEF TypeInv, StepOf

LEMMA FillStep == ASSUME TypeInv, NEW c \in Calls, Fill(c) PROVE TypeInv' /\ StepOf(c)
<1> USE DEF At, storeVars, locals
<1>1. /\ pc[c] = "fill" /\ Enter(c, found[c]) /\ filled' = [filled EXCEPT ![c] = now]
      /\ UNCHANGED <<now, storeVars, faults, locals, context, version, wrote>>
      /\ CallOK(c) /\ found[c] \in Mappings /\ Actor(c) \in Users
  BY Begun DEF Fill, TypeInv, CallOK
<1>2. PICK u \in Users, m \in Mappings, ttl \in Nat : u = Actor(c) /\ m = found[c] /\ ttl <= TTL /\ Set(u, m, ttl)
  BY <1>1, Assumptions DEF Fill
<1>3. CacheTyped' /\ cache'[u].value = m /\ cache'[u].expiresAt <= now + TTL /\ \A v \in Users \ {u} : Keeps(v)
  BY <1>1, <1>2, SetKeeps DEF TypeInv
<1>4. /\ found' \in [Calls -> Mappings \cup {NULL}] /\ found'[c] = m
      /\ pc' \in [Calls -> Steps \cup {"idle", "done"}] /\ reply' \in [Calls -> Replies \cup {NULL}]
      /\ \/ pc'[c] = "saveProfile" /\ IsUsable(m)
         \/ pc'[c] = "done" /\ reply'[c] # Done
      /\ \A d \in Calls : d # c => pc'[d] = pc[d] /\ reply'[d] = reply[d] /\ found'[d] = found[d]
  BY <1>1, <1>2, EnterStep
<1>5. /\ filled' \in [Calls -> 0..MaxTime \cup {NULL}] /\ filled'[c] = now
      /\ \A d \in Calls : d # c => filled'[d] = filled[d]
  BY <1>1 DEF TypeInv, CallsTyped, CacheTyped
<1>6. found' = found
  <2>1. found' = [found EXCEPT ![c] = found[c]] /\ found \in [Calls -> Mappings \cup {NULL}]
    BY <1>1 DEF Enter, TypeInv, CallsTyped
  <2> QED
    BY <2>1
<1>7. CallsTyped' /\ StoreOK'
  BY <1>1, <1>4, <1>5 DEF TypeInv, CallsTyped, StoreOK
<1>8. CallOK(c)'
  BY <1>1, <1>2, <1>4, <1>5 DEF CallOK, EntrySteps, HandlerSteps
<1>9. OthersStay(c)
  BY <1>1, <1>4, <1>5 DEF OthersStay
<1>10. Fills(c)
  BY <1>1, <1>2, <1>3, <1>4, <1>5, <1>6 DEF Fills, EntrySteps
<1> QED
  BY <1>3, <1>7, <1>8, <1>9, <1>10, OtherCalls DEF TypeInv, StepOf

\* Steps that end the call, or go on within the handler.
LEMMA MoveStep ==
    ASSUME TypeInv, NEW c \in Calls, pc[c] \in Steps,
           UNCHANGED <<cacheVars, workspaces, grants, locals, found, version, wrote, filled>>,
           faults' \in 0..MaxFaults, profiles' \subseteq Users,
           context' \in [Calls -> Contexts \cup {NULL}], \A d \in Calls : d # c => context'[d] = context[d],
           context'[c] # NULL => ContextOK(context'[c]),
           NEW step \in HandlerSteps \cup {"done"},
           step \in HandlerSteps =>
               /\ Goto(c, step) /\ IsMutation(c) /\ found[c] \in Mappings /\ IsUsable(found[c])
               /\ context'[c] = ContextOf(Actor(c), found[c]) /\ context'[c].role = "admin"
               /\ step = "upsert" => InTenant(request[c], context[c]) /\ context' = context
               /\ step \in {"findWorkspace", "upsert"} => request[c].op = "grant"
               /\ step = "setRole" => request[c].op = "role",
           step = "done" => \E r \in Replies : Return(c, r) /\ (IsMutation(c) => r # Done)
    PROVE  TypeInv' /\ StepOf(c)
<1> USE DEF locals, cacheVars
<1>1. /\ pc' \in [Calls -> Steps \cup {"idle", "done"}] /\ reply' \in [Calls -> Replies \cup {NULL}]
      /\ pc'[c] = step /\ (step = "done" /\ IsMutation(c) => reply'[c] # Done)
      /\ \A d \in Calls : d # c => pc'[d] = pc[d] /\ reply'[d] = reply[d]
  <2>1. CASE step = "done"
    BY <2>1, PcAfter
  <2>2. CASE step \in HandlerSteps
    <3>1. step \in Steps /\ Goto(c, step) /\ step # "done"
      BY <2>2 DEF Steps, HandlerSteps
    <3> QED
      BY <3>1, PcAfter DEF TypeInv, CallsTyped
  <2> QED
    BY <2>1, <2>2
<1>2. CallOK(c) /\ pc[c] # "idle"
  BY DEF TypeInv, Steps
<1>3. CallsTyped' /\ StoreOK' /\ CacheTyped'
  BY <1>1 DEF TypeInv, CallsTyped, StoreOK, CacheTyped
<1>4. CallOK(c)'
  BY <1>1, <1>2 DEF CallOK, EntrySteps, HandlerSteps, Actor, IsMutation, InTenant
<1>5. OthersStay(c) /\ Moves(c)
  BY <1>1 DEF OthersStay, Moves, EntrySteps, HandlerSteps
<1> QED
  BY <1>3, <1>4, <1>5, OtherCalls DEF TypeInv, StepOf

LEMMA SaveProfileStep == ASSUME TypeInv, NEW c \in Calls, SaveProfile(c) PROVE TypeInv' /\ StepOf(c)
<1> USE DEF At
<1> DEFINE ctx == ContextOf(Actor(c), found[c])
<1>1. /\ pc[c] = "saveProfile" /\ pc[c] \in Steps /\ found[c] \in Mappings /\ IsUsable(found[c]) /\ Actor(c) \in Users
      /\ UNCHANGED <<cacheVars, workspaces, grants, locals, found, version, wrote, filled>>
      /\ context' = [context EXCEPT ![c] = ctx] /\ Handle(c, ctx)
  BY Begun DEF SaveProfile, TypeInv, CallOK, Steps
<1>2. faults' \in 0..MaxFaults /\ profiles' \subseteq Users
  <2>1. faults \in 0..MaxFaults /\ MaxFaults \in Nat /\ profiles \subseteq Users
    BY Assumptions DEF TypeInv, CallsTyped, StoreOK
  <2> QED
    BY <1>1, <2>1 DEF SaveProfile
<1>3. ctx \in Contexts /\ ContextOK(ctx)
  BY <1>1, ContextGood
<1>4. /\ context' \in [Calls -> Contexts \cup {NULL}] /\ context'[c] = ctx
      /\ \A d \in Calls : d # c => context'[d] = context[d]
  BY <1>1, <1>3 DEF TypeInv, CallsTyped
<1>5. CASE Return(c, Done) /\ ~IsMutation(c)
  BY <1>1, <1>2, <1>3, <1>4, <1>5, MoveStep, RepliesDiffer DEF HandlerSteps
<1>6. CASE Return(c, Forbidden)
  BY <1>1, <1>2, <1>3, <1>4, <1>6, MoveStep, RepliesDiffer DEF HandlerSteps
<1>7. CASE /\ IsMutation(c) /\ ctx.role = "admin"
           /\ \E step \in {"findWorkspace", "revoke", "setRole"} :
                 /\ Goto(c, step)
                 /\ step = "findWorkspace" => request[c].op = "grant"
                 /\ step = "setRole" => request[c].op = "role"
  <2>1. PICK step \in {"findWorkspace", "revoke", "setRole"} :
                 /\ Goto(c, step)
                 /\ step = "findWorkspace" => request[c].op = "grant"
                 /\ step = "setRole" => request[c].op = "role"
    BY <1>7
  <2>2. step \in HandlerSteps /\ step # "upsert" /\ step # "done"
    BY DEF HandlerSteps
  <2> HIDE DEF ctx
  <2> QED
    BY <1>1, <1>2, <1>3, <1>4, <1>7, <2>1, <2>2, MoveStep DEF ctx
<1>8. request[c].op \in {"read", "revoke", "grant", "role"}
  BY <1>1, Begun, RequestFields
<1> QED
  BY <1>1, <1>5, <1>6, <1>7, <1>8 DEF Handle, MayManage, IsMutation

LEMMA EndsBadly ==
    ASSUME TypeInv, NEW c \in Calls, pc[c] \in Steps,
           UNCHANGED <<cacheVars, storeVars, locals, found, context, version, wrote, filled>>,
           faults' \in 0..MaxFaults, NEW r \in {Unauthorized, Failed}, Return(c, r)
    PROVE  TypeInv' /\ StepOf(c)
<1>1. /\ context' \in [Calls -> Contexts \cup {NULL}] /\ (\A d \in Calls : d # c => context'[d] = context[d])
      /\ (context'[c] # NULL => ContextOK(context'[c])) /\ profiles' \subseteq Users
  BY DEF TypeInv, CallsTyped, CallOK, StoreOK, storeVars
<1>2. r \in Replies /\ r # Done
  BY RepliesDiffer
<1> QED
  BY <1>1, <1>2, MoveStep DEF HandlerSteps, storeVars

LEMMA FindWorkspaceStep == ASSUME TypeInv, NEW c \in Calls, FindWorkspace(c) PROVE TypeInv' /\ StepOf(c)
<1> USE DEF At
<1>1. /\ pc[c] = "findWorkspace" /\ pc[c] \in Steps /\ CallOK(c)
      /\ UNCHANGED <<cacheVars, storeVars, faults, locals, found, context, version, wrote, filled>>
  BY DEF FindWorkspace, TypeInv, Steps
<1>2. faults' \in 0..MaxFaults
  BY <1>1 DEF TypeInv, CallsTyped
<1>3. CASE InTenant(request[c], context[c]) /\ Goto(c, "upsert")
  <2>1. /\ IsMutation(c) /\ found[c] \in Mappings /\ IsUsable(found[c])
        /\ context[c] = ContextOf(Actor(c), found[c]) /\ context[c].role = "admin"
        /\ context[c] # NULL => ContextOK(context[c])
        /\ request[c].op = "grant"
    BY <1>1 DEF CallOK, HandlerSteps
  <2>2. context' = context /\ context \in [Calls -> Contexts \cup {NULL}] /\ profiles' \subseteq Users
    BY <1>1 DEF TypeInv, CallsTyped, StoreOK, storeVars
  <2> QED
    BY <1>1, <1>2, <1>3, <2>1, <2>2, MoveStep DEF HandlerSteps, storeVars
<1>4. CASE Return(c, Failed)
  BY <1>1, <1>2, <1>4, EndsBadly
<1> QED
  BY <1>1, <1>3, <1>4 DEF FindWorkspace

LEMMA ErrorStep == ASSUME TypeInv, NEW c \in Calls, DatabaseError(c) PROVE TypeInv' /\ StepOf(c)
<1>1. /\ pc[c] \in Steps /\ UNCHANGED <<cacheVars, storeVars, locals, found, context, version, wrote, filled>>
      /\ \E r \in {Unauthorized, Failed} : Return(c, r)
  BY DEF DatabaseError
<1>2. faults' \in 0..MaxFaults
  <2>1. faults \in 0..MaxFaults /\ MaxFaults \in Nat
    BY Assumptions DEF TypeInv, CallsTyped
  <2> QED
    BY <2>1 DEF DatabaseError
<1> QED
  BY <1>1, <1>2, EndsBadly

-----------------------------------------------------------------------------
(* Writing the grants.                                                     *)

\* The order that a new grant gets is a natural number.
LEMMA NextSinceNat == ASSUME TypeInv, NEW u \in Users PROVE NextSince(u) \in Nat \ {0}
<1> DEFINE mine == {v \in Workspaces : HasGrant(u, v)}
           used == {0} \cup {grants[u][w].since : w \in mine}
           f == [w \in mine |-> grants[u][w].since]
<1>1. grants[u] \in [Workspaces -> Grants \cup {NONE}]
  BY DEF TypeInv, StoreOK
<1>2. \A w \in mine : grants[u][w].since \in Nat
  BY <1>1 DEF HasGrant, Grants
<1>3. \E n \in used : \A m \in used : m <= n
  <2>1. CASE mine = {}
    BY <2>1
  <2>2. CASE mine # {}
    <3>1. IsFiniteSet(mine)
      <4>1. mine \in SUBSET Workspaces
        OBVIOUS
      <4> HIDE DEF mine
      <4> QED
        BY <4>1, Assumptions, FS_Subset
    <3>2. f \in [mine -> Int] /\ \A w \in mine : f[w] = grants[u][w].since
      BY <1>2
    <3>3. \E w \in mine : \A v \in mine : grants[u][v].since <= grants[u][w].since
      <4> HIDE DEF f, mine
      <4> QED
        BY <2>2, <3>1, <3>2, GreatestExists
    <3> HIDE DEF mine
    <3> QED
      BY <1>2, <3>3
  <2> QED
    BY <2>1, <2>2
<1>4. \A n \in used : n \in Nat
  BY <1>2
<1>5. NextSince(u) = 1 + CHOOSE n \in used : \A m \in used : m <= n
  BY DEF NextSince
<1>6. (CHOOSE n \in used : \A m \in used : m <= n) \in used
  <2> HIDE DEF used
  <2> QED
    BY <1>3
<1> HIDE DEF used
<1> QED
  BY <1>4, <1>5, <1>6

\* The grants differ in one place.
OnlyAt(gs, u, w) ==
    /\ gs \in [Users -> [Workspaces -> Grants \cup {NONE}]]
    /\ \A v \in Users, x \in Workspaces : gs[v][x] # grants[v][x] => v = u /\ x = w

LEMMA WrittenGrants ==
    ASSUME TypeInv, NEW u \in Users, NEW w \in Workspaces, NEW role \in Roles
    PROVE  /\ OnlyAt(Granted(u, w, role), u, w)
           /\ OnlyAt(Revoked(u, w), u, w)
           /\ OnlyAt(Reroled(u, w, role), u, w)
<1>1. grants \in [Users -> [Workspaces -> Grants \cup {NONE}]]
  BY DEF TypeInv, StoreOK
<1>2. ASSUME NEW e \in Grants \cup {NONE} PROVE OnlyAt([grants EXCEPT ![u][w] = e], u, w)
  BY <1>1, <1>2 DEF OnlyAt
<1>3. OnlyAt(grants, u, w)
  BY <1>1 DEF OnlyAt
<1>4. OnlyAt(Granted(u, w, role), u, w)
  <2>1. CASE grants[u][w] = NONE
    <3>1. [role |-> role, revoked |-> FALSE, since |-> NextSince(u)] \in Grants
      BY NextSinceNat DEF Grants
    <3>2. Granted(u, w, role) = [grants EXCEPT ![u][w] = [role |-> role, revoked |-> FALSE, since |-> NextSince(u)]]
      BY <1>1, <2>1 DEF Granted
    <3> QED
      BY <1>2, <3>1, <3>2
  <2>2. CASE grants[u][w] # NONE
    <3>1. [grants[u][w] EXCEPT !.role = role, !.revoked = FALSE] \in Grants
      <4>1. grants[u][w] \in Grants
        BY <1>1, <2>2
      <4> QED
        BY <4>1 DEF Grants
    <3>2. Granted(u, w, role) = [grants EXCEPT ![u][w] = [grants[u][w] EXCEPT !.role = role, !.revoked = FALSE]]
      BY <1>1, <2>2 DEF Granted
    <3> QED
      BY <1>2, <3>1, <3>2
  <2> QED
    BY <2>1, <2>2
<1>5. CASE IsActiveGrant(u, w)
  <2>1. grants[u][w] \in Grants
    BY <1>1, <1>5 DEF IsActiveGrant, HasGrant
  <2>2. [grants[u][w] EXCEPT !.revoked = TRUE] \in Grants /\ [grants[u][w] EXCEPT !.role = role] \in Grants
    BY <2>1 DEF Grants
  <2>3. /\ Revoked(u, w) = [grants EXCEPT ![u][w] = [grants[u][w] EXCEPT !.revoked = TRUE]]
        /\ Reroled(u, w, role) = [grants EXCEPT ![u][w] = [grants[u][w] EXCEPT !.role = role]]
    BY <1>1, <1>5 DEF Revoked, Reroled
  <2> QED
    BY <1>2, <1>4, <2>2, <2>3
<1>6. CASE ~IsActiveGrant(u, w)
  BY <1>3, <1>4, <1>6 DEF Revoked, Reroled
<1> QED
  BY <1>5, <1>6

LEMMA WriteStep ==
    ASSUME TypeInv, NEW c \in Calls, pc[c] \in {"upsert", "revoke", "setRole"}, NEW gs, Write(c, gs),
           gs = grants \/ (OnlyAt(gs, request[c].user, request[c].workspace) /\ InTenant(request[c], context[c]))
    PROVE  TypeInv' /\ StepOf(c)
<1> USE DEF cacheVars, locals
<1> DEFINE u == request[c].user
<1>1. /\ CallOK(c) /\ IsMutation(c) /\ u \in Users /\ pc[c] # "idle" /\ pc[c] \in HandlerSteps
      /\ request[c].workspace \in Workspaces
  BY Begun DEF TypeInv, CallOK, HandlerSteps
<1>2. /\ version[u] < MaxVersion /\ grants' = gs
      /\ version' = [version EXCEPT ![u] = @ + 1]
      /\ wrote' = [wrote EXCEPT ![c] = version[u] + 1]
      /\ Goto(c, "invalidate")
      /\ UNCHANGED <<cacheVars, workspaces, profiles, faults, locals, found, context, filled>>
  BY DEF Write
<1> HIDE DEF u
<1>3. version[u] + 1 \in Versions /\ version[u] + 1 \in 0..MaxVersion
  BY <1>1, <1>2, Assumptions DEF TypeInv, CallsTyped, Versions
<1>4. /\ version' \in [Users -> Versions] /\ wrote' \in [Calls -> 0..MaxVersion] /\ wrote'[c] = version[u] + 1
      /\ \A d \in Calls : d # c => wrote'[d] = wrote[d]
  BY <1>1, <1>2, <1>3 DEF TypeInv, CallsTyped
<1>5. /\ pc' \in [Calls -> Steps \cup {"idle", "done"}] /\ reply' = reply
      /\ pc'[c] = "invalidate" /\ \A d \in Calls : d # c => pc'[d] = pc[d]
  BY <1>2, PcAfter DEF Steps
<1>6. /\ grants' \in [Users -> [Workspaces -> Grants \cup {NONE}]]
      /\ \A v \in Users, w \in Workspaces :
            grants'[v][w] # grants[v][w] => v = u /\ w = request[c].workspace /\ InTenant(request[c], context[c])
  BY <1>2 DEF OnlyAt, TypeInv, StoreOK, u
<1>7. CallsTyped' /\ StoreOK' /\ CacheTyped'
  BY <1>2, <1>4, <1>5, <1>6 DEF TypeInv, CallsTyped, StoreOK, CacheTyped
<1>8. CallOK(c)'
  BY <1>1, <1>2, <1>5 DEF CallOK, EntrySteps, HandlerSteps, IsMutation
<1>9. OthersStay(c)
  BY <1>2, <1>4, <1>5 DEF OthersStay
<1>10. Writes(c)
  BY <1>1, <1>2, <1>4, <1>5, <1>6 DEF Writes, u
<1> QED
  BY <1>7, <1>8, <1>9, <1>10, OtherCalls DEF TypeInv, StepOf

LEMMA HandlerStep ==
    ASSUME TypeInv, NEW c \in Calls, Upsert(c) \/ RevokeGrant(c) \/ SetRole(c)
    PROVE  TypeInv' /\ StepOf(c)
<1> USE DEF At
<1>1. /\ pc[c] \in {"upsert", "revoke", "setRole"} /\ pc[c] \in Steps /\ CallOK(c)
      /\ pc[c] = "upsert" => InTenant(request[c], context[c])
  BY DEF Upsert, RevokeGrant, SetRole, TypeInv, CallOK, Steps
<1>2. ASSUME Return(c, Failed),
             UNCHANGED <<cacheVars, storeVars, faults, locals, found, context, version, wrote, filled>>
      PROVE  TypeInv' /\ StepOf(c)
  <2>1. faults' \in 0..MaxFaults
    BY <1>2 DEF TypeInv, CallsTyped
  <2> QED
    BY <1>1, <1>2, <2>1, EndsBadly
<1>3. PICK u \in Users, w \in Workspaces : u = request[c].user /\ w = request[c].workspace
  BY <1>1, Begun DEF CallOK, HandlerSteps
<1>4. CASE RevokeGrant(c)
  <2>1. OnlyAt(Revoked(u, w), u, w)
    BY WrittenGrants DEF Roles
  <2> QED
    BY <1>1, <1>3, <1>4, <2>1, WriteStep DEF RevokeGrant
<1>5. ASSUME pc[c] \in {"upsert", "setRole"} PROVE request[c].role \in Roles
  BY <1>1, <1>5, Begun, RequestFields DEF CallOK
<1>6. CASE Upsert(c)
  <2>1. CASE Write(c, Granted(u, w, request[c].role)) /\ pc[c] = "upsert"
    <3>1. OnlyAt(Granted(u, w, request[c].role), u, w)
      BY <1>5, <2>1, WrittenGrants
    <3> QED
      BY <1>1, <1>3, <2>1, <3>1, WriteStep
  <2> QED
    BY <1>2, <1>3, <1>6, <2>1 DEF Upsert
<1>7. CASE SetRole(c)
  <2>1. CASE Write(c, Reroled(u, w, request[c].role)) /\ pc[c] = "setRole" /\ InTenant(request[c], context[c])
    <3>1. OnlyAt(Reroled(u, w, request[c].role), u, w)
      BY <1>5, <2>1, WrittenGrants
    <3> QED
      BY <1>1, <1>3, <2>1, <3>1, WriteStep
  <2> QED
    BY <1>2, <1>3, <1>7, <2>1 DEF SetRole
<1> QED
  BY <1>4, <1>6, <1>7

LEMMA InvalidateStep == ASSUME TypeInv, NEW c \in Calls, Invalidate(c) PROVE TypeInv' /\ StepOf(c)
<1> USE DEF At, storeVars, locals
<1>1. /\ pc[c] = "invalidate" /\ Return(c, Done) /\ IsMutation(c) /\ CallOK(c)
      /\ UNCHANGED <<now, storeVars, faults, locals, found, context, version, wrote, filled>>
  BY DEF Invalidate, TypeInv, CallOK
<1>2. PICK u \in Users : u = request[c].user /\ cache' = [cache EXCEPT ![u] = NULL]
  BY <1>1, Begun DEF Invalidate, InvalidateUser, Delete
<1>3. CacheTyped' /\ cache'[u] = NULL /\ \A v \in Users : Keeps(v)
  BY <1>1, <1>2 DEF TypeInv, CacheTyped, Keeps
<1>4. /\ pc' \in [Calls -> Steps \cup {"idle", "done"}] /\ reply' \in [Calls -> Replies \cup {NULL}]
      /\ pc'[c] = "done" /\ \A d \in Calls : d # c => pc'[d] = pc[d] /\ reply'[d] = reply[d]
  BY <1>1, PcAfter, RepliesDiffer
<1>5. CallsTyped' /\ StoreOK'
  BY <1>1, <1>4 DEF TypeInv, CallsTyped, StoreOK
<1>6. CallOK(c)'
  BY <1>1, <1>4 DEF CallOK, EntrySteps, HandlerSteps
<1>7. OthersStay(c)
  BY <1>1, <1>4 DEF OthersStay
<1>8. Ends(c)
  BY <1>1, <1>2, <1>3, <1>4 DEF Ends
<1> QED
  BY <1>3, <1>5, <1>6, <1>7, <1>8, OtherCalls DEF TypeInv, StepOf

LEMMA OutsideStep ==
    ASSUME TypeInv, Housekeeping \/ Tick \/ UNCHANGED vars
    PROVE  TypeInv' /\ Outside
<1> USE DEF storeVars, locals
<1>1. /\ UNCHANGED <<storeVars, faults, pc, locals, found, context, reply, version, wrote, filled>>
      /\ CacheTyped' /\ \A u \in Users : Keeps(u)
  <2>1. CASE Housekeeping
    BY <2>1, DropKeeps DEF Housekeeping, TypeInv
  <2>2. CASE Tick
    BY <2>2, Assumptions DEF Tick, Advance, TypeInv, CacheTyped, Keeps
  <2>3. CASE UNCHANGED vars
    BY <2>3 DEF vars, cacheVars, TypeInv, CacheTyped, Keeps
  <2> QED
    BY <2>1, <2>2, <2>3
<1>2. CallsTyped' /\ StoreOK'
  BY <1>1 DEF TypeInv, CallsTyped, StoreOK
<1>3. \A c \in Calls : CallOK(c)'
  BY <1>1 DEF TypeInv, CallOK, Actor, IsMutation, InTenant
<1> QED
  BY <1>1, <1>2, <1>3 DEF TypeInv, Outside

LEMMA NextStep ==
    ASSUME TypeInv, [Next]_vars
    PROVE  TypeInv' /\ (Outside \/ \E c \in Calls : StepOf(c))
<1>1. ASSUME NEW c \in Calls, (\E r \in Requests : Begin(c, r)) \/ Progress(c) \/ DatabaseError(c)
      PROVE  TypeInv' /\ StepOf(c)
  BY <1>1, BeginStep, FindProfileStep, FillStep, SaveProfileStep, FindWorkspaceStep, HandlerStep, InvalidateStep, ErrorStep
     DEF Progress
<1>2. CASE Housekeeping \/ Tick \/ AllReturned \/ UNCHANGED vars
  BY <1>2, OutsideStep DEF AllReturned
<1> QED
  BY <1>1, <1>2 DEF Next

\* Tables, cache and calls are well typed, a call holds a mapping that was
\* read, and its handler runs under the context of an admin.
THEOREM TypeCorrect == Spec => []TypeInv
<1>1. Init => TypeInv
  BY InitTypeInv
<1>2. TypeInv /\ [Next]_vars => TypeInv'
  BY NextStep
<1> QED
  BY <1>1, <1>2, PTL DEF Spec

\* However grants and workspaces are spread over tenants, no context carries a
\* role above the one that its workspace gives, though the two are looked up
\* apart.
THEOREM NoRoleExceeds == Spec => []RoleNeverExceeds
<1>1. TypeInv => RoleNeverExceeds
  BY DEF TypeInv, CallOK, ContextOK, RoleNeverExceeds
<1> QED
  BY <1>1, TypeCorrect, PTL

\* Grants are changed only by somebody who was an admin in their tenant when
\* his own grants were read.
THEOREM OnlyTenantAdminsManage == Spec => ManagedByTenantAdmin
<1>1. TypeInv /\ [Next]_vars =>
         [\A u \in Users, w \in Workspaces :
            grants'[u][w] # grants[u][w] =>
               \E c \in Calls :
                  /\ pc[c] \in {"upsert", "revoke", "setRole"}
                  /\ request[c].user = u /\ request[c].workspace = w
                  /\ \E v \in InRole(found[c], "admin") : TenantOf[v] = TenantOf[w]]_vars
  <2> SUFFICES ASSUME TypeInv, [Next]_vars, NEW u \in Users, NEW w \in Workspaces, grants'[u][w] # grants[u][w]
               PROVE  \E c \in Calls :
                         /\ pc[c] \in {"upsert", "revoke", "setRole"}
                         /\ request[c].user = u /\ request[c].workspace = w
                         /\ \E v \in InRole(found[c], "admin") : TenantOf[v] = TenantOf[w]
    OBVIOUS
  <2>1. PICK c \in Calls : Writes(c)
    BY NextStep DEF Outside, StepOf, Begins, Reads, Fills, Moves, Ends
  <2>2. /\ pc[c] \in {"upsert", "revoke", "setRole"} /\ request[c].user = u /\ request[c].workspace = w
        /\ TenantOf[w] = TenantOf[context[c].workspace]
    BY <2>1 DEF Writes, InTenant
  <2>3. /\ found[c] \in Mappings /\ IsUsable(found[c]) /\ Actor(c) \in Users
        /\ context[c] = ContextOf(Actor(c), found[c]) /\ context[c].role = "admin"
    BY <2>2, Begun DEF TypeInv, CallOK, HandlerSteps
  <2>4. context[c].workspace \in InRole(found[c], "admin")
    BY <2>3, ContextGood
  <2> QED
    BY <2>2, <2>4
<1> QED
  BY <1>1, TypeCorrect, PTL DEF Spec, ManagedByTenantAdmin

-----------------------------------------------------------------------------
(* How old a mapping can be.                                               *)

\* The calls that had returned when another began have returned, and it is
\* none of them.
History(c) == \A d \in before[c] : pc[d] = "done" /\ d # c

\* What a mutation has written is counted.
WrittenSeen(m) ==
    /\ pc[m] = "idle" => wrote[m] = 0
    /\ pc[m] # "idle" /\ IsMutation(m) => wrote[m] <= version[request[m].user]

\* The answered mutations of a user's grants that a mapping is older than.
Missed(u, v, m) ==
    pc[m] = "done" /\ IsMutation(m) /\ reply[m] = Done /\ request[m].user = u /\ v < wrote[m]

\* Who has read the grants has seen what was answered before he began.
ReadNew(c) ==
    pc[c] = "fill" => \A m \in before[c] : ~Missed(Actor(c), found[c].version, m)

\* Another call than the mutation overlapped it.
Raced(d, m) == d # m /\ Overlap(d, m)

\* A cached mapping was read and cached by some call, that overlapped every
\* answered mutation it is older than, and expires a lifetime after.
From(d, u, mapping) == pc[d] \notin EntrySteps /\ found[d] = mapping /\ Actor(d) = u /\ filled[d] # NULL

EntryOK(u) ==
    cache[u] # NULL =>
        \E d \in Calls :
            /\ From(d, u, cache[u].value) /\ cache[u].expiresAt <= filled[d] + TTL
            /\ \A m \in Calls : Missed(u, cache[u].value.version, m) => Raced(d, m)

\* The condition of ContextFresh for one call.
FreshOf(c) ==
    found[c] # NULL =>
        \A m \in before[c] : Missed(Actor(c), found[c].version, m) =>
            \E d \in Calls \ {c} : /\ From(d, Actor(c), found[c]) /\ Raced(d, m)
                                   /\ began[c] <= filled[d] + TTL

FreshInv ==
    /\ TypeInv
    /\ \A c \in Calls : History(c) /\ WrittenSeen(c) /\ ReadNew(c) /\ FreshOf(c)
    /\ \A u \in Users : EntryOK(u)

\* What a call knows once it is past the entry is fixed, a call that has begun
\* keeps its request, and one that has returned takes no step.
Settled(c) ==
    /\ \A d \in Calls : pc[d] = "done" => d # c
    /\ \A d \in Calls : pc[d] # "idle" =>
          /\ pc'[d] # "idle"
          /\ request'[d] = request[d] /\ before'[d] = before[d] /\ began'[d] = began[d]
    /\ \A d \in Calls : pc[d] \notin EntrySteps =>
          pc'[d] \notin EntrySteps /\ found'[d] = found[d] /\ filled'[d] = filled[d]

LEMMA SettledStep == ASSUME TypeInv, NEW c \in Calls, StepOf(c) PROVE Settled(c)
BY DEF StepOf, OthersStay, Begins, Reads, Fills, Moves, Writes, Ends, Settled, EntrySteps, Steps

\* An answered mutation was one before, unless the step is its answer.
LEMMA MissedBefore ==
    ASSUME TypeInv, NEW c \in Calls, StepOf(c), NEW m \in Calls,
           pc'[m] = "done", request'[m].op # "read", reply'[m] = Done
    PROVE  \/ /\ m # c /\ pc[m] = "done" /\ request'[m] = request[m] /\ reply[m] = Done
              /\ wrote'[m] = wrote[m] /\ before'[m] = before[m]
           \/ m = c /\ Ends(c)
<1>1. CASE m # c
  BY <1>1 DEF StepOf, OthersStay
<1>2. CASE m = c
  BY <1>2 DEF StepOf, Begins, Reads, Fills, Moves, Writes, IsMutation
<1> QED
  BY <1>1, <1>2

LEMMA HistoryStep == ASSUME FreshInv, NEW c \in Calls, StepOf(c) PROVE \A e \in Calls : History(e)'
<1> SUFFICES ASSUME NEW e \in Calls PROVE History(e)'
  OBVIOUS
<1>1. Settled(c) /\ History(e) /\ OthersStay(c) /\ before \in [Calls -> SUBSET Calls]
  BY SettledStep DEF FreshInv, StepOf, TypeInv, CallsTyped
<1>2. CASE pc[e] # "idle"
  BY <1>1, <1>2 DEF History, Settled, OthersStay
<1>3. CASE pc[e] = "idle" /\ e # c
  BY <1>1, <1>3 DEF History, OthersStay, Settled
<1>4. CASE pc[e] = "idle" /\ e = c
  <2>1. Begins(c)
    BY <1>4 DEF StepOf, Reads, Fills, Moves, Writes, Ends, Steps
  <2> QED
    BY <1>1, <1>4, <2>1 DEF Begins, History, OthersStay
<1> QED
  BY <1>2, <1>3, <1>4

LEMMA WrittenStep == ASSUME FreshInv, NEW c \in Calls, StepOf(c) PROVE \A m \in Calls : WrittenSeen(m)'
<1> SUFFICES ASSUME NEW m \in Calls PROVE WrittenSeen(m)'
  OBVIOUS
<1>1. /\ WrittenSeen(m) /\ Settled(c) /\ OthersStay(c)
      /\ version \in [Users -> Versions] /\ \A u \in Users : version[u] \in Nat /\ version[u] >= 1
      /\ wrote[m] \in Nat
  BY SettledStep, Assumptions DEF FreshInv, StepOf, TypeInv, CallsTyped, Versions
<1>2. \A u \in Users : version'[u] \in Nat /\ version'[u] >= version[u]
  <2>1. CASE Writes(c)
    <3>1. request[c].user \in Users
      BY <2>1, Begun DEF Writes, FreshInv
    <3> QED
      BY <1>1, <2>1, <3>1 DEF Writes
  <2>2. CASE ~Writes(c)
    BY <1>1, <2>2 DEF StepOf, Begins, Reads, Fills, Moves, Ends
  <2> QED
    BY <2>1, <2>2
<1>3. CASE m # c /\ pc[m] = "idle"
  BY <1>1, <1>3 DEF WrittenSeen, OthersStay
<1>4. CASE m # c /\ pc[m] # "idle"
  <2>1. IsMutation(m) => request[m].user \in Users
    BY <1>4, Begun DEF FreshInv
  <2> QED
    BY <1>1, <1>2, <1>4, <2>1 DEF WrittenSeen, OthersStay, IsMutation
<1>5. CASE m = c /\ Begins(c)
  <2>1. PICK r \in Requests : r = request'[c]
    BY <1>5 DEF Begins
  <2>2. r.op # "read" => r.user \in Users
    BY RequestFields
  <2>3. wrote'[m] = 0 /\ pc'[m] # "idle"
    BY <1>1, <1>5 DEF Begins, WrittenSeen
  <2> QED
    BY <1>1, <1>2, <1>5, <2>1, <2>2, <2>3 DEF WrittenSeen, IsMutation
<1>6. CASE m = c /\ Writes(c)
  <2>1. /\ wrote'[m] = version[request[m].user] + 1 /\ request'[m] = request[m] /\ pc'[m] # "idle"
        /\ version' = [version EXCEPT ![request[m].user] = @ + 1] /\ request[m].user \in Users
    BY <1>6, Begun DEF Writes, FreshInv
  <2> QED
    BY <1>1, <2>1 DEF WrittenSeen
<1>7. CASE m = c /\ ~Begins(c) /\ ~Writes(c)
  <2>1. /\ wrote'[m] = wrote[m] /\ version' = version /\ request'[m] = request[m] /\ pc'[m] # "idle" /\ pc[m] # "idle"
    BY <1>7 DEF StepOf, Reads, Fills, Moves, Ends, EntrySteps, Steps
  <2> QED
    BY <1>1, <2>1 DEF WrittenSeen, IsMutation
<1> QED
  BY <1>3, <1>4, <1>5, <1>6, <1>7

LEMMA ReadNewStep == ASSUME FreshInv, NEW c \in Calls, StepOf(c) PROVE \A e \in Calls : ReadNew(e)'
<1> SUFFICES ASSUME NEW e \in Calls, pc'[e] = "fill", NEW m \in before'[e],
                    pc'[m] = "done", request'[m].op # "read", reply'[m] = Done,
                    request'[m].user = request'[e].actor, found'[e].version < wrote'[m]
             PROVE  FALSE
  BY DEF ReadNew, Missed, IsMutation, Actor
<1>1. /\ TypeInv /\ Settled(c) /\ History(e) /\ ReadNew(e) /\ OthersStay(c) /\ before[e] \subseteq Calls
  BY SettledStep DEF FreshInv, StepOf, TypeInv, CallsTyped
<1>2. pc[e] # "idle"
  BY <1>1 DEF OthersStay, StepOf, Begins, Reads, Fills, Moves, Writes, Ends, Steps
<1>3. m \in before[e] /\ m \in Calls /\ pc[m] = "done" /\ request'[e] = request[e]
  BY <1>1, <1>2 DEF Settled, History
<1>4. /\ m # c /\ request'[m] = request[m] /\ reply'[m] = reply[m] /\ wrote'[m] = wrote[m]
  BY <1>1, <1>3 DEF Settled, OthersStay
<1>5. CASE e # c
  <2>1. pc[e] = "fill" /\ found'[e] = found[e]
    BY <1>1, <1>5 DEF OthersStay
  <2> QED
    BY <1>1, <1>3, <1>4, <2>1 DEF ReadNew, Missed, IsMutation, Actor
<1>6. CASE e = c
  <2>1. Reads(c)
    BY <1>6 DEF StepOf, Begins, Fills, Moves, Writes, Ends, EntrySteps
  <2>2. found'[e].version = version[request[e].actor] /\ wrote[m] <= version[request[m].user]
    BY <1>3, <1>4, <1>6, <2>1 DEF Reads, FreshInv, WrittenSeen, IsMutation, Actor
  <2>3. request[e].actor \in Users /\ version \in [Users -> Versions] /\ wrote[m] \in Nat
    BY <1>1, <1>2, <1>3, Begun, Assumptions DEF TypeInv, CallsTyped, Actor
  <2>4. version[request[e].actor] \in Nat
    BY <2>3, Assumptions DEF Versions
  <2> QED
    BY <1>3, <1>4, <2>2, <2>3, <2>4
<1> QED
  BY <1>5, <1>6


\* A mapping's reader stays its reader.
LEMMA FromStays ==
    ASSUME NEW c \in Calls, Settled(c), NEW d \in Calls, NEW u, NEW mapping, From(d, u, mapping)
    PROVE  From(d, u, mapping)' /\ filled'[d] = filled[d] /\ before'[d] = before[d] /\ pc[d] \notin EntrySteps
BY DEF From, Settled, Actor, EntrySteps

\* The entry of a user that the step neither fills nor answers a write of.
LEMMA EntryStays ==
    ASSUME FreshInv, NEW c \in Calls, StepOf(c), NEW u \in Users, Keeps(u), Ends(c) => u # request[c].user
    PROVE  EntryOK(u)'
<1> SUFFICES ASSUME cache'[u] # NULL PROVE EntryOK(u)'
  BY DEF EntryOK
<1>1. /\ TypeInv /\ Settled(c) /\ EntryOK(u)
      /\ cache[u] # NULL /\ cache'[u].value = cache[u].value /\ cache'[u].expiresAt = cache[u].expiresAt
  BY SettledStep DEF FreshInv, Keeps
<1>2. PICK mapping, expiresAt : mapping = cache[u].value /\ expiresAt = cache[u].expiresAt
  OBVIOUS
<1>3. PICK d \in Calls :
            /\ From(d, u, mapping) /\ expiresAt <= filled[d] + TTL
            /\ \A m \in Calls : Missed(u, mapping.version, m) => Raced(d, m)
  BY <1>1, <1>2 DEF EntryOK
<1>4. From(d, u, mapping)' /\ filled'[d] = filled[d] /\ before'[d] = before[d]
  BY <1>1, <1>3, FromStays
<1>5. ASSUME NEW m \in Calls, Missed(u, mapping.version, m)' PROVE Raced(d, m)'
  <2>1. /\ pc'[m] = "done" /\ request'[m].op # "read" /\ reply'[m] = Done
        /\ request'[m].user = u /\ mapping.version < wrote'[m]
    BY <1>5 DEF Missed, IsMutation
  <2>2. CASE m = c /\ Ends(c)
    BY <2>1, <2>2 DEF Ends
  <2>3. CASE /\ m # c /\ pc[m] = "done" /\ request'[m] = request[m] /\ reply[m] = Done
             /\ wrote'[m] = wrote[m] /\ before'[m] = before[m]
    BY <1>3, <1>4, <2>1, <2>3 DEF Missed, IsMutation, Raced, Overlap
  <2> QED
    BY <1>1, <2>1, <2>2, <2>3, MissedBefore
<1>6. \A m \in Calls : Missed(u, mapping.version, m)' => Raced(d, m)'
  BY <1>5
<1> QED
  BY <1>1, <1>2, <1>3, <1>4, <1>6 DEF EntryOK

\* The entry that the step fills: a call that had read before a mutation was
\* answered overlapped that mutation.
LEMMA EntryFilled ==
    ASSUME FreshInv, NEW c \in Calls, StepOf(c), Fills(c)
    PROVE  \A u \in Users : EntryOK(u)'
<1>1. /\ TypeInv /\ Settled(c) /\ ReadNew(c) /\ History(c) /\ pc[c] = "fill" /\ Actor(c) \in Users
      /\ request'[c] = request[c] /\ found'[c] = found[c] /\ before' = before /\ filled'[c] = now /\ now \in Nat
  BY SettledStep, Begun, Assumptions DEF FreshInv, Fills, TypeInv, CacheTyped
<1>2. PICK u \in Users, mapping \in Mappings : u = Actor(c) /\ mapping = found[c]
  BY <1>1 DEF TypeInv, CallOK
<1>3. cache'[u].value = mapping /\ cache'[u].expiresAt <= now + TTL
  BY <1>2 DEF Fills
<1>4. From(c, u, mapping)'
  <2>1. now # NULL
    BY Assumptions, <1>1 DEF TypeInv, CacheTyped
  <2> QED
    BY <1>1, <1>2, <2>1 DEF From, Actor, Fills
<1>5. ASSUME NEW m \in Calls, Missed(u, mapping.version, m)' PROVE Raced(c, m)'
  <2>1. /\ pc'[m] = "done" /\ request'[m].op # "read" /\ reply'[m] = Done
        /\ request'[m].user = u /\ mapping.version < wrote'[m]
    BY <1>5 DEF Missed, IsMutation
  <2>2. /\ m # c /\ pc[m] = "done" /\ request'[m] = request[m] /\ reply[m] = Done /\ wrote'[m] = wrote[m]
    BY <1>1, <2>1, MissedBefore DEF Ends
  <2>3. m \notin before[c]
    BY <1>1, <1>2, <2>1, <2>2 DEF ReadNew, Missed, IsMutation
  <2>4. c \notin before[m]
    BY <1>1 DEF FreshInv, History
  <2> QED
    BY <1>1, <2>2, <2>3, <2>4 DEF Raced, Overlap
<1>6. \A m \in Calls : Missed(u, mapping.version, m)' => Raced(c, m)'
  BY <1>5
<1>7. EntryOK(u)'
  BY <1>1, <1>3, <1>4, <1>6 DEF EntryOK
<1>8. \A v \in Users \ {u} : EntryOK(v)'
  BY <1>2, EntryStays DEF Fills, Ends
<1> QED
  BY <1>7, <1>8

LEMMA EntryStep == ASSUME FreshInv, NEW c \in Calls, StepOf(c) PROVE \A u \in Users : EntryOK(u)'
<1>1. CASE Fills(c)
  BY <1>1, EntryFilled
<1>2. CASE ~Fills(c)
  <2> SUFFICES ASSUME NEW u \in Users PROVE EntryOK(u)'
    OBVIOUS
  <2>1. Keeps(u)
    BY <1>2 DEF StepOf, Begins, Reads, Moves, Writes, Ends, Keeps
  <2>2. CASE Ends(c) /\ u = request[c].user
    BY <2>2 DEF Ends, EntryOK
  <2>3. CASE Ends(c) => u # request[c].user
    BY <2>1, <2>3, EntryStays
  <2> QED
    BY <2>2, <2>3
<1> QED
  BY <1>1, <1>2

\* A context that no step of its call concerns keeps its excuse.
LEMMA FreshStays ==
    ASSUME FreshInv, NEW c \in Calls, StepOf(c), NEW e \in Calls,
           pc[e] # "idle", found'[e] = found[e]
    PROVE  FreshOf(e)'
<1> SUFFICES ASSUME found'[e] # NULL, NEW m \in before'[e], Missed(Actor(e), found[e].version, m)'
             PROVE  \E d \in Calls \ {e} : /\ From(d, Actor(e), found[e])' /\ Raced(d, m)'
                                           /\ began'[e] <= filled'[d] + TTL
  BY DEF FreshOf
<1>1. /\ TypeInv /\ Settled(c) /\ History(e) /\ FreshOf(e) /\ before[e] \subseteq Calls
      /\ before'[e] = before[e] /\ request'[e] = request[e] /\ began'[e] = began[e]
  BY SettledStep DEF FreshInv, Settled, TypeInv, CallsTyped
<1>2. m \in before[e] /\ m \in Calls /\ pc[m] = "done" /\ m # c
  BY <1>1 DEF History, Settled
<1>3. PICK u, mapping : u = Actor(e) /\ mapping = found[e]
  OBVIOUS
<1>4. /\ request'[m] = request[m] /\ reply'[m] = reply[m] /\ wrote'[m] = wrote[m] /\ before'[m] = before[m]
      /\ pc'[m] = "done" /\ request'[m].op # "read" /\ reply'[m] = Done
      /\ request'[m].user = u /\ mapping.version < wrote'[m]
  BY <1>1, <1>2, <1>3 DEF StepOf, OthersStay, Missed, IsMutation, Actor
<1>5. Missed(u, mapping.version, m)
  BY <1>2, <1>4 DEF Missed, IsMutation
<1>6. PICK d \in Calls \ {e} : From(d, u, mapping) /\ Raced(d, m) /\ began[e] <= filled[d] + TTL
  BY <1>1, <1>2, <1>3, <1>5 DEF FreshOf
<1>7. From(d, u, mapping)' /\ filled'[d] = filled[d] /\ before'[d] = before[d]
  BY <1>1, <1>6, FromStays
<1>8. Raced(d, m)' /\ began'[e] <= filled'[d] + TTL
  BY <1>1, <1>4, <1>6, <1>7 DEF Raced, Overlap
<1> QED
  BY <1>1, <1>3, <1>6, <1>7, <1>8 DEF From, Actor

\* Who takes a cached mapping that misses an answered mutation takes over the
\* excuse of the entry, and begins before the entry has expired.
LEMMA FreshAtBegin == ASSUME FreshInv, NEW c \in Calls, StepOf(c), Begins(c) PROVE FreshOf(c)'
<1> SUFFICES ASSUME found'[c] # NULL, NEW m \in before'[c], Missed(Actor(c), found[c].version, m)'
             PROVE  \E d \in Calls \ {c} : /\ From(d, Actor(c), found[c])' /\ Raced(d, m)'
                                           /\ began'[c] <= filled'[d] + TTL
  BY DEF FreshOf
<1>1. /\ TypeInv /\ Settled(c) /\ pc[c] = "idle" /\ began'[c] = now /\ now \in Nat /\ TTL \in Nat
      /\ before'[c] = {d \in Calls : pc[d] = "done"}
  BY SettledStep, Assumptions DEF FreshInv, Begins, TypeInv, CacheTyped
<1>2. m \in Calls /\ pc[m] = "done" /\ m # c
  BY <1>1
<1>3. PICK r \in Requests : r = request'[c]
  BY DEF Begins
<1>4. PICK u \in Users : u = r.actor
  BY RequestFields
<1>5. Fresh(u) /\ found'[c] = cache[u].value
  BY <1>3, <1>4 DEF Begins
<1>6. PICK mapping, expiresAt : mapping = cache[u].value /\ expiresAt = cache[u].expiresAt
  OBVIOUS
<1>7. PICK d \in Calls :
            /\ From(d, u, mapping) /\ expiresAt <= filled[d] + TTL
            /\ \A n \in Calls : Missed(u, mapping.version, n) => Raced(d, n)
  BY <1>5, <1>6 DEF EntryOK, FreshInv, Fresh
<1>8. /\ request'[m] = request[m] /\ reply'[m] = reply[m] /\ wrote'[m] = wrote[m] /\ before'[m] = before[m]
      /\ pc'[m] = "done" /\ request'[m].op # "read" /\ reply'[m] = Done
      /\ request'[m].user = u /\ mapping.version < wrote'[m]
  BY <1>2, <1>3, <1>4, <1>5, <1>6 DEF StepOf, OthersStay, Missed, IsMutation, Actor
<1>9. Raced(d, m)
  BY <1>2, <1>7, <1>8 DEF Missed, IsMutation
<1>10. From(d, u, mapping)' /\ filled'[d] = filled[d] /\ before'[d] = before[d] /\ d # c
  BY <1>1, <1>7, FromStays DEF EntrySteps
<1>11. now <= filled[d] + TTL
  <2>1. cache[u] \in Entries
    BY <1>1, <1>5 DEF TypeInv, CacheTyped, Fresh
  <2>2. now <= expiresAt /\ expiresAt \in Nat
    BY <1>5, <1>6, <2>1 DEF Fresh, Entries
  <2>3. filled[d] \in Nat
    BY <1>1, <1>7, Assumptions DEF From, TypeInv, CallsTyped
  <2> QED
    BY <1>1, <1>7, <2>2, <2>3
<1>12. Raced(d, m)' /\ began'[c] <= filled'[d] + TTL
  BY <1>1, <1>8, <1>9, <1>10, <1>11 DEF Raced, Overlap
<1> QED
  BY <1>3, <1>4, <1>5, <1>6, <1>10, <1>12 DEF From, Actor

\* Who reads the grants misses nothing that was answered before he began.
LEMMA FreshAtRead == ASSUME FreshInv, NEW c \in Calls, StepOf(c), Reads(c) PROVE FreshOf(c)'
<1> SUFFICES ASSUME NEW m \in before'[c], Missed(Actor(c), found[c].version, m)' PROVE FALSE
  BY DEF FreshOf
<1>1. ReadNew(c)' /\ pc'[c] = "fill"
  BY ReadNewStep DEF Reads
<1> QED
  BY <1>1 DEF ReadNew

LEMMA FreshStep == ASSUME FreshInv, NEW c \in Calls, StepOf(c) PROVE \A e \in Calls : FreshOf(e)'
<1> SUFFICES ASSUME NEW e \in Calls PROVE FreshOf(e)'
  OBVIOUS
<1>1. CASE e = c /\ Begins(c)
  BY <1>1, FreshAtBegin
<1>2. CASE e = c /\ Reads(c)
  BY <1>2, FreshAtRead
<1>3. CASE e = c /\ ~Begins(c) /\ ~Reads(c)
  <2>1. pc[e] # "idle" /\ found'[e] = found[e]
    BY <1>3 DEF StepOf, Fills, Moves, Writes, Ends, Steps
  <2> QED
    BY <2>1, FreshStays
<1>4. CASE e # c /\ pc[e] # "idle"
  BY <1>4, FreshStays DEF StepOf, OthersStay
<1>5. CASE e # c /\ pc[e] = "idle"
  <2>1. found'[e] = NULL
    BY <1>5 DEF StepOf, OthersStay, FreshInv, TypeInv, CallOK
  <2> QED
    BY <2>1 DEF FreshOf
<1> QED
  BY <1>1, <1>2, <1>3, <1>4, <1>5

\* The clock, the cleaner and a clear leave the calls alone and only drop
\* entries.
LEMMA FreshOutside == ASSUME FreshInv, TypeInv', Outside PROVE FreshInv'
<1>1. \A c \in Calls : (History(c) /\ WrittenSeen(c) /\ ReadNew(c) /\ FreshOf(c))'
  <2> SUFFICES ASSUME NEW c \in Calls PROVE (History(c) /\ WrittenSeen(c) /\ ReadNew(c) /\ FreshOf(c))'
    OBVIOUS
  <2>1. History(c)' /\ WrittenSeen(c)'
    BY DEF FreshInv, Outside, History, WrittenSeen, IsMutation
  <2>2. ReadNew(c)' /\ FreshOf(c)'
    BY DEF FreshInv, Outside, ReadNew, FreshOf, Missed, IsMutation, Actor, From, Raced, Overlap
  <2> QED
    BY <2>1, <2>2
<1>2. \A u \in Users : EntryOK(u)'
  <2> SUFFICES ASSUME NEW u \in Users, cache'[u] # NULL PROVE EntryOK(u)'
    BY DEF EntryOK
  <2>1. cache[u] # NULL /\ cache'[u].value = cache[u].value /\ cache'[u].expiresAt = cache[u].expiresAt
    BY DEF Outside, Keeps
  <2> QED
    BY <2>1 DEF FreshInv, Outside, EntryOK, Missed, IsMutation, Actor, From, Raced, Overlap
<1> QED
  BY <1>1, <1>2 DEF FreshInv

LEMMA InitFresh == Init => FreshInv
<1> SUFFICES ASSUME Init PROVE FreshInv
  OBVIOUS
<1>1. \A c \in Calls : History(c) /\ WrittenSeen(c) /\ ReadNew(c) /\ FreshOf(c)
  BY DEF Init, History, WrittenSeen, ReadNew, FreshOf
<1>2. \A u \in Users : EntryOK(u)
  BY Assumptions DEF Init, CacheInit, EntryOK
<1> QED
  BY <1>1, <1>2, InitTypeInv DEF FreshInv

LEMMA NextFresh == ASSUME FreshInv, [Next]_vars PROVE FreshInv'
<1>1. TypeInv' /\ (Outside \/ \E c \in Calls : StepOf(c))
  BY NextStep DEF FreshInv
<1>2. CASE Outside
  BY <1>1, <1>2, FreshOutside
<1>3. ASSUME NEW c \in Calls, StepOf(c) PROVE FreshInv'
  BY <1>1, <1>3, HistoryStep, WrittenStep, ReadNewStep, EntryStep, FreshStep DEF FreshInv
<1> QED
  BY <1>1, <1>2, <1>3

\* A context misses an answered change of the user's grants only if a lookup
\* that overlapped the change cached what it had read before it, no longer
\* than one lifetime ago.
THEOREM StaleOnlyByOverlap == Spec => []ContextFresh
<1>1. FreshInv => ContextFresh
  <2> SUFFICES ASSUME FreshInv, NEW c \in Calls, found[c] # NULL, NEW m \in before[c],
                      IsMutation(m), reply[m] = Done, request[m].user = Actor(c), found[c].version < wrote[m]
               PROVE  \E d \in Calls \ {c, m} :
                         /\ found[d] = found[c] /\ Actor(d) = Actor(c)
                         /\ Overlap(d, m)
                         /\ filled[d] # NULL /\ began[c] <= filled[d] + TTL
    BY DEF ContextFresh
  <2>1. Missed(Actor(c), found[c].version, m)
    BY DEF FreshInv, History, Missed
  <2> QED
    BY <2>1 DEF FreshInv, FreshOf, From, Raced
<1> QED
  BY <1>1, InitFresh, NextFresh, PTL DEF Spec

=============================================================================
