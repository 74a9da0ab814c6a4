----------------------------- MODULE AccessStore -----------------------------
(***************************************************************************)
(* The tables behind access control: workspace, user_profile and           *)
(* user_workspace_access, as their writers change them.                    *)
(***************************************************************************)
EXTENDS Integers, FiniteSets

CONSTANTS
    Users,
    Workspaces,
    TenantOf,   \* the tenant of each workspace
    NONE

Roles == {"viewer", "editor", "admin"}

Rank(role) == CASE role = "viewer" -> 0 [] role = "editor" -> 1 [] role = "admin" -> 2

\* since is the order of grantedAt among the grants of one user.
Grants == [role : Roles, revoked : BOOLEAN, since : Nat \ {0}]

ASSUME StoreAssumption ==
    /\ IsFiniteSet(Users) /\ IsFiniteSet(Workspaces)
    /\ DOMAIN TenantOf = Workspaces
    /\ \A role \in Roles : NONE # role
    /\ NONE \notin Grants

VARIABLES
    workspaces,   \* the rows of workspace
    profiles,     \* the users with a row in user_profile
    grants        \* [Users -> [Workspaces -> Grants or NONE]]

storeVars == <<workspaces, profiles, grants>>

StoreOK ==
    /\ workspaces \subseteq Workspaces
    /\ profiles \subseteq Users
    /\ grants \in [Users -> [Workspaces -> Grants \cup {NONE}]]

HasGrant(u, w) == grants[u][w] # NONE
IsActiveGrant(u, w) == HasGrant(u, w) /\ ~grants[u][w].revoked

NextSince(u) ==
    LET used == {0} \cup {grants[u][w].since : w \in {v \in Workspaces : HasGrant(u, v)}}
    IN 1 + CHOOSE n \in used : \A m \in used : m <= n

\* userWorkspaceAccess.upsert: a revoked grant is revived in its old place.
Granted(u, w, role) ==
    [grants EXCEPT ![u][w] =
        IF @ = NONE THEN [role |-> role, revoked |-> FALSE, since |-> NextSince(u)]
                    ELSE [@ EXCEPT !.role = role, !.revoked = FALSE]]

\* updateMany({ revokedAt }) and updateMany({ role }), both on an active grant.
Revoked(u, w) ==
    IF IsActiveGrant(u, w) THEN [grants EXCEPT ![u][w].revoked = TRUE] ELSE grants
Reroled(u, w, role) ==
    IF IsActiveGrant(u, w) THEN [grants EXCEPT ![u][w].role = role] ELSE grants
=============================================================================
