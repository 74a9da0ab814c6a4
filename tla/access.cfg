SPECIFICATION Spec
CONSTANTS
    u1 = u1 u2 = u2 u3 = u3 w1 = w1 w3 = w3 t1 = t1 t2 = t2
    NULL = NULL
    NONE = NONE
    CacheKeys = {u1, u2, u3}
    Users = {u1, u2, u3}
    Values <- MCValues
    TTLs = {1}
    TTL = 1
    NegativeTTL = 1
    MaxSize = 3
    MaxVersion <- MCVersions
    Workspaces = {w1, w3}
    TenantOf <- TwoTenants
    MaxTime = 2
    MaxFaults = 1
    Calls = {c1, c2, c3}
    Requests <- MCRequests
    Initially <- Mixed
CONSTRAINT OneWorkload
SYMMETRY SymmetryOfCalls
INVARIANTS ContextFresh RoleNeverExceeds
PROPERTIES ManagedByTenantAdmin
