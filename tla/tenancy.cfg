SPECIFICATION FairSpec
CONSTANTS
    c1 = c1 c2 = c2 c3 = c3 c4 = c4 u1 = u1 t1 = t1 t2 = t2 t3 = t3 t4 = t4 w1 = w1 w2 = w2 w3 = w3 n1 = n1 n2 = n2
    NULL = NULL
    Users = {u1}
    TenantIds = {t1, t2, t3, t4}
    WorkspaceIds = {w1, w2, w3}
    Names = {n1, n2}
    Kinds = {"users"}
    FirstTenants = {t1}
    FirstName = n1
    Connections = 2
    MaxFaults = 1
    Calls = {c1, c2, c3, c4}
    Requests <- MCRequests
CONSTRAINT OneWorkload
INVARIANTS DuplicateNamesOverlap
PROPERTIES DataAtStartSurvives EveryCallAnswered
