SPECIFICATION Spec
CONSTANTS
    w1 = w1 w2 = w2 w3 = w3 a1 = a1 a2 = a2 e1 = e1 m1 = m1 p1 = p1 p2 = p2 s1 = s1
    NULL = NULL
    Tenants = {"t1", "t2"}
    TenantOf <- MCTenantOf
    Workspaces = {w1, w2, w3}
    AnonymousIds = {a1, a2}
    EventIds = {e1}
    SessionIds = {s1, s2}
    Emails = {m1}
    Phones = {p1, p2}
    Calls = {c1, c2, c3}
    Requests <- MCRequests
    SESSION_TIMEOUT = 1
    MaxTime = 2
    MaxFaults = 1
CONSTRAINT OneWorkload
SYMMETRY SymmetryOfCalls
INVARIANTS
    IdempotentReplies SplitSessionsOverlap
    IdentifiedEventsHaveLead DuplicateLeadsOverlap IdentityResolved
