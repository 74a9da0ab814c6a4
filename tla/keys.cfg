SPECIFICATION Spec
CONSTANTS
    k1 = k1 k2 = k2 k3 = k3 k4 = k4 n1 = n1 n2 = n2 n3 = n3 n4 = n4 x1 = x1 x2 = x2
    NULL = NULL
    CacheKeys = {k1, k2, k3, k4}
    Values <- MCValues
    TTLs = {1}
    TTL = 1
    MaxSize = 2
    MaxVersion <- MCVersions
    Names = {n1, n2, n3, n4}
    Scopes = {x1, x2}
    MaxTime = 2
    MaxFaults = 1
    Calls = {c1, c2, c3, c4}
    Requests <- MCRequests
    Existing <- ThreeKeys
CONSTRAINT OneWorkload
SYMMETRY SymmetryOfCalls
INVARIANTS FreshUnlessOverlapped DuplicateNamesOverlap
PROPERTIES EvictsLeastRecentlyUsed
