SPECIFICATION ServiceSpec
CONSTANTS
    t1 = t1
    NULL = NULL
    Tenants = {t1}
    TenantOf <- OneTenant
    Tiers = {"free", "premium"}
    LimitOf <- MCLimits
    Window = 3
    IdleTime = 3
    Requests = {r1, r2, r3}
    TierOf <- AllFree
    MaxTime = 4
    MaxFaults = 1
SYMMETRY SymmetryOfRequests
INVARIANTS
    BucketBounds AdmissionBound DeniedOnlyIfBusy
    SequentialBound DeniedOnlyIfCrowded
CHECK_DEADLOCK FALSE
