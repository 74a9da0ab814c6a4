SPECIFICATION CtlSpec
CONSTANTS
    w1 = w1 a1 = a1 a2 = a2 e1 = e1 s1 = s1 b1 = b1 c1 = c1 c2 = c2 c3 = c3
    NULL = NULL
    Tenants = {"t1"}
    TenantOf <- MCTenantOf
    Workspaces = {w1}
    EventIds = {e1}
    Emails = {}
    Phones = {}
    Requests <- MCRequests
    AnonymousIds = {a1, a2}
    SessionIds = {s1, s2}
    SESSION_TIMEOUT = 1
    MaxTime = 1
    MaxFaults = 1
    Calls = {c1, c2, c3, c4}
    Batches = {b1}
    Bodies <- MCBodies
    CallOf <- OneBatch
    MAX_BATCH_SIZE = 3
    CHUNK = 2
CONSTRAINT OneWorkload
INVARIANTS
    RefusedBatchLeavesNothing RepeatInLaterChunk BatchAnswerHolds
    FunnelsSeeStoredTracks
PROPERTY EveryRequestAnswered
