SPECIFICATION Spec
CONSTANTS
    NULL = NULL
    a1 = a1 a2 = a2 a3 = a3
    Calls = {a1, a2, a3}
    CacheKeys <- MCKeys
    Values = {a1, a2, a3}
    TTLs = {1, 2, 3, 4, 5, 6}
    MaxSize = 1000
    MaxTime = 3
    Queries <- MCQueries
    Beginnings <- MCBeginnings
    LeastRefresh = 1
    MostRefresh = 2
    ReportTTL = 3
    DataTTL = 1
    ConfigTTL = 1
    MaxRestarts = 1
    MaxFaults = 1
CONSTRAINT OneWorkload
CHECK_DEADLOCK FALSE
INVARIANTS AnswersOwn ArchivedOnlyFromCopies StatusNeverGoesBack
PROPERTIES JobsImplementSpec
