SPECIFICATION AnalyticsSpec
CONSTANTS
    NULL = NULL
    a1 = a1 a2 = a2
    Calls = {a1, a2}
    CacheKeys <- MCKeys
    Values = {a1, a2}
    TTLs = {1, 2}
    MaxSize = 1000
    MaxTime = 20
    AnalyticsQueries <- MCAnalyticsQueries
    Drafts <- MCDrafts
    AnalyticsBeginnings <- MCAnalyticsBeginnings
    ReportLifetime <- MCReportLifetime
    Hour = 3
    Day = 6
    Week = 12
    Skew = 1
    LongestRange = 100
    LongestSeries <- MCLongestSeries
    TopMost = 50
    PageMost = 1000
    MaxEvents = 4
    MaxDelay = 2
CONSTRAINT OneWorkload
SYMMETRY SymmetryOfCalls
INVARIANTS KeptReportsExact FreshUnlessEnded SeriesAccounts NewOnce
