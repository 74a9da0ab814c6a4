SPECIFICATION Spec
CONSTANTS
    NULL = NULL
    Calls = {c1, c2, c3, c4}
    Requests <- MCRequests
    MaxFunnels = 1
    MaxVersions = 3
    MaxFaults = 1
CONSTRAINT OneWorkload
SYMMETRY SymmetryOfCalls
INVARIANTS ConfigStaleByRace EveryUpdateItsVersion ArchivedChangesByRace
