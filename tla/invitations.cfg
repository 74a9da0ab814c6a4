SPECIFICATION Spec
CONSTANTS
    e1 = e1 e2 = e2
    NULL = NULL
    Calls = {c1, c2, c3, c4}
    Requests <- MCRequests
    Emails = {e1, e2}
    Unlisted = {}
    FirstAccounts = {e2}
    MaxInvitations = 2
    MaxFaults = 2
    MaxRemovals = 1
CONSTRAINT OneWorkload
SYMMETRY SymmetryOfCalls
INVARIANTS OneLiveInvitation ClosedBeforeAccept AcceptIsRetryable
