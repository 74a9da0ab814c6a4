SPECIFICATION OnboardSpec
CONSTANTS
    u1 = u1 u2 = u2 n1 = n1 n2 = n2
    NULL = NULL
    Calls = {c1, c2, c3, c4}
    Onboardings <- MCOnboardings
    Users = {u1, u2}
    Names = {n1, n2}
    FirstMembers = {}
    MaxFaults = 3
CONSTRAINT OneWorkload
SYMMETRY SymmetryOfCalls
INVARIANTS SecondTenantByRace KeptOutByRace
