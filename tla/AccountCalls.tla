----------------------------- MODULE AccountCalls -----------------------------
(***************************************************************************)
(* The calls of the services by which a user comes to a tenant, for the    *)
(* modules that model them: TenantService and WorkspaceService in Tenancy, *)
(* OnboardingService in Onboarding.  A call runs one step at a time, from  *)
(* "idle" to "done", and the steps of different calls interleave.          *)
(***************************************************************************)
EXTENDS Integers, FiniteSets

CONSTANTS
    Calls,
    Users,
    Names,          \* of tenants and workspaces
    MaxFaults,      \* bound: queries that fail or answers that are lost
    NULL

VARIABLES
    faults,
    pc,
    request,
    reply,      \* the status of the answer, or what entering found
    before      \* history: the calls that had returned when it began

At(c, step) == pc[c] = step
Returned(c) == pc[c] = "done"

Goto(c, step) == pc' = [pc EXCEPT ![c] = step] /\ UNCHANGED reply
Return(c, r) == pc' = [pc EXCEPT ![c] = "done"] /\ reply' = [reply EXCEPT ![c] = r]

\* Neither had returned when the other began.
Overlap(c, d) == c \notin before[d] /\ d \notin before[c]
=============================================================================
