------------------------- MODULE MCRateLimitService -------------------------
(* A small instance of RateLimitService for TLC. *)
EXTENDS RateLimitService, TLC

CONSTANTS t1

\* All requests come from one tenant of the free tier.
OneTenant == [r \in Requests |-> t1]
AllFree == [r \in Requests |-> "free"]
MCLimits == [k \in Tiers |-> IF k = "free" THEN 2 ELSE 4]
SymmetryOfRequests == Permutations(Requests)
=============================================================================
