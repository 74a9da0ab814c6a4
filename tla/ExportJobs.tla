------------------------------ MODULE ExportJobs ------------------------------
(***************************************************************************)
(* What funnel exports promise: a job that was accepted is processed until *)
(* it is completed or has failed, and keeps that outcome until it is       *)
(* forgotten with all the others.                                          *)
(***************************************************************************)
CONSTANT Jobs

VARIABLE status     \* [Jobs -> "none", "processing", "completed", "failed" or "forgotten"]

Accept(j) ==
    /\ status[j] = "none"
    /\ status' = [status EXCEPT ![j] = "processing"]

Finish(j) ==
    /\ status[j] = "processing"
    /\ \E outcome \in {"completed", "failed"} : status' = [status EXCEPT ![j] = outcome]

ForgetAll == status' = [j \in Jobs |-> IF status[j] = "none" THEN "none" ELSE "forgotten"]

Init == status = [j \in Jobs |-> "none"]

Next == (\E j \in Jobs : Accept(j) \/ Finish(j)) \/ ForgetAll

Spec == Init /\ [][Next]_status /\ \A j \in Jobs : WF_status(Finish(j))
=============================================================================
