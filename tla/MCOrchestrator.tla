---------------------------- MODULE MCOrchestrator ----------------------------
(* Two calls of process_target on one row.                                 *)
EXTENDS Orchestrator, TLC

CONSTANTS w1, w2, r1, r2

MCWorkerOf == (r1 :> w1) @@ (r2 :> w2)
MCStored == {NoAttempts, [NoAttempts EXCEPT !["total"] = MaxTotalAttempts]}
MCNoneStored == {NoAttempts}
===============================================================================
