------------------------------ MODULE MCReconcile ------------------------------
(* Two topologies that share a loop and swap their input, the larger with a *)
(* poller, and one whose devices want credentials the gateway has not got.  *)
EXTENDS Reconcile, TLC

CONSTANTS small, large, mtls, loop, extra, t1, t2

MCTasksOf == small :> {loop} @@ large :> {loop, extra} @@ mtls :> {loop}
MCInputsOf == small :> {Beacon, t1} @@ large :> {Beacon, t2} @@ mtls :> {Beacon}

=============================================================================
