----------------------------- MODULE MCTelemetry -----------------------------
(* A rack with three points, the third read from the first one's resource,  *)
(* a module's sum over two of them and the site total over that sum.       *)
EXTENDS Telemetry, TLC

Sum == 4
Actual == 5

MCPeriod == <<2, 2, 2, 2, 2>>
MCResource == <<"a", "b", "a">>
MCInputs == (Sum :> {2, 3}) @@ (Actual :> {Sum})
MCOldest == <<0, 1, 2, 6, 0>>

=============================================================================
