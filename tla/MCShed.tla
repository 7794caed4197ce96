--------------------------------- MODULE MCShed ---------------------------------
(* A site that fits, one that needs shedding, and one that exports; GPUs as  *)
(* they come, or left shed by the process before.                           *)
EXTENDS Shed

MCBases == {-9, -5, 4}
MCEarlier == {[g \in Gpus |-> MaxCap], [g \in Gpus |-> 2]}

=============================================================================
