--------------------------- MODULE MCCommandDispatch ---------------------------
(* An unguarded module over two racks, commanded by the forwarder and by    *)
(* site distribution at once.                                              *)
EXTENDS CommandRefinement, TLC

CONSTANTS module, rack1, rack2, forwarder, site

MCDevices == {module, rack1, rack2}
MCChildren == module :> {rack1, rack2} @@ [d \in {rack1, rack2} |-> {}]
MCLockSets == {{}, MCDevices}
MCSends == forwarder :> [dev: {module}, value: {1}] @@ site :> [dev: {module}, value: {0}]

=============================================================================
