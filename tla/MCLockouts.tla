------------------------------ MODULE MCLockouts ------------------------------
(* A module and its rack, lockable alone or together (subtree expanded). *)
EXTENDS Lockouts

CONSTANTS module, rack

MCDevices == {module, rack}
MCLockSets == {{}, {rack}, {module, rack}}

=============================================================================
