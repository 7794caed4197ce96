------------------------------ MODULE MCCmdBits ------------------------------
(* Model values only: see the .cfg files. *)
EXTENDS CmdBits

=============================================================================
