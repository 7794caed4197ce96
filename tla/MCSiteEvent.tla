------------------------------ MODULE MCSiteEvent ------------------------------
(* Model values only: see the .cfg files. *)
EXTENDS SiteEvent

CONSTANTS m1, m2

=============================================================================
