---------------------------- MODULE MCHandoffWrites ----------------------------
(* Shares that hand off and that drift by 1 % (100 to 99), on children fresh  *)
(* from a reboot or with the first left carrying everything.               *)
EXTENDS HandoffWrites

CONSTANTS r1, r2

Drifting == {0, 1, 99, 100}
LeftBehind == {[c \in {r1, r2} |-> 0], [c \in {r1, r2} |-> IF c = r1 THEN 100 ELSE 0]}

=============================================================================
