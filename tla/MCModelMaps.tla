------------------------------ MODULE MCModelMaps ------------------------------
(* A poller and setpoint writer, and the command word's heartbeat, on one     *)
(* device; two layouts with the same models the other way round and of other  *)
(* lengths, and one at the other base.                                        *)
EXTENDS ModelMaps, TLC

MCKind == [plant |-> "point", beat |-> "word"]
MCWants == [plant |-> "inv", beat |-> "ctl"]
MCBases == <<2, 0>>

H(i, l) == [id |-> i, len |-> l]
MCLayouts == {
    [base |-> 0, headers |-> (2 :> H("inv", 1)) @@ (5 :> H("ctl", 1)) @@ (8 :> H(END, 0))],
    [base |-> 0, headers |-> (2 :> H("ctl", 2)) @@ (6 :> H("inv", 1)) @@ (9 :> H(END, 0))],
    [base |-> 2, headers |-> (4 :> H("inv", 1)) @@ (7 :> H(END, 0))]}
=============================================================================
