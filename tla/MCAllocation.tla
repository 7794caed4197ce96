----------------------------- MODULE MCAllocation -----------------------------
(* Constants for TLC: racks that differ in bounds, live limits, state, charge *)
(* and locks, and modules with either floor, both, or none, one without racks. *)
EXTENDS Allocation

SomeTotals == {-7, 0, 1, 6, 11}

Rack(ch, dis, lch, ldis, st, soc, quiet, locked) ==
    [charge |-> ch, discharge |-> dis, maxCharge |-> lch, maxDischarge |-> ldis,
     state |-> st, soc |-> soc, quiet |-> quiet, locked |-> locked]

SomeRacks == {
    Rack(5, 5, Missing, Missing, "STANDBY", 20, FALSE, FALSE),
    Rack(5, 5, 2, 3, "DISCHARGING", 100, FALSE, FALSE),
    Rack(2, 5, 4, -1, "CHARGING", 0, FALSE, FALSE),
    Rack(5, 2, 0, 9, "CHARGING", 60, FALSE, FALSE),
    Rack(5, 5, Missing, Missing, "FAULT", 60, FALSE, FALSE),
    Rack(5, 5, 5, 5, "other", 60, TRUE, FALSE),
    Rack(5, 5, 5, 5, "other", 60, FALSE, FALSE),
    Rack(5, 5, Missing, Missing, Missing, 60, FALSE, FALSE),
    Rack(5, 5, 5, 5, "STANDBY", 60, FALSE, TRUE)}

Module(kids, ch, dis, sup, capacity, reserve) ==
    [children |-> kids, charge |-> ch, discharge |-> dis, supplier |-> sup, capacity |-> capacity, reserve |-> reserve]

SomeBindings == {
    Module({}, 4, 6, Missing, Missing, Missing),
    Module(Kids, 4, 20, Missing, Missing, 10),
    Module(Kids, 20, 20, 20, 10, 1),
    Module(Kids, 20, 20, 20, 10, 6),
    Module(Kids, 20, 4, Missing, 10, 11)}

=============================================================================
