------------------------------ MODULE Allocation ------------------------------
(***************************************************************************)
(* dispatch::distribute::compute_shares: read what each child of a module  *)
(* can give from the cache, then dispatch::allocation::allocate: split the *)
(* target over the usable children by weight, each capped by its headroom, *)
(* handing what a cap leaves over to the children still under theirs.      *)
(*                                                                         *)
(* One step reads the cache, one is one turn of allocate's loop, the last  *)
(* tells every child left out of the split 0 W.  Watts are integers and a  *)
(* share is the exact fraction num/den: f64 rounding is left out.  The     *)
(* sign of the target is put back on the shares at the end, so the model   *)
(* splits its magnitude.                                                   *)
(***************************************************************************)
EXTENDS Integers, FiniteSetsExt

CONSTANTS
    Kids,      \* devices that may be children of the module
    Totals,    \* targets, W
    Racks,     \* what the binding and the cache may say of a child
    Bindings,  \* the module's own binding, its children in it, and the operator's reserve
    Missing    \* no fresh reading; no floor; no reserve; no capacity

States == {"STANDBY", "CHARGING", "DISCHARGING", "FAULT", "OFFLINE"}

\* A child: static bounds in both directions (charge is |power_min|), its live
\* limits, its cached operating_state ("other" is no state of ours, Missing was
\* never reported) and state_of_charge, whether either is stale, and whether
\* it is locked out.
AllocationConstants ==
    /\ IsFiniteSet(Kids)
    /\ Missing \notin Int
    /\ Totals \subseteq Int
    /\ Racks \subseteq [charge: Nat, discharge: Nat,
                        maxCharge: Int \cup {Missing}, maxDischarge: Int \cup {Missing},
                        state: States \cup {"other", Missing}, soc: 0..100,
                        quiet: BOOLEAN, locked: BOOLEAN]
    /\ Bindings \subseteq [children: SUBSET Kids, charge: Nat, discharge: Nat,
                           supplier: 0..100 \cup {Missing},
                           capacity: Nat \cup {Missing}, reserve: Int \cup {Missing}]

ASSUME AllocationAssumptions == AllocationConstants

VARIABLES
    total,     \* the target
    policy,    \* allocation_policy
    rack,      \* rack[c]: child c
    binding,   \* the module
    pc,        \* "read", "split", "told" or "held"
    eligible,  \* children neither in fault nor offline
    cap,       \* headroom of each child, at least 0
    weight,    \* policy_weights
    open,      \* children still under their cap
    demand,    \* what is still to be given out
    share      \* share of each child, a fraction

inputs == <<total, policy, rack, binding>>
allocationVars == <<inputs, pc, eligible, cap, weight, open, demand, share>>

Magnitude(x) == IF x < 0 THEN -x ELSE x
Least(a, b) == IF a < b THEN a ELSE b
Most(a, b) == IF a < b THEN b ELSE a
Frac(n, d) == [num |-> n, den |-> d]
Sum(f, S) == MapThenSumSet(LAMBDA c : f[c], S)

AllocationInit ==
    /\ total \in Totals
    /\ policy \in {"equal_split", "soc_weighted"}
    /\ rack \in [Kids -> Racks]
    /\ binding \in Bindings
    /\ pc = "read"
    /\ eligible = {}
    /\ cap = [c \in Kids |-> 0]
    /\ weight = [c \in Kids |-> 1]
    /\ open = {}
    /\ demand = 0
    /\ share = <<>>

-----------------------------------------------------------------------------
(* what a child can give *)

\* The children that are not locked out.
Mine == {c \in binding.children : ~rack[c].locked}

\* rack_limits::headroom: the static bound in the target's direction, capped
\* by the live limit when there is a fresh one.
Headroom(c) ==
    LET static == IF total < 0 THEN rack[c].charge ELSE rack[c].discharge
        live == IF total < 0 THEN rack[c].maxCharge ELSE rack[c].maxDischarge
    IN  IF live = Missing THEN static ELSE Least(static, Most(live, 0))

\* operator_reserve_percent: the reserve as a percentage of the site's
\* capacity, rounded down (charges are whole percents here).
OperatorFloor ==
    IF binding.capacity \in {Missing, 0} \/ binding.reserve = Missing THEN Missing
    ELSE Least(100, Most(0, (binding.reserve * 100) \div binding.capacity))

\* Mutant: the operator's reserve replaces the supplier's floor.
Floor_Operator ==
    IF OperatorFloor = Missing THEN binding.supplier ELSE OperatorFloor

\* effective_floor_percent: the higher of the two.
Floor ==
    IF binding.supplier = Missing THEN OperatorFloor
    ELSE IF OperatorFloor = Missing THEN binding.supplier
    ELSE Most(binding.supplier, OperatorFloor)

\* apply_reserve_floor: nothing left to discharge at or below the floor.
AtFloor(c) == Floor # Missing /\ total > 0 /\ rack[c].soc <= Floor

\* A quiet child is offline, whatever it last said.
Eligible(c) == ~rack[c].quiet /\ rack[c].state \notin {"FAULT", "OFFLINE"}

\* resolve_child's errors: never reported, or a state it does not know.
Unread(c) == rack[c].state = Missing \/ (~rack[c].quiet /\ rack[c].state = "other")

\* policy_weights: equal, or by state of charge (room to full when charging),
\* equal again when those add up to nothing.
PolicyWeights(E) ==
    LET raw == [c \in Kids |-> IF total < 0 THEN 100 - rack[c].soc ELSE rack[c].soc] IN
    IF policy = "equal_split" \/ Sum(raw, E) = 0 THEN [c \in Kids |-> 1] ELSE raw

\* One child that cannot be read fails the whole module: nothing is written.
Hold ==
    /\ pc = "read"
    /\ \E c \in Mine : Unread(c)
    /\ pc' = "held"
    /\ UNCHANGED <<inputs, eligible, cap, weight, open, demand, share>>

Read ==
    /\ pc = "read"
    /\ \A c \in Mine : ~Unread(c)
    /\ pc' = "split"
    /\ eligible' = {c \in Mine : Eligible(c)}
    /\ cap' = [c \in Kids |-> IF AtFloor(c) THEN 0 ELSE Headroom(c)]
    /\ weight' = PolicyWeights(eligible')
    /\ open' = eligible'
    /\ demand' = Magnitude(total)
    /\ share' = [c \in eligible' |-> Frac(0, 1)]
    /\ UNCHANGED inputs

-----------------------------------------------------------------------------
(* allocate *)

Running == pc = "split" /\ demand > 0 /\ open # {}

\* Mutant: the policy's weights are dropped.
TurnWeight_Equal == [c \in Kids |-> 1]

\* The weights of this turn: equal ones when the open children's are all 0.
TurnWeight == IF Sum(weight, open) > 0 THEN weight ELSE [c \in Kids |-> 1]

\* Children whose proposed share demand * w / sum reaches their cap.
Capped ==
    {c \in open : demand * TurnWeight[c] >= cap[c] * Sum(TurnWeight, open)}

\* Mutant: a child that could be given nothing stays open.
CapSome_KeepsEmpty ==
    /\ Running
    /\ Capped # {}
    /\ share' = [c \in eligible |-> IF c \in Capped THEN Frac(cap[c], 1) ELSE share[c]]
    /\ demand' = demand - Sum(cap, Capped)
    /\ open' = open \ {c \in Capped : cap[c] > 0}
    /\ UNCHANGED <<inputs, pc, eligible, cap, weight>>

\* Some proposal reaches a cap: give those children their cap and go on with
\* the rest.
CapSome ==
    /\ Running
    /\ Capped # {}
    /\ share' = [c \in eligible |-> IF c \in Capped THEN Frac(cap[c], 1) ELSE share[c]]
    /\ demand' = demand - Sum(cap, Capped)
    /\ open' = open \ Capped
    /\ UNCHANGED <<inputs, pc, eligible, cap, weight>>

\* None does: the proposals are the shares.
GiveRest ==
    /\ Running
    /\ Capped = {}
    /\ share' = [c \in eligible |->
         IF c \in open THEN Frac(demand * TurnWeight[c], Sum(TurnWeight, open)) ELSE share[c]]
    /\ demand' = 0
    /\ UNCHANGED <<inputs, pc, eligible, cap, weight, open>>

\* The loop is left: compute_shares tells the children left out 0 W.
Tell ==
    /\ pc = "split"
    /\ ~Running
    /\ pc' = "told"
    /\ share' = [c \in Mine |-> IF c \in eligible THEN share[c] ELSE Frac(0, 1)]
    /\ UNCHANGED <<inputs, eligible, cap, weight, open, demand>>

\* compute_shares has returned.
Return == pc \in {"told", "held"} /\ UNCHANGED allocationVars

AllocationNext == Hold \/ Read \/ CapSome \/ GiveRest \/ Tell \/ Return

AllocationSpec == AllocationInit /\ [][AllocationNext]_allocationVars /\ WF_allocationVars(AllocationNext)

-----------------------------------------------------------------------------
(* The bound site distribution splits by (der_dispatch/module_bounds.rs). *)

StaticBound == IF total < 0 THEN binding.charge ELSE binding.discharge

\* What racks not looked at more closely can give.
RacksRoom(S) == Sum([c \in Kids |-> Headroom(c)], S)

\* Mutant: locked racks count towards what the module can give.
ModuleRoom_Locked ==
    IF binding.children = {} THEN StaticBound
    ELSE Least(StaticBound, RacksRoom(binding.children))

\* modules_with_bounds: a module's own static bound, or what its racks not
\* locked out can give if it has racks and that is less.  Their state, silence
\* and floor are not looked at.
ModuleRoom ==
    IF binding.children = {} THEN StaticBound ELSE Least(StaticBound, RacksRoom(Mine))

-----------------------------------------------------------------------------
(* Properties *)

Done == pc = "told"
Leq(a, b) == a.num * b.den <= b.num * a.den
Full == {c \in eligible : share[c] = Frac(cap[c], 1)}

\* The children that are not full share one denominator, their weights' sum.
Given(w) ==
    LET part == eligible \ Full IN
    IF part = {} THEN Sum(cap, Full) = w
    ELSE \A c \in part :
           Sum(cap, Full) * share[c].den + Sum([e \in Mine |-> share[e].num], part)
              = w * share[c].den

\* compute_shares gives out the target or, if that is less, all that the
\* children fit to be used can give: each its static bound, its live limit if
\* that is fresh and lower, nothing discharged at or below the higher floor.
\* None is given more than its own, and every child not locked out is told
\* something, the unusable ones 0 W.
GivesAllItCan ==
    Done =>
        LET fit == {c \in Mine : ~rack[c].quiet /\ rack[c].state \notin {"FAULT", "OFFLINE"}}
            low(c) == /\ total > 0
                      /\ \/ binding.supplier # Missing /\ rack[c].soc <= binding.supplier
                         \/ /\ binding.reserve # Missing
                            /\ binding.capacity \notin {Missing, 0}
                            /\ rack[c].soc * binding.capacity <= 100 * Most(binding.reserve, 0)
            static(c) == IF total < 0 THEN rack[c].charge ELSE rack[c].discharge
            live(c) == IF total < 0 THEN rack[c].maxCharge ELSE rack[c].maxDischarge
            most == [c \in Kids |->
                IF c \notin fit \/ low(c) THEN 0
                ELSE Max({0} \cup {w \in 0..static(c) : live(c) = Missing \/ w <= live(c)})]
        IN  /\ DOMAIN share = Mine
            /\ \A c \in Mine : 0 <= share[c].num /\ Leq(share[c], Frac(most[c], 1))
            /\ Given(Least(Magnitude(total), Sum(most, Mine)))

\* Max-min fair: against the split by water level.  A child below its cap gets,
\* per weight, at least what any other child gets: nobody could be given more
\* without taking from someone who has less.
MaxMinFair ==
    Done =>
        \A c, e \in eligible :
            share[c] # Frac(cap[c], 1) /\ weight[c] > 0 =>
                share[e].num * share[c].den * weight[c]
                   <= share[c].num * share[e].den * weight[e]

\* What modules_with_bounds counts and no rack gives: the room of racks that are
\* silent, in fault, offline or at their floor; all of a module without racks.
Overstated ==
    IF binding.children = {} THEN StaticBound
    ELSE RacksRoom({c \in Mine : ~Eligible(c) \/ AtFloor(c)})

\* What site distribution hands a module within its bound, the module's racks
\* take in full, whatever locks, live limits and directions say, but for what
\* the bound overstates.
BoundIsDeliverable ==
    Done /\ Magnitude(total) <= ModuleRoom =>
        \E w \in 0..Magnitude(total) : Given(w) /\ Magnitude(total) - w <= Overstated

\* compute_shares returns: every turn that does not finish closes a child.
Returns == <>[](pc \in {"told", "held"})

=============================================================================
