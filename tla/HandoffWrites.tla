----------------------------- MODULE HandoffWrites -----------------------------
(***************************************************************************)
(* How a guarded module's task moves power between its children: the plan  *)
(* of each tick's writes (envelope/writes.rs, dispatch/write_order.rs),    *)
(* the writes themselves, one device at a time, and the gate that holds    *)
(* the POI servo's approach while a handoff is in flight                   *)
(* (envelope/poi_gate.rs).                                                 *)
(*                                                                         *)
(* The shares a tick computes are its input: any split in one direction    *)
(* whose magnitudes stay within Limit.  A device takes a written setpoint  *)
(* with its own latency: its output follows its register some time later,  *)
(* which write_order.rs 33-34 takes to be before the next tick.  The       *)
(* interval does not see to that: after a slow batch the next tick comes   *)
(* at once (task.rs 36).  A topology beacon or a restart starts the task   *)
(* afresh over children that keep their setpoints.  Receipt times are kept *)
(* as what the gate asks of them: whether the cached POI reading came      *)
(* after the growth write landed and has not been taken by a tick yet.     *)
(***************************************************************************)
EXTENDS Integers, FiniteSetsExt

CONSTANTS
    Children,    \* the module's children, none locked out
    Shares,      \* shares a child may get, W
    Limit,       \* the most the shares of one tick add up to, in magnitude
    Earlier,     \* setpoints an earlier run of the gateway may have left
    Never,       \* no entry in last_written
    MaxEvents    \* bound: new splits of the module's target, respawns, failed
                 \* writes, children that drop their setpoint or die

Abs(x) == IF x < 0 THEN -x ELSE x

\* What children at setpoints s put on the bus together.
OnBus(s) == MapThenSumSet(LAMBDA c : Abs(s[c]), Children)

ASSUME HandoffAssumptions ==
    /\ IsFiniteSet(Children)
    /\ Shares \subseteq Int
    /\ 0 \in Shares
    /\ Never \notin Shares
    /\ Limit \in Nat
    /\ Earlier \subseteq [Children -> Shares]
    /\ \A s \in Earlier : OnBus(s) <= Limit
    /\ MaxEvents \in Nat

VARIABLES
    shares,    \* the split the module's target works out to now
    last,      \* WriteState.last_written
    deferred,  \* WriteState.deferred_growth
    handoff,   \* PoiGate.handoff
    seen,      \* its count of fresh readings since the growth write
    news,      \* the cached POI reading came after it and was not taken yet
    tick,      \* whether the task is writing its plan
    plan,      \* Plan.writes: child -> share
    batch,     \* the children it writes as changed, before any re-assert
    todo,      \* the children it has not written yet
    completes, \* Plan.completes_handoff
    loose,     \* history: how this plan came about, see Loose
    reg,       \* the setpoint each child took last
    out,       \* the output each child delivers
    health,    \* each child: up, unreachable, or unreachable and gone quiet
    moves, faults

gateVars == <<handoff, seen, news>>
planVars == <<tick, plan, batch, todo, completes, loose>>
deviceVars == <<reg, out, health>>
boundVars == <<moves, faults>>
vars == <<shares, last, deferred, gateVars, planVars, deviceVars, boundVars>>

\* A child gone quiet is offline: it is told 0 W.
Splits ==
    {s \in [Children -> Shares] :
        /\ \A c \in Children : health[c] = "quiet" => s[c] = 0
        /\ (\A c \in Children : s[c] >= 0) \/ (\A c \in Children : s[c] <= 0)
        /\ OnBus(s) <= Limit}

\* The task starts with nothing remembered over what the children hold.
Init ==
    /\ health = [c \in Children |-> "up"]
    /\ shares \in Splits
    /\ last = [c \in Children |-> Never]
    /\ deferred = FALSE
    /\ handoff = "idle"
    /\ seen = 0
    /\ news = FALSE
    /\ tick = "idle"
    /\ plan = <<>>
    /\ batch = {}
    /\ todo = {}
    /\ completes = FALSE
    /\ loose = FALSE
    /\ reg \in Earlier
    /\ out = reg
    /\ moves = 0
    /\ faults = 0

-----------------------------------------------------------------------------
(* Planning a tick *)

\* What child c last got; one never written counts as 0.
Previous(c) == IF last[c] = Never THEN 0 ELSE Abs(last[c])

\* growth: how much c's share grows its output's magnitude.
Growth(c) == Abs(shares[c]) - Previous(c)

Changed == {c \in Children : last[c] # shares[c]}

\* Mutant: the fraction is forgotten; only more than all of it is material.
MaterialShrink_All(c) == -Growth(c) > Previous(c)

\* material_shrink: by more than HANDOFF_MIN_FRACTION (1 %) of its last output.
MaterialShrink(c) == -Growth(c) * 100 > Previous(c)

\* handoff_batch holds growth back: a share shrinks while another grows, and
\* nothing was held back last tick.
HoldBack ==
    /\ \E c \in Changed : MaterialShrink(c)
    /\ \E c \in Changed : Growth(c) > 0
    /\ ~deferred

Batch == IF HoldBack THEN {c \in Changed : Growth(c) < 0} ELSE Changed

\* Mutant: unchanged children are not written.
Reasserts_None == {}

\* Every other child is re-asserted at its last landed share.
Reasserts == {c \in Children \ Batch : last[c] # Never}

\* PoiGate::take: what the cached reading does to the handoff.  The approach
\* is held until the handoff is idle again.
Counts == handoff = "written" /\ news
Taken == IF Counts /\ seen = 1 THEN "idle" ELSE handoff
TakenSeen == IF Counts THEN (seen + 1) % 2 ELSE seen

\* The task remembers no plan that has landed.
Blind == \E c \in Children : last[c] = Never

\* A plan made before the children responded to the last one, right after a
\* held-back one (growth waits at most one tick), or blind.
Loose == out # reg \/ deferred \/ Blind

\* One tick: take the reading, plan the writes.
Tick ==
    /\ tick = "idle"
    /\ news' = FALSE
    /\ handoff' = IF HoldBack THEN "deferred" ELSE Taken
    /\ seen' = IF HoldBack THEN 0 ELSE TakenSeen
    /\ deferred' = IF Changed = {} THEN deferred ELSE HoldBack
    /\ plan' = [c \in Batch \cup Reasserts |-> IF c \in Batch THEN shares[c] ELSE last[c]]
    /\ batch' = Batch
    /\ todo' = Batch \cup Reasserts
    /\ loose' = Loose
    /\ completes' = (deferred /\ ~deferred')
    /\ tick' = "write"
    /\ UNCHANGED <<shares, last, deviceVars, boundVars>>

\* A tick that cannot compute shares (a child never reported) stops after it
\* took the reading.
TickHolds ==
    /\ tick = "idle"
    /\ news' = FALSE
    /\ handoff' = Taken
    /\ seen' = TakenSeen
    /\ UNCHANGED <<shares, last, deferred, planVars, deviceVars, boundVars>>

-----------------------------------------------------------------------------
(* write_shares *)

\* Mutant: the changed children in any order.
IsNext_Unordered(c) == c \in todo

\* The order of the plan: changed children by growth, then the re-asserts,
\* equals as compute_shares lists them: the split, then the children left out
\* of it.  last, and so growth, stands still until the whole plan has landed.
Before(e, c) ==
    LET g(x) == IF x \in batch THEN Abs(plan[x]) - Previous(x) ELSE Limit + 1 IN
    \/ g(e) < g(c)
    \/ g(e) = g(c) /\ health[e] # "quiet" /\ health[c] = "quiet"

IsNext(c) == c \in todo /\ \A e \in todo : ~Before(e, c)

Write(c) ==
    /\ tick = "write"
    /\ IsNext(c)
    /\ health[c] = "up"
    /\ reg' = [reg EXCEPT ![c] = plan[c]]
    /\ todo' = todo \ {c}
    /\ UNCHANGED <<shares, last, deferred, gateVars, tick, plan, batch, completes, loose,
                   out, health, boundVars>>

EndTick ==
    /\ tick' = "idle"
    /\ plan' = <<>>
    /\ batch' = {}
    /\ todo' = {}
    /\ completes' = FALSE
    /\ UNCHANGED loose

\* The first failed write ends the tick; the earlier ones have landed.  Every
\* write to an unreachable child fails.
WriteFails(c) ==
    /\ tick = "write"
    /\ IsNext(c)
    /\ IF health[c] = "up" THEN moves + faults < MaxEvents /\ faults' = faults + 1
                           ELSE UNCHANGED faults
    /\ EndTick
    /\ UNCHANGED <<shares, last, deferred, gateVars, deviceVars, moves>>

\* Mutant: any landed plan starts the count of readings.
Landed_Any ==
    /\ tick = "write"
    /\ todo = {}
    /\ IF handoff = "deferred"
       THEN handoff' = "written" /\ seen' = 0 /\ news' = FALSE
       ELSE UNCHANGED gateVars
    /\ last' = [c \in Children |-> IF c \in DOMAIN plan THEN plan[c] ELSE last[c]]
    /\ EndTick
    /\ UNCHANGED <<shares, deferred, deviceVars, boundVars>>

\* landed: the plan is what the children have; a held-back growth in it
\* starts the count of readings.
Landed ==
    /\ tick = "write"
    /\ todo = {}
    /\ IF completes /\ handoff = "deferred"
       THEN handoff' = "written" /\ seen' = 0 /\ news' = FALSE
       ELSE UNCHANGED gateVars
    /\ last' = [c \in Children |-> IF c \in DOMAIN plan THEN plan[c] ELSE last[c]]
    /\ EndTick
    /\ UNCHANGED <<shares, deferred, deviceVars, boundVars>>

\* A topology beacon: between two ticks the task ends and a new one starts, with
\* a default WriteState.
Respawn ==
    /\ tick = "idle"
    /\ moves + faults < MaxEvents
    /\ moves' = moves + 1
    /\ last' = [c \in Children |-> Never]
    /\ deferred' = FALSE
    /\ handoff' = "idle"
    /\ seen' = 0
    /\ news' = FALSE
    /\ UNCHANGED <<shares, planVars, deviceVars, faults>>

-----------------------------------------------------------------------------
(* The site *)

\* The forwarder caches a new POI reading.
Reading ==
    /\ news' = (handoff = "written")
    /\ UNCHANGED <<shares, last, deferred, handoff, seen, planVars, deviceVars, boundVars>>

\* Requests, limits, states of charge: the split moves.
Move(s) ==
    /\ moves + faults < MaxEvents
    /\ s # shares
    /\ shares' = s
    /\ moves' = moves + 1
    /\ UNCHANGED <<last, deferred, gateVars, planVars, deviceVars, faults>>

Respond(c) ==
    /\ out[c] # reg[c]
    /\ out' = [out EXCEPT ![c] = reg[c]]
    /\ UNCHANGED <<shares, last, deferred, gateVars, planVars, reg, health, boundVars>>

\* A child reboots, or is overridden locally, and drops our setpoint.
Reboot(c, s) ==
    /\ moves + faults < MaxEvents
    /\ faults' = faults + 1
    /\ reg' = [reg EXCEPT ![c] = s]
    /\ UNCHANGED <<shares, last, deferred, gateVars, planVars, out, health, moves>>

\* A child drops off the network at its setpoint.
Die(c) ==
    /\ health[c] = "up"
    /\ moves + faults < MaxEvents
    /\ faults' = faults + 1
    /\ health' = [health EXCEPT ![c] = "dead"]
    /\ UNCHANGED <<shares, last, deferred, gateVars, planVars, reg, out, moves>>

\* Its readings have been silent for STALE_AFTER: its share moves to the others.
GoQuiet(c) ==
    /\ health[c] = "dead"
    /\ health' = [health EXCEPT ![c] = "quiet"]
    /\ shares' \in {s \in Splits : s[c] = 0}
    /\ UNCHANGED <<last, deferred, gateVars, planVars, reg, out, boundVars>>

-----------------------------------------------------------------------------
TaskStep ==
    \/ Tick
    \/ TickHolds
    \/ \E c \in Children : Write(c) \/ WriteFails(c)
    \/ Landed

Next ==
    \/ TaskStep
    \/ Respawn
    \/ Reading
    \/ \E s \in Splits : Move(s)
    \/ \E c \in Children : Respond(c) \/ Die(c) \/ GoQuiet(c)
    \/ \E c \in Children, s \in Shares : Reboot(c, s)

Spec == Init /\ [][Next]_vars

\* The interval ticks, the poller publishes readings, devices respond; and a
\* tick computes shares again and again once every child reports.
Fairness ==
    /\ WF_vars(TaskStep)
    /\ SF_vars(Tick)
    /\ WF_vars(Reading)
    /\ \A c \in Children : WF_vars(Respond(c)) /\ WF_vars(GoQuiet(c))

FairSpec == Spec /\ Fairness

-----------------------------------------------------------------------------
(* Properties *)

\* write_order.rs: "a handoff never briefly puts both children on the bus".
\* The setpoints the children hold never add up to more than a split may, as
\* long as every write lands and no child drops its setpoint, once a plan of
\* this task has landed.  Until then it measures growth against nothing and may
\* write a new split over an old one, in any order: twice as much.
WritesNeverOverlap ==
    faults = 0 => OnBus(reg) <= (IF Blind THEN 2 * Limit ELSE Limit)

\* Nor do their outputs, which lag the setpoints, but for the drift too small
\* to be a handoff, unless the plan was made before the children had responded
\* to the last one, right after a held-back one, or blind.
OutputsOverlapOnlyDrift ==
    faults = 0 /\ ~loose => 100 * OnBus(out) <= 101 * Limit

\* While growth is held back the servo's approach is held, tick after tick.
HoldCoversHandoff == deferred => handoff = "deferred"

\* The children that are up.
Up == {c \in Children : health[c] = "up"}

\* distribute_stale_test.rs: "a_rack_gone_quiet_gets_zero_and_its_share_moves".
\* Whatever fails, drops its setpoint or dies, the children that are up end up,
\* and stay, on their shares.
ShareMoves == <>[](\A c \in Up : reg[c] = shares[c])

\* They do, through failed writes, splits that move under way and children that
\* lose their setpoint or die, unless a child died at a setpoint other than
\* 0 W: the write of its 0 W comes first, fails every tick and ends it.
Converges ==
    ShareMoves \/ <>[](\E d \in Children : health[d] = "quiet" /\ last[d] # 0)

=============================================================================
