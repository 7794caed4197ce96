-------------------------------- MODULE Envelope --------------------------------
(***************************************************************************)
(* The envelope controller of a guarded module (envelope/control_law.rs,   *)
(* bounds.rs, poi_servo.rs, stale.rs, anti_windup.rs, recharge.rs,         *)
(* energize.rs) and the tick that feeds it (task.rs), closed through the   *)
(* site: what the children deliver moves the POI, and the meter shows it   *)
(* Lag readings late.                                                      *)
(*                                                                         *)
(* Power is in whole units, discharge positive; POI flow is positive for   *)
(* import.  A gain's product is cut to whole units, so the integrator      *)
(* stands still within Grain units of a limit, where the program's creeps. *)
(* A tick comes once a second; n readings came since the one before, and   *)
(* with n > 1 it is that late.  A limit nobody published is Far.           *)
(***************************************************************************)
EXTENDS Integers, Sequences

CONSTANTS
    PowerMax, PowerMin,        \* the module's ratings
    RampPercent,               \* ramp_rate_per_sec
    MarginPercent,             \* hysteresis_margin
    Dwell,                     \* hysteresis_dwell, seconds
    RechargePower,             \* recharge_power_w
    Far,                       \* more than anything at the POI
    Lags,                      \* readings the meter may lag
    StaleAfter,                \* seconds of silence the task bears with
    Loads,                     \* what the rest of the site may draw
    ImportLimits, ExportLimits,\* limits der_dispatch may publish, Far for none
    Requests,                  \* setpoints operators may ask for
    Capacities,                \* what the children may be able to deliver
    Short,                     \* power a handoff leaves undelivered for a tick
    Settling,                  \* ticks in which the loop must settle
    MaxLate,                   \* bound: seconds to a late tick
    MaxMoves,                  \* bound: changes of load, limits, requests and shares
    MaxFaults                  \* bound: irregular ticks, changes of plant and meter

JumpHoldReadings == 3
Grain == 10

EnvelopeConstants ==
    /\ PowerMin \in Int
    /\ {PowerMax, -PowerMin, Dwell, RechargePower, Far, Short} \subseteq Nat
    /\ {RampPercent, MarginPercent} \subseteq 1..100
    /\ {StaleAfter, Settling, MaxLate, MaxMoves, MaxFaults} \subseteq Nat
    /\ Lags \subseteq Nat \ {0}
    /\ Loads \cup Requests \subseteq Int
    /\ ImportLimits \cup ExportLimits \subseteq 0..Far
    /\ Capacities \subseteq Nat
    /\ \A l \in Loads, c \in Capacities : l + c <= Far /\ c - l <= Far

ASSUME EnvelopeAssumptions == EnvelopeConstants

VARIABLES
    load,        \* what the rest of the site draws
    limit,       \* limit.import, limit.export: the published limits
    request,     \* the module's requested setpoint
    charging,    \* it is below readiness and no event is on
    energized,   \* energize_enabled is not false
    capacity,    \* what the children can deliver, in either direction
    reported,    \* every child has reported
    out,         \* what they deliver
    meter,       \* the POI of the last Lag seconds, oldest first
    reading,     \* the cached reading
    age,         \* ticks since it came
    quiet,       \* the meter is silent
    metered,     \* the site has a POI meter
    output,      \* EnvelopeController.current_output
    mode, dwell, prev, jumpHold,  \* its other fields
    gate,        \* PoiGate.handoff: 0 idle, 3 deferred, 2 and 1 readings to go
    wound,       \* history: the last tick's output was not all delivered
    calm,        \* history: nothing but requests has changed
    since,       \* history: undisturbed ticks since the last change
    moves, faults

siteVars == <<load, limit, request, charging>>
plantVars == <<energized, capacity, reported>>
meterVars == <<meter, reading, age>>
controlVars == <<output, mode, dwell, prev, jumpHold>>
historyVars == <<wound, calm, since>>
boundVars == <<moves, faults>>
envelopeVars == <<siteVars, plantVars, out, metered, meterVars, quiet, controlVars, gate,
                  historyVars, boundVars>>

Limits == [import: ImportLimits, export: ExportLimits]

Lesser(a, b) == IF a <= b THEN a ELSE b
Greater(a, b) == IF a >= b THEN a ELSE b
Abs(x) == IF x < 0 THEN -x ELSE x
Clamp(x, lo, hi) == IF x < lo THEN lo ELSE IF x > hi THEN hi ELSE x

\* The flow at the POI.
Poi == load - out

\* How far the POI is past its limits.
ImportExcess(poi, l) == Greater(0, poi - l.import)
ExportExcess(poi, l) == Greater(0, -poi - l.export)

\* At rest inside its limits and at readiness, about to build its controller.
EnvelopeInit ==
    /\ load \in Loads
    /\ limit \in Limits
    /\ request = 0
    /\ charging = FALSE
    /\ energized = TRUE
    /\ capacity \in Capacities
    /\ reported \in BOOLEAN
    /\ out = 0
    /\ ImportExcess(Poi, limit) = 0
    /\ ExportExcess(Poi, limit) = 0
    /\ \E lag \in Lags : meter = [i \in 1..lag |-> Poi]
    /\ reading = Poi
    /\ age = 0
    /\ quiet = FALSE
    /\ metered \in BOOLEAN
    /\ metered \/ load = 0
    /\ output = 0
    /\ mode = "normal"
    /\ dwell = 0
    /\ prev = [import |-> Far, export |-> Far]
    /\ jumpHold = 0
    /\ gate = 0
    /\ wound = FALSE
    /\ calm = TRUE
    /\ since = 0
    /\ moves = 0
    /\ faults = 0

-----------------------------------------------------------------------------
(* What a tick with n new readings sees *)

\* The readings under way, and those of the n seconds since the last tick.
Readings(n) == meter \o [i \in 1..n |-> Poi]

\* n seconds on, they are these,
Shifted(n) == SubSeq(Readings(n), n + 1, n + Len(meter))

\* and the last that came is the POI of Len(meter) seconds ago.
Reading(n) == IF n = 0 THEN reading ELSE Readings(n)[n]

\* Seconds since the tick before.
Dt(n) == Greater(n, 1)

\* PoiGate::take: two fresh readings after the growth was written lift the hold.
Taken(n) == IF n > 0 /\ gate \in 1..2 THEN gate - 1 ELSE gate

\* recharge::requested_w: an idle module below readiness charges.
Wanted == IF request = 0 /\ charging THEN -RechargePower ELSE request

-----------------------------------------------------------------------------
(* poi_servo.rs *)

\* Room before limit l, for the flow p in the direction it caps.
Headroom(p, l) == IF l = Far THEN Far ELSE p + l

\* The violation a tightening from l0 to l created.
Jump(p, l, l0) == Greater(0, Lesser(Headroom(p, l0), 0) - Lesser(Headroom(p, l), 0))

\* A gain of so many tenths a second, over dt seconds.
Part(x, tenths, dt) == (x * tenths * dt) \div 10

\* Mutant: one gain for both ways.
Rate_Fast(h, opposite, dt) == IF h >= 0 THEN Part(h, 3, dt) ELSE -Part(-h, 3, dt)

\* What the measured headroom h lets the output move in dt seconds: a tenth of
\* it a second towards the limit; away from it three tenths of the excess, no
\* faster than the approach to the opposite limit, no slower than a tenth.
Rate(h, opposite, dt) ==
    IF h >= 0
    THEN Part(h, 1, dt)
    ELSE -Greater(Lesser(Part(-h, 3, dt), Part(opposite, 1, dt)), Part(-h, 1, dt))

Step(p, l, l0, opposite, dt) ==
    LET jump == Jump(p, l, l0)
    IN IF l = Far THEN Far ELSE Rate(Headroom(p, l) + jump, opposite, dt) - jump

\* bounds, and for_tick's hold of the side the output is heading to.
ServoBounds(n) ==
    LET p == Reading(n)
        dt == IF n > 0 /\ jumpHold = 0 THEN n ELSE 0
        export == Headroom(p, limit.export)
        import == Headroom(-p, limit.import)
        exportJumped == Jump(p, limit.export, prev.export) > 0
        importJumped == Jump(-p, limit.import, prev.import) > 0
        up == output + Step(p, limit.export, prev.export, import, dt)
        down == output - Step(-p, limit.import, prev.import, export, dt)
        importWins == importJumped /\ ~exportJumped
        ceiling == IF down > up /\ importWins THEN down ELSE up
        floor == IF down > up /\ ~importWins THEN up ELSE down
        held == Taken(n) # 0
        heldCeiling == IF held /\ output >= 0 THEN Lesser(ceiling, output) ELSE ceiling
        heldFloor == IF held /\ output < 0 THEN Greater(floor, output) ELSE floor
    IN [ceiling |-> heldCeiling,
        floor |-> Lesser(heldFloor, heldCeiling),
        export |-> export,
        import |-> import,
        jumped |-> exportJumped \/ importJumped]

\* Without a POI meter the battery's own reading is the flow.
DirectBounds(n) ==
    [ceiling |-> limit.export,
     floor |-> -limit.import,
     export |-> Headroom(Reading(n), limit.export),
     import |-> Headroom(-Reading(n), limit.import),
     jumped |-> FALSE]

\* for_tick, within the module's ratings.
Bounds(n) ==
    LET b == IF metered THEN ServoBounds(n) ELSE DirectBounds(n)
        ceiling == Lesser(b.ceiling, PowerMax)
    IN [b EXCEPT !.ceiling = ceiling,
                 !.floor = Lesser(Greater(@, PowerMin), ceiling)]

-----------------------------------------------------------------------------
(* control_law.rs: what the tick commands *)

\* A configured fraction of a rating.
Share(percent, rated) == (percent * Abs(rated)) \div 100

Target(b) == Clamp(Wanted, b.floor, b.ceiling)

Violating(b) == b.export <= 0 \/ b.import <= 0

\* Mutant: both sides need their margin.
Clear_Both(b) ==
    /\ b.import >= Share(MarginPercent, PowerMin)
    /\ b.export >= Share(MarginPercent, PowerMax)

\* Only the side the ramp moves to needs its margin.
Clear(b) ==
    IF Target(b) < output
    THEN b.import >= Share(MarginPercent, PowerMin)
    ELSE b.export >= Share(MarginPercent, PowerMax)

\* The event is over: its margin has held for the dwell.
Closes(n, b) == mode = "constrained" /\ Clear(b) /\ dwell + Dt(n) >= Dwell

\* The largest step of a ramp by delta.
MaxStep(n, delta) == Dt(n) * Share(RampPercent, IF delta >= 0 THEN PowerMax ELSE PowerMin)

\* One step of a ramp to the target.
Ramped(n, target) ==
    LET delta == target - output
        step == MaxStep(n, delta)
    IN IF Abs(delta) <= step THEN target ELSE IF delta > 0 THEN output + step ELSE output - step

\* Mutant: no anti-windup.
Commands_Unsynced(v) == output' = v

\* The output becomes v or, sync_to_delivered, what the children can deliver of
\* it.  That is not known before they have all reported; and while the module
\* must not energize they are asked for 0 and deliver that, so the output stays v.
Commands(v) == output' = IF energized /\ reported THEN Clamp(v, -capacity, capacity) ELSE v

Clamps(n, b) ==
    /\ Violating(b)
    /\ mode' = "constrained"
    /\ dwell' = 0
    /\ Commands(Target(b))

Holds(n, b) ==
    /\ ~Violating(b)
    /\ mode = "constrained"
    /\ ~Closes(n, b)
    /\ dwell' = IF Clear(b) THEN dwell + Dt(n) ELSE 0
    /\ Commands(output)
    /\ UNCHANGED mode

Ramps(n, b) ==
    /\ ~Violating(b)
    /\ mode = "ramping" \/ Closes(n, b)
    /\ mode' = IF Abs(Target(b) - output) <= MaxStep(n, Target(b) - output)
               THEN "normal" ELSE "ramping"
    /\ dwell' = IF mode = "constrained" THEN dwell + Dt(n) ELSE dwell
    /\ Commands(Ramped(n, Target(b)))

Tracks(n, b) ==
    /\ ~Violating(b)
    /\ mode = "normal"
    /\ Commands(Target(b))
    /\ UNCHANGED <<mode, dwell>>

\* Mutant: the hold after a jump is not counted down.
Controls_HoldsOn(n) ==
    LET b == Bounds(n) IN
    /\ Clamps(n, b) \/ Holds(n, b) \/ Ramps(n, b) \/ Tracks(n, b)
    /\ prev' = limit
    /\ jumpHold' = IF b.jumped THEN JumpHoldReadings ELSE jumpHold

Controls(n) ==
    LET b == Bounds(n) IN
    /\ Clamps(n, b) \/ Holds(n, b) \/ Ramps(n, b) \/ Tracks(n, b)
    /\ prev' = limit
    /\ jumpHold' = IF b.jumped THEN JumpHoldReadings
                   ELSE IF jumpHold > 0 /\ n > 0 THEN jumpHold - 1 ELSE jumpHold

\* Mutant: the last output is held blind.
RampsToZero_Holds(n) ==
    /\ Commands(output)
    /\ UNCHANGED <<mode, dwell, prev, jumpHold>>

\* stale::ramp_to_zero.
RampsToZero(n) ==
    LET step == MaxStep(n, output) IN
    /\ Commands(IF Abs(output) <= step THEN 0
                ELSE IF output > 0 THEN output - step ELSE output + step)
    /\ UNCHANGED <<mode, dwell, prev, jumpHold>>

-----------------------------------------------------------------------------
(* task.rs: a tick *)

Fault == faults < MaxFaults /\ faults' = faults + 1 /\ since' = 0 /\ UNCHANGED moves
Move == moves < MaxMoves /\ moves' = moves + 1 /\ since' = 0 /\ UNCHANGED faults

\* The reading is too old to steer by.
Stale(n) == metered /\ n = 0 /\ age = StaleAfter

Computes(n) ==
    /\ meter' = Shifted(Dt(n))
    /\ reading' = Reading(n)
    /\ age' = IF n > 0 THEN 0 ELSE Lesser(age + 1, StaleAfter)
    /\ IF Stale(n) THEN RampsToZero(n) ELSE Controls(n)
    /\ UNCHANGED <<siteVars, plantVars, metered, quiet>>

\* energize::target_w, and what the children deliver of it.
Delivered == IF energized THEN Clamp(output', -capacity, capacity) ELSE 0

\* The shares are written and land; without a report from a child there are none.
Lands(n) ==
    /\ out' = IF reported THEN Delivered ELSE out
    /\ gate' = IF reported /\ Taken(n) = 3 THEN 2 ELSE Taken(n)
    /\ wound' = (~energized \/ ~reported)

\* Readings since the last tick, when meter and task are in step.
Beat == IF quiet THEN 0 ELSE 1

Tick ==
    /\ Computes(Beat)
    /\ Lands(Beat)
    /\ since' = Lesser(since + 1, Settling)
    /\ UNCHANGED <<calm, boundVars>>

\* A tick before the next reading, or late behind a slow write.
TickOffBeat(n) ==
    /\ ~quiet
    /\ n # Beat
    /\ Fault
    /\ Computes(n)
    /\ Lands(n)
    /\ calm' = (calm /\ ~Stale(n))

\* Delivered but for the growth a handoff holds back.
Shorted == IF Delivered >= 0 THEN Greater(Delivered - Short, 0) ELSE Lesser(Delivered + Short, 0)

\* A write fails, and none, all or only the shrinks of its batch have landed.
\* A handoff whose growth is lost is not completed later.
TickFails ==
    /\ Fault
    /\ reported
    /\ Computes(Beat)
    /\ out' \in {out, Shorted, Delivered}
    /\ gate' = IF Taken(Beat) = 3 THEN 4 ELSE Taken(Beat)
    /\ wound' = TRUE
    /\ calm' = FALSE

\* Power moves between children: growth is held back for one tick.
TickHandsOff ==
    /\ Move
    /\ reported
    /\ Taken(Beat) # 3
    /\ Computes(Beat)
    /\ out' = Shorted
    /\ gate' = 3
    /\ wound' = TRUE
    /\ calm' = FALSE

\* A reconcile spawns the task again, and with it a new controller, seeded with
\* the cached active_power, which may lag like the meter's readings.
Seeds == {v \in {out} \cup {load - meter[i] : i \in 1..Len(meter)} : PowerMin <= v /\ v <= PowerMax}

Reseed ==
    /\ Fault
    /\ output' \in Seeds
    /\ mode' = "normal"
    /\ dwell' = 0
    /\ prev' = [import |-> Far, export |-> Far]
    /\ jumpHold' = 0
    /\ gate' = 0
    /\ wound' = (output' # out)
    /\ calm' = (calm /\ output' = out)
    /\ UNCHANGED <<siteVars, plantVars, out, metered, meterVars, quiet>>

-----------------------------------------------------------------------------
(* The site *)

LoadChanges ==
    /\ Move
    /\ metered
    /\ load' \in Loads \ {load}
    /\ calm' = FALSE
    /\ UNCHANGED <<limit, request, charging, plantVars, out, metered, meterVars, quiet,
                   controlVars, gate, wound>>

LimitsChange ==
    /\ Move
    /\ limit' \in Limits \ {limit}
    /\ calm' = FALSE
    /\ UNCHANGED <<load, request, charging, plantVars, out, metered, meterVars, quiet,
                   controlVars, gate, wound>>

Command ==
    /\ Move
    /\ request' \in Requests \ {request}
    /\ UNCHANGED <<load, limit, charging, plantVars, out, metered, meterVars, quiet,
                   controlVars, gate, wound, calm>>

ReadinessChanges ==
    /\ Move
    /\ charging' = ~charging
    /\ UNCHANGED <<load, limit, request, plantVars, out, metered, meterVars, quiet,
                   controlVars, gate, wound, calm>>

Cease ==
    /\ Fault
    /\ energized
    /\ energized' = FALSE
    /\ calm' = FALSE
    /\ UNCHANGED <<siteVars, capacity, reported, out, metered, meterVars, quiet, controlVars, gate, wound>>

Energize ==
    /\ ~energized
    /\ since' = 0
    /\ energized' = TRUE
    /\ UNCHANGED <<siteVars, capacity, reported, out, metered, meterVars, quiet, controlVars, gate, wound, calm,
                   boundVars>>

CapacityChanges ==
    /\ Fault
    /\ capacity' \in Capacities \ {capacity}
    /\ calm' = FALSE
    /\ UNCHANGED <<siteVars, energized, reported, out, metered, meterVars, quiet, controlVars, gate, wound>>

ChildReports ==
    /\ Fault
    /\ ~reported
    /\ reported' = TRUE
    /\ calm' = FALSE
    /\ UNCHANGED <<siteVars, energized, capacity, out, metered, meterVars, quiet, controlVars,
                   gate, wound>>

MeterStops ==
    /\ Fault
    /\ metered
    /\ ~quiet
    /\ quiet' = TRUE
    /\ calm' = FALSE
    /\ UNCHANGED <<siteVars, plantVars, out, metered, meterVars, controlVars, gate, wound>>

MeterReturns ==
    /\ quiet
    /\ since' = 0
    /\ quiet' = FALSE
    /\ UNCHANGED <<siteVars, plantVars, out, metered, meterVars, controlVars, gate, wound, calm,
                   boundVars>>

-----------------------------------------------------------------------------
OffBeat == \E n \in 0..MaxLate : TickOffBeat(n)

TickStep == Tick \/ OffBeat \/ TickFails \/ TickHandsOff

EnvelopeNext ==
    \/ TickStep \/ Reseed
    \/ LoadChanges \/ LimitsChange \/ Command \/ ReadinessChanges
    \/ Cease \/ Energize \/ CapacityChanges \/ ChildReports
    \/ MeterStops \/ MeterReturns

EnvelopeSpec == EnvelopeInit /\ [][EnvelopeNext]_envelopeVars

-----------------------------------------------------------------------------
(* Properties *)

\* How far the meter is from the POI when the tick computes.
MeterError == Abs(reading' - Poi)

\* A tick without a reading fresh enough to steer by.
GivesUp == metered /\ age = StaleAfter /\ age' = StaleAfter

\* poi_servo.rs: "it can't overshoot through the lag".  A tick from what the
\* children deliver takes the POI past a limit by no more than it was, or than
\* the meter was wrong by: neither a jump taken off a lagging reading, nor a
\* tick MaxLate seconds after the last, nor children that come back after being
\* out of the split add to it.  Only a tick that ramps to 0 W because its meter
\* is silent may.
StepWithinMeterError ==
    [][(Tick \/ OffBeat) /\ ~wound /\ energized /\ reported /\ Abs(out) <= capacity /\ ~GivesUp =>
        /\ ExportExcess(Poi', limit) <= Greater(ExportExcess(Poi, limit), MeterError)
        /\ ImportExcess(Poi', limit) <= Greater(ImportExcess(Poi, limit), MeterError)]_envelopeVars

\* The tuning of poi_servo.rs ("zero overshoot up to a 3 s lag"): while load,
\* limits and plant stand still, no sequence of requests and recharges, at any
\* moment, takes the POI past a limit.
NoOvershootWhenCalm ==
    calm => ExportExcess(Poi, limit) = 0 /\ ImportExcess(Poi, limit) = 0

\* The module is steered: nothing but its limits and its means bind it.
Steered == energized /\ reported /\ ~quiet

\* The most the module can do either way.
MostDischarge == Lesser(capacity, PowerMax)
MostCharge == Lesser(capacity, -PowerMin)

\* However load, limits and requests have moved and whatever has failed, a
\* module that is left alone for Settling ticks has the POI within its limits, or
\* gives all it has.  (Or, importing, what it had when a handoff's growth write
\* failed: its gate stays held, and bounds.rs then lets no discharge grow.)
LimitsHeld ==
    since = Settling /\ Steered =>
        /\ ExportExcess(Poi, limit) < Grain \/ out <= -MostCharge
        /\ ImportExcess(Poi, limit) < Grain \/ out = MostDischarge \/ (gate = 4 /\ out >= 0)

\* Why so many ticks are enough: each takes a step off a reading up to three
\* seconds old, and the defect that is left on the trail of readings, however
\* large at first, shrinks by two fifths every three ticks until it is gone
\* (damp); then the excess shrinks by a tenth a tick (excess).
SettlesBy(ticks, far, damp, excess) ==
    /\ ticks >= 5
    /\ \A s, t \in 0..ticks : s <= t => damp[t] <= damp[s]
    /\ damp[1] >= 10 * far
    /\ \A s \in 1..ticks : 5 * damp[Lesser(s + 1, ticks)] + 4 >= 3 * damp[Greater(0, s - 2)]
    /\ excess[0] >= far
    /\ \A s \in 0..ticks :
         \/ excess[Lesser(s + 1, ticks)] >= far
         \/ /\ s >= 4
            /\ damp[s - 2] = 0
            /\ excess[Lesser(s + 1, ticks)] >= excess[s] - (excess[s] \div 10)
    /\ excess[ticks] < Grain

\* As close to a limit as the truncated gain or the hysteresis margin lets it.
Near == Greater(Grain, Share(MarginPercent, Greater(PowerMax, -PowerMin)))

\* control_law.rs: output returns to what was requested, "never toward some
\* other value": left alone, it is there unless the limit on that side is in the
\* way.  (A handoff whose growth write failed holds the approach for good.)
RequestFollowed ==
    since = Settling /\ Steered /\ gate # 4 =>
        \/ out = Clamp(Wanted, -MostCharge, MostDischarge)
        \/ out < Wanted /\ Headroom(Poi, limit.export) < Near
        \/ out > Wanted /\ Headroom(-Poi, limit.import) < Near

\* stale.rs: with a meter that stays silent the module ends up at 0 W.
SilenceStopsModule == since = Settling /\ quiet /\ reported => out = 0
=============================================================================
