---------------------------------- MODULE Shed ----------------------------------
(***************************************************************************)
(* Compute shed (envelope/shed.rs, shed_task.rs, dispatch/power_cap.rs):   *)
(* the controller that caps a POI's GPUs when import stays over its limit  *)
(* and gives the power back, its cap writes, the operator's own fleet cap  *)
(* and the POI reading that closes the loop.                               *)
(*                                                                         *)
(* A fleet cap is a level: one level is one STEP_PERCENT of the fleet and  *)
(* one W of each GPU, so a level is Fleet W at the POI.  GPUs draw their   *)
(* cap.  Everything else behind the POI, storage included, is base, and    *)
(* whether storage has spare discharge is spent; both are inputs.  Dwell   *)
(* is counted in readings, and each reading a tick uses is one later.      *)
(* Every reconcile, and every start, makes a new controller, which takes   *)
(* the fleet for uncapped whatever caps it holds.                          *)
(***************************************************************************)
EXTENDS Integers, FiniteSetsExt

CONSTANTS
    Gpus,                      \* children of the power_cap binding
    MinCap, MaxCap,            \* their range (equal for all), W
    ImportLimit, ExportLimit,  \* the envelope, W
    Margin,                    \* hysteresis_margin * fleet_max_w, W
    Ramp,                      \* ramp_rate_per_sec of one tick, levels
    DwellReadings,             \* hysteresis_dwell, readings
    Bases,                     \* what the rest of the site may import, W
    OperatorCaps,              \* fleet caps an operator may command
    Lockable,                  \* GPUs that may get locked out
    Earlier,                   \* caps an earlier process may have left
    None,                      \* no value yet
    MaxEvents                  \* bound: changes of base and of spent, readings taken
                               \* while caps are being written, writes that fail,
                               \* operators' commands, lock changes and reconciles

Fleet == Cardinality(Gpus)

\* An operator's command under way: the request before it, the GPUs it has yet
\* to write, the ones it gave its cap and whether a write of it failed.
Orders == [previous: OperatorCaps \cup {None}, todo: SUBSET Gpus, given: SUBSET Gpus,
           failed: BOOLEAN]

ShedConstants ==
    /\ IsFiniteSet(Gpus)
    /\ {MinCap, MaxCap, ImportLimit, ExportLimit, Margin} \subseteq Nat
    /\ MinCap < MaxCap
    /\ Margin >= Fleet  \* the margin is wider than the resolution
    /\ {Ramp, DwellReadings} \subseteq Nat \ {0}
    /\ Bases \subseteq Int
    /\ OperatorCaps \subseteq 0..MaxCap
    /\ Lockable \subseteq Gpus
    /\ Earlier \subseteq [Gpus -> MinCap..MaxCap]
    /\ None \notin Int /\ None \notin Orders
    /\ MaxEvents \in Nat

ASSUME ShedAssumptions == ShedConstants

VARIABLES
    base,        \* import of everything but the GPUs
    spent,       \* storage has no spare discharge
    poi,         \* the cached POI reading
    fresh,       \* no tick has used it yet
    caps,        \* caps[g]: the cap GPU g holds
    percent,     \* ShedController.percent, as a level
    overFor, clearFor, lastOver,  \* its dwell timers and trend
    requested,   \* the operator's fleet cap in last_requested
    lockedGpus,  \* GPUs locked out
    shedTask,    \* whether the shed task is writing caps
    target,      \* the level it writes
    want,        \* the cap that is for each GPU
    todo,        \* GPUs it has yet to write
    failed,      \* one of its writes failed
    order,       \* the operator's command under way, or None
    strays,      \* history: GPUs left with a cap whose command was acked failed
    forgot,      \* history: the controller was made over caps it does not know of
    partial,     \* history: the last batch of caps failed, a raise or a cut
    skipped,     \* history: a cap was not written, its GPU being locked out
    crossed,     \* history: an operator's command met a shed
    events

baseVars == <<base, spent>>
readingVars == <<poi, fresh>>
controllerVars == <<percent, overFor, clearFor, lastOver>>
writeVars == <<shedTask, target, want, todo, failed>>
operatorVars == <<requested, order>>
shedHistory == <<strays, forgot, partial, skipped, crossed>>
shedVars == <<baseVars, readingVars, caps, controllerVars, lockedGpus, writeVars,
              operatorVars, shedHistory, events>>

ShedInit ==
    /\ base \in Bases
    /\ spent \in BOOLEAN
    /\ poi = None
    /\ fresh = FALSE
    /\ caps \in Earlier
    /\ percent = None
    /\ overFor = 0
    /\ clearFor = 0
    /\ lastOver = None
    /\ requested = None
    /\ lockedGpus = {}
    /\ shedTask = "idle"
    /\ target = 0
    /\ want = 0
    /\ todo = {}
    /\ failed = FALSE
    /\ order = None
    /\ strays = {}
    /\ forgot = (\E g \in Gpus : caps[g] # MaxCap)
    /\ partial = "none"
    /\ skipped = FALSE
    /\ crossed = FALSE
    /\ events = 0

Event == events < MaxEvents /\ events' = events + 1

-----------------------------------------------------------------------------
(* ShedController::tick.  Levels: cuts round toward the current level,     *)
(* raises round up (quantize).                                             *)

AtMost(a, b) == IF a < b THEN a ELSE b
AtLeast(a, b) == IF a > b THEN a ELSE b

Current == IF percent = None THEN MaxCap ELSE percent
Over == poi - ImportLimit
Exported == -poi - ExportLimit
RecoveryRoom == ImportLimit - poi - Margin

Cut(w) == AtMost(w \div Fleet, Ramp)
Raise(w) == AtMost((w + Fleet - 1) \div Fleet, Ramp)

\* child_caps: a level's cap, inside the GPU's range.
CapAt(level) == AtLeast(level, MinCap)

\* The next level, held between the floor and full; unchanged means no write.
Clamped(level) == AtMost(AtLeast(level, MinCap), MaxCap)

\* Import fell by more than SHRINK_DEADBAND, a level's worth.
Closing == lastOver # None /\ lastOver - Over > Fleet

Reset == overFor' = 0 /\ clearFor' = 0 /\ lastOver' = None

\* Exporting past the limit: caps come back at once.
Exporting(next) ==
    /\ Exported > 0
    /\ Reset
    /\ next = Current + Raise(Exported)

\* Storage may still answer: a falling import restarts the dwell.
Waits == ~spent /\ overFor + 1 < DwellReadings

OverLimit(next) ==
    /\ Exported <= 0 /\ Over > 0
    /\ clearFor' = 0
    /\ lastOver' = Over
    /\ overFor' = IF Waits /\ Closing THEN 0 ELSE AtMost(overFor + 1, DwellReadings)
    /\ next = IF Waits THEN Current ELSE Current - Cut(Over)

\* Room to recover: caps come back after a dwell of their own.
Recovering(next) ==
    /\ Exported <= 0 /\ Over <= 0 /\ RecoveryRoom > 0 /\ Current < MaxCap
    /\ overFor' = 0
    /\ clearFor' = AtMost(clearFor + 1, DwellReadings)
    /\ UNCHANGED lastOver
    /\ next = IF clearFor + 1 < DwellReadings THEN Current ELSE Current + Raise(RecoveryRoom)

Holding(next) ==
    /\ Exported <= 0 /\ Over <= 0
    /\ RecoveryRoom <= 0 \/ Current >= MaxCap
    /\ Reset
    /\ next = Current

Control(next) == Exporting(next) \/ OverLimit(next) \/ Recovering(next) \/ Holding(next)

-----------------------------------------------------------------------------
(* The shed task *)

\* Mutant: the operator's cap is forgotten.
Capped_Fleet(level) == level

\* module_caps: never above the operator's cap on the module.
Capped(level) == IF requested = None THEN level ELSE AtMost(level, requested)

\* One second's tick, on a reading no earlier one used: nothing to write ...
TickHolds ==
    /\ shedTask = "idle"
    /\ fresh
    /\ fresh' = FALSE
    /\ \E next \in (Current - Ramp)..(Current + Ramp) :
         Control(next) /\ Clamped(next) = Current
    /\ UNCHANGED <<baseVars, poi, caps, percent, lockedGpus, writeVars, operatorVars,
                   shedHistory, events>>

\* ... or a new level for every GPU not locked out.
TickWrites ==
    /\ shedTask = "idle"
    /\ fresh
    /\ fresh' = FALSE
    /\ \E next \in (Current - Ramp)..(Current + Ramp) :
         /\ Control(next)
         /\ Clamped(next) # Current
         /\ target' = Clamped(next)
    /\ want' = Capped(target')
    /\ todo' = Gpus \ lockedGpus
    /\ failed' = FALSE
    /\ shedTask' = "write"
    /\ skipped' = (skipped \/ lockedGpus # {})
    /\ crossed' = (crossed \/ order # None)
    /\ UNCHANGED <<baseVars, poi, caps, percent, lockedGpus, operatorVars, strays, forgot, partial,
                   events>>

\* write_caps: every GPU's write on its own, in any order.
WriteCap(g) ==
    /\ shedTask = "write"
    /\ g \in todo
    /\ caps' = [caps EXCEPT ![g] = CapAt(want)]
    /\ strays' = strays \ {g}
    /\ todo' = todo \ {g}
    /\ UNCHANGED <<baseVars, readingVars, controllerVars, lockedGpus, shedTask, target, want, failed,
                   operatorVars, forgot, partial, skipped, crossed, events>>

\* A write fails, whatever the GPU made of it.
CapFails(g) ==
    /\ shedTask = "write"
    /\ g \in todo
    /\ Event
    /\ caps' \in {caps, [caps EXCEPT ![g] = CapAt(want)]}
    /\ failed' = TRUE
    /\ todo' = todo \ {g}
    /\ UNCHANGED <<baseVars, readingVars, controllerVars, lockedGpus, shedTask, target, want,
                   operatorVars, shedHistory>>

Outcome == IF ~failed THEN "none" ELSE IF target > Current THEN "raise" ELSE "cut"

\* Mutant: a batch is confirmed though writes failed.
WriteEnds_Confirms ==
    /\ shedTask = "write"
    /\ todo = {}
    /\ percent' = target
    /\ partial' = Outcome
    /\ forgot' = (forgot /\ failed)
    /\ shedTask' = "idle"
    /\ target' = 0
    /\ want' = 0
    /\ failed' = FALSE
    /\ UNCHANGED <<baseVars, readingVars, caps, overFor, clearFor, lastOver, lockedGpus, todo,
                   operatorVars, strays, skipped, crossed, events>>

\* Mutant: no batch is ever confirmed.
WriteEnds_NoConfirm ==
    /\ shedTask = "write"
    /\ todo = {}
    /\ partial' = Outcome
    /\ forgot' = (forgot /\ failed)
    /\ shedTask' = "idle"
    /\ target' = 0
    /\ want' = 0
    /\ failed' = FALSE
    /\ UNCHANGED <<baseVars, readingVars, caps, controllerVars, lockedGpus, todo,
                   operatorVars, strays, skipped, crossed, events>>

\* Only a batch that landed whole is confirmed.
WriteEnds ==
    /\ shedTask = "write"
    /\ todo = {}
    /\ percent' = IF failed THEN percent ELSE target
    /\ partial' = Outcome
    /\ forgot' = (forgot /\ failed)
    /\ shedTask' = "idle"
    /\ target' = 0
    /\ want' = 0
    /\ failed' = FALSE
    /\ UNCHANGED <<baseVars, readingVars, caps, overFor, clearFor, lastOver, lockedGpus, todo,
                   operatorVars, strays, skipped, crossed, events>>

-----------------------------------------------------------------------------
(* The operator, the site and its meter *)

\* An operator's fleet cap: recorded, then written to every GPU not locked.
Operate(level) ==
    /\ order = None
    /\ Event
    /\ requested' = level
    /\ order' = [previous |-> requested, todo |-> Gpus \ lockedGpus, given |-> {}, failed |-> FALSE]
    /\ skipped' = (skipped \/ lockedGpus # {})
    /\ crossed' = (crossed \/ shedTask = "write" \/ Current # MaxCap)
    /\ UNCHANGED <<baseVars, readingVars, caps, controllerVars, lockedGpus, writeVars, strays,
                   forgot, partial>>

OperatorWrite(g) ==
    /\ order # None /\ g \in order.todo
    /\ caps' = [caps EXCEPT ![g] = CapAt(requested)]
    /\ order' = [order EXCEPT !.todo = @ \ {g}, !.given = @ \cup {g}]
    /\ UNCHANGED <<baseVars, readingVars, controllerVars, lockedGpus, writeVars, requested,
                   shedHistory, events>>

\* A write fails, whatever the GPU made of it; the others still land.
OperatorFails(g) ==
    /\ order # None /\ g \in order.todo
    /\ Event
    /\ \/ /\ caps' = [caps EXCEPT ![g] = CapAt(requested)]
          /\ order' = [order EXCEPT !.todo = @ \ {g}, !.given = @ \cup {g}, !.failed = TRUE]
       \/ /\ order' = [order EXCEPT !.todo = @ \ {g}, !.failed = TRUE]
          /\ UNCHANGED caps
    /\ UNCHANGED <<baseVars, readingVars, controllerVars, lockedGpus, writeVars, requested,
                   shedHistory>>

\* handle_command: a command that failed puts the request before it back, and
\* leaves the GPUs it reached at the cap it was refused.
CommandEnds ==
    /\ order # None /\ order.todo = {}
    /\ requested' = IF order.failed THEN order.previous ELSE requested
    /\ strays' = IF order.failed THEN strays \cup order.given ELSE strays \ order.given
    /\ order' = None
    /\ UNCHANGED <<baseVars, readingVars, caps, controllerVars, lockedGpus, writeVars,
                   forgot, partial, skipped, crossed, events>>

\* A reconcile joins the task between ticks and spawns it again: a new
\* controller at no shed, for which the cached reading is a new one.
Respawn ==
    /\ shedTask = "idle"
    /\ Event
    /\ percent' = None
    /\ Reset
    /\ fresh' = (poi # None)
    /\ forgot' = (forgot \/ partial # "none" \/ Current # MaxCap)
    /\ UNCHANGED <<baseVars, poi, caps, lockedGpus, writeVars, operatorVars, strays, partial,
                   skipped, crossed>>

\* The meter's reading; one that comes while caps are written may be old news
\* by the tick that uses it.
PoiReading ==
    /\ poi' = base + MapThenSumSet(LAMBDA g : caps[g], Gpus)
    /\ fresh' = TRUE
    /\ IF shedTask = "write" THEN Event ELSE UNCHANGED events
    /\ UNCHANGED <<baseVars, caps, controllerVars, lockedGpus, writeVars, operatorVars, shedHistory>>

MoveBase(b, s) ==
    /\ Event
    /\ <<b, s>> # baseVars
    /\ base' = b
    /\ spent' = s
    /\ UNCHANGED <<readingVars, caps, controllerVars, lockedGpus, writeVars, operatorVars,
                   shedHistory>>

Lock(set) ==
    /\ Event
    /\ set # lockedGpus
    /\ lockedGpus' = set
    /\ UNCHANGED <<baseVars, readingVars, caps, controllerVars, writeVars, operatorVars,
                   shedHistory>>

-----------------------------------------------------------------------------
ShedNext ==
    \/ TickHolds \/ TickWrites \/ WriteEnds
    \/ \E g \in Gpus : WriteCap(g) \/ CapFails(g)
    \/ \E level \in OperatorCaps : Operate(level)
    \/ \E g \in Gpus : OperatorWrite(g) \/ OperatorFails(g)
    \/ CommandEnds
    \/ Respawn
    \/ PoiReading
    \/ \E b \in Bases, s \in BOOLEAN : MoveBase(b, s)
    \/ \E set \in SUBSET Lockable : Lock(set)

ShedSpec == ShedInit /\ [][ShedNext]_shedVars

\* The interval ticks, writes come back, the meter is polled.
ShedFairness ==
    /\ WF_shedVars(TickHolds \/ TickWrites)
    /\ WF_shedVars(WriteEnds \/ \E g \in Gpus : WriteCap(g) \/ CapFails(g))
    /\ WF_shedVars(CommandEnds \/ \E g \in Gpus : OperatorWrite(g) \/ OperatorFails(g))
    /\ SF_shedVars(PoiReading /\ shedTask = "idle" /\ ~fresh)

ShedFairSpec == ShedSpec /\ ShedFairness

-----------------------------------------------------------------------------
(* Properties *)

Load == MapThenSumSet(LAMBDA g : caps[g], Gpus)

OperatorCap == IF requested = None THEN MaxCap ELSE CapAt(requested)

\* A raise from the floor landed in part: not confirmed, so the controller is
\* still at the floor, with GPUs above it and nothing left to cut.
StuckAtFloor == partial = "raise" /\ Current = MinCap

\* shed.rs: "so the POI stays inside the envelope".  When what is left of the
\* site allows it, import comes back under its limit, to within the resolution
\* of a cap, and stays there: through failed writes, stale readings, reconciles
\* that forget the shed and commands that fail, as long as no GPU was locked out,
\* no operator's command met the shed and no raise from the floor failed in part.
EnvelopeHeld ==
    <>[](base + Fleet * MinCap <= ImportLimit /\ ~skipped /\ ~crossed /\ ~StuckAtFloor)
        => <>[](base + Load < ImportLimit + Fleet)

\* With room for all, every GPU is given back what its operator lets it have,
\* unless the last batch of caps failed in part, the controller was made while the
\* fleet was shed and has not shed since (it takes the fleet for uncapped, and
\* never raises), or as above; a GPU left with a refused cap keeps that.
CapsRestored ==
    <>[](base + Fleet * MaxCap + Margin < ImportLimit
           /\ partial = "none" /\ ~forgot /\ ~skipped /\ ~crossed)
        => <>[](\A g \in Gpus \ strays : caps[g] = OperatorCap)

\* Between writes no GPU is above the cap its operator set, but the ones a
\* command reached that was acked failed for another's sake.
UnderOperatorCap ==
    shedTask = "idle" /\ order = None /\ ~skipped /\ ~crossed
        => \A g \in Gpus \ strays : caps[g] <= OperatorCap

=============================================================================
