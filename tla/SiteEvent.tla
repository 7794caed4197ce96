------------------------------- MODULE SiteEvent -------------------------------
(***************************************************************************)
(* Site distribution over one curtailment event after another: the share   *)
(* of der_dispatch's target each module is commanded, and the release that *)
(* puts the operators' setpoints back (der_dispatch/site_distribution.rs,  *)
(* event_memory.rs, posture.rs, module_command.rs).                        *)
(*                                                                         *)
(* Each command of the task and of an operator is one step on the          *)
(* module's request, as RequestRegister has it (CommandRefinement shows    *)
(* that for guarded modules, which both may command at once), with the     *)
(* outcomes handle_command has for its caller.  The shares a tick          *)
(* allocates are its input.                                                *)
(***************************************************************************)
EXTENDS Naturals

CONSTANTS
    Modules,       \* distribute parents with bounds (bess_module)
    Values,        \* setpoints, 0 (W) among them
    None,          \* no entry: no request, no share, no snapshot
    Lockable,      \* modules that may get locked out
    MaxEvents,     \* bound: changes of der_dispatch's posture
    MaxOperator,   \* bound: commands of operators
    MaxLocks,      \* bound: lock changes
    MaxFaults      \* bound: failed writes, and acks that cannot be published

ASSUME SiteEventAssumptions ==
    /\ 0 \in Values
    /\ None \notin Values
    /\ None \notin [Modules -> Values \cup {None}]
    /\ Lockable \subseteq Modules
    /\ MaxEvents \in Nat
    /\ MaxOperator \in Nat
    /\ MaxLocks \in Nat
    /\ MaxFaults \in Nat

VARIABLES
    posture,    \* what der_dispatch's channels say: Hold, Release or Dispatch
    requested,  \* requested[m]: m's setpoint in last_requested
    by,         \* history: whether an operator or the event last moved it
    choice,     \* history: choice[m]: what an operator last asked of m
    mid,        \* history: modules an operator commanded since the snapshot
    lost,       \* history: modules whose operator's command the task overtook
    failed,     \* history: modules with a command refused, or done unheard, since then
    locked,     \* modules locked out
    snapshot,   \* EventMemory.snapshot
    dispatched, \* EventMemory.dispatched
    task,       \* what the tick is doing
    todo,       \* the commands it has yet to hand over: module -> setpoint
    handled,    \* release's all_published
    events, operator, locks, faults

memory == <<snapshot, dispatched>>
requestVars == <<requested, by, choice, lost, failed>>
vars == <<posture, requestVars, mid, locked, memory, task, todo, handled,
          events, operator, locks, faults>>

Nothing == [m \in Modules |-> None]

Init ==
    /\ posture = "hold"
    /\ requested = Nothing
    /\ by = [m \in Modules |-> "operator"]
    /\ choice = Nothing
    /\ mid = {}
    /\ lost = {}
    /\ failed = {}
    /\ locked = {}
    /\ snapshot = None
    /\ dispatched = Nothing
    /\ task = "idle"
    /\ todo = Nothing
    /\ handled = TRUE
    /\ events = 0
    /\ operator = 0
    /\ locks = 0
    /\ faults = 0

-----------------------------------------------------------------------------
(* Ticks *)

\* EventMemory::begin: only the first tick of an event snapshots.
Begin == snapshot' = IF snapshot = None THEN requested ELSE snapshot

\* EventMemory::changed: the shares that differ from what was last dispatched.
Changed(shares) ==
    [m \in Modules |->
        IF m \in DOMAIN shares /\ shares[m] # dispatched[m] THEN shares[m] ELSE None]

\* An input has not landed yet: the tick returns.
TickWaits == task = "idle" /\ posture = "hold" /\ UNCHANGED vars

\* Split the target over the modules not locked out.
TickDispatch(shares) ==
    /\ task = "idle"
    /\ posture = "dispatch"
    /\ Begin
    /\ todo' = Changed(shares)
    /\ task' = "dispatch"
    /\ UNCHANGED <<posture, requestVars, mid, locked, dispatched, handled,
                   events, operator, locks, faults>>

\* Some module's state of charge is not cached, or there is no module to split over.
TickHolds ==
    /\ task = "idle"
    /\ posture = "dispatch"
    /\ Begin
    /\ UNCHANGED <<posture, requestVars, mid, locked, dispatched, task, todo, handled,
                   events, operator, locks, faults>>

\* Mutant: the module's present setpoint is not looked at.
Restores_Always ==
    [m \in Modules |->
        IF snapshot = None \/ dispatched[m] = None THEN None
        ELSE IF snapshot[m] = None THEN 0 ELSE snapshot[m]]

\* EventMemory::end: back to the pre-event setpoint, 0 without one, unless the
\* module's setpoint is no longer the event's.
Restores ==
    [m \in Modules |->
        IF snapshot = None \/ dispatched[m] = None \/ requested[m] # dispatched[m] THEN None
        ELSE IF snapshot[m] = None THEN 0 ELSE snapshot[m]]

\* Mutant: a release with nothing to restore returns early.
TickRelease_Early ==
    /\ task = "idle"
    /\ posture = "release"
    /\ IF Restores = Nothing
       THEN UNCHANGED <<todo, handled, task>>
       ELSE todo' = Restores /\ handled' = TRUE /\ task' = "release"
    /\ UNCHANGED <<posture, requestVars, mid, locked, memory, events, operator, locks, faults>>

TickRelease ==
    /\ task = "idle"
    /\ posture = "release"
    /\ todo' = Restores
    /\ handled' = TRUE
    /\ task' = "release"
    /\ UNCHANGED <<posture, requestVars, mid, locked, memory, events, operator, locks, faults>>

-----------------------------------------------------------------------------
(* dispatch_one: one command, and what handle_command makes of it *)

\* Handed over and answered: record a share, whatever the answer was.
Answered(m) ==
    /\ dispatched' = IF task = "dispatch" THEN [dispatched EXCEPT ![m] = todo[m]] ELSE dispatched
    /\ UNCHANGED handled

\* Not answered: a share is not recorded, a release will be tried again.
Unanswered == handled' = FALSE /\ UNCHANGED dispatched

\* The command becomes the module's request; a restore gives it back.
TakesEffect(m) ==
    /\ requested' = [requested EXCEPT ![m] = todo[m]]
    /\ lost' = IF m \in mid /\ (task = "dispatch" \/ requested[m] = dispatched[m])
               THEN lost \cup {m} ELSE lost
    /\ by' = [by EXCEPT ![m] = IF task = "dispatch" THEN "event" ELSE "operator"]

Command(m) ==
    /\ task # "idle"
    /\ todo[m] # None
    /\ todo' = [todo EXCEPT ![m] = None]
    /\ UNCHANGED <<posture, choice, mid, locked, snapshot, task, events, operator, locks>>

Done(m) ==
    /\ Command(m)
    /\ m \notin locked
    /\ TakesEffect(m)
    /\ Answered(m)
    /\ UNCHANGED <<failed, faults>>

\* Carried out, but `done` could not be published.
DoneUnheard(m) ==
    /\ Command(m)
    /\ m \notin locked
    /\ faults < MaxFaults
    /\ faults' = faults + 1
    /\ TakesEffect(m)
    /\ Unanswered
    /\ failed' = failed \cup {m}

\* Acked `failed`: locked out ...
RefusedLocked(m) ==
    /\ Command(m)
    /\ m \in locked
    /\ Answered(m)
    /\ failed' = failed \cup {m}
    /\ UNCHANGED <<requested, by, lost, faults>>

\* ... or a write failed and the request was put back.
RefusedWrite(m) ==
    /\ Command(m)
    /\ m \notin locked
    /\ faults < MaxFaults
    /\ faults' = faults + 1
    /\ Answered(m)
    /\ failed' = failed \cup {m}
    /\ UNCHANGED <<requested, by, lost>>

\* `received` could not be published: nothing was done.
Unheard(m) ==
    /\ Command(m)
    /\ faults < MaxFaults
    /\ faults' = faults + 1
    /\ Unanswered
    /\ UNCHANGED <<requested, by, lost, failed>>

\* Mutant: a release forgets the event though a command was not answered.
TickEnds_Forgets ==
    /\ task # "idle"
    /\ todo = Nothing
    /\ IF task = "release"
       THEN snapshot' = None /\ dispatched' = Nothing /\ mid' = {}
       ELSE UNCHANGED <<memory, mid>>
    /\ task' = "idle"
    /\ handled' = TRUE
    /\ UNCHANGED <<posture, requestVars, locked, todo, events, operator, locks, faults>>

\* Every command is handed over; a release that was answered forgets the event.
TickEnds ==
    /\ task # "idle"
    /\ todo = Nothing
    /\ IF task = "release" /\ handled
       THEN snapshot' = None /\ dispatched' = Nothing /\ mid' = {}
       ELSE UNCHANGED <<memory, mid>>
    /\ task' = "idle"
    /\ handled' = TRUE
    /\ UNCHANGED <<posture, requestVars, locked, todo, events, operator, locks, faults>>

-----------------------------------------------------------------------------
(* The site *)

Event(p) ==
    /\ events < MaxEvents
    /\ p # posture
    /\ posture' = p
    /\ events' = events + 1
    /\ UNCHANGED <<requestVars, mid, locked, memory, task, todo, handled, operator, locks, faults>>

\* An operator's command, carried out through the forwarder.
Operate(m, v) ==
    /\ operator < MaxOperator
    /\ m \notin locked
    /\ operator' = operator + 1
    /\ requested' = [requested EXCEPT ![m] = v]
    /\ by' = [by EXCEPT ![m] = "operator"]
    /\ choice' = [choice EXCEPT ![m] = v]
    /\ mid' = IF snapshot = None THEN mid ELSE mid \cup {m}
    /\ lost' = IF task = "release" /\ todo[m] # None THEN lost \cup {m} ELSE lost \ {m}
    /\ failed' = failed \ {m}
    /\ UNCHANGED <<posture, locked, memory, task, todo, handled, events, locks, faults>>

Lock(set) ==
    /\ locks < MaxLocks
    /\ set # locked
    /\ locked' = set
    /\ locks' = locks + 1
    /\ UNCHANGED <<posture, requestVars, mid, memory, task, todo, handled, events, operator, faults>>

-----------------------------------------------------------------------------
TaskStep ==
    \/ \E shares \in [Modules \ locked -> Values] : TickDispatch(shares)
    \/ TickWaits
    \/ TickHolds
    \/ TickRelease
    \/ \E m \in Modules :
         \/ Done(m) \/ DoneUnheard(m)
         \/ RefusedLocked(m) \/ RefusedWrite(m)
         \/ Unheard(m)
    \/ TickEnds

Next ==
    \/ TaskStep
    \/ \E p \in {"hold", "release", "dispatch"} : Event(p)
    \/ \E m \in Modules, v \in Values : Operate(m, v)
    \/ \E set \in SUBSET Lockable : Lock(set)

Spec == Init /\ [][Next]_vars

\* The task's interval keeps ticking; nobody else need do anything.
FairSpec == Spec /\ WF_vars(TaskStep)

-----------------------------------------------------------------------------
(* Properties *)

\* site_distribution.rs: "On event_active false, each module the event
\* dispatched is commanded back": once the event is forgotten only modules
\* that refused a command, or carried one out without its `done` being heard
\* (dispatch_one counts the one as handled and the other as not), are left on
\* a setpoint the event gave them, through operators' commands, commands that
\* were never heard, locks, and events that pause and resume.
NoTraceUnlessRefused ==
    snapshot = None => \A m \in Modules : by[m] = "operator" \/ m \in failed

\* Event memory gives every operator their choice back: what they asked before
\* the event, or during it ("that command stands", event_memory.rs end).  It is
\* lost only to a share that changed after it, to a restore decided before it,
\* or when it asked for just what the event had.
ChoiceComesBack ==
    snapshot = None =>
        \A m \in Modules \ (failed \cup lost) :
            requested[m] = choice[m] \/ (choice[m] = None /\ requested[m] = 0)

\* A release ends: once the event stays over its memory is cleared, through
\* commands that were not answered and had to be tried again.
ReleaseEnds == <>[](posture = "release") => <>[](snapshot = None)

=============================================================================
