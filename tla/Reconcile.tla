------------------------------- MODULE Reconcile -------------------------------
(***************************************************************************)
(* How the running gateway follows its specification (app.rs run): fetched *)
(* at boot, and again on each system/topology_changed beacon, when the     *)
(* task set is stopped, the device maps commands use are swapped, the      *)
(* subscriptions updated (mqtt/subscriptions.rs) and a new set spawned.    *)
(*                                                                         *)
(* A specification is one value: the tasks it spawns, the bindings and the *)
(* trust it carries and its input topics are functions of it.  device-api  *)
(* and the broker are external, as in Lockouts; the session is clean, so a *)
(* lost link forgets the subscriptions and what is published meanwhile.    *)
(* Of the topics in every list the topology beacon is kept.                *)
(***************************************************************************)
EXTENDS Naturals

CONSTANTS
    Specs,             \* what GET /asyncapi may answer
    Aligned,           \* the ones the gateway's credentials can serve
    Tasks, TasksOf,    \* TasksOf[s]: pollers, loops and heartbeats s spawns
    Pollers,           \* the ones that only read, and may hang on a device
    Topics, InputsOf,  \* InputsOf[s]: subscription_list, the topics s needs
    Beacon,            \* TOPIC_TOPOLOGY_CHANGED
    NoSpec,            \* nothing fetched yet
    MaxChanges,        \* bound: topology changes
    MaxOutages,        \* bound: losses of the gateway's broker link
    MaxFailures,       \* bound: fetches given up
    MaxRefusals,       \* bound: (un)subscribe calls that fail on a live link
    MaxOverruns,       \* bound: beacons dropped by a full stream
    MaxShutdowns       \* bound: SIGTERMs

ASSUME ReconcileAssumptions ==
    /\ Aligned \subseteq Specs
    /\ NoSpec \notin Specs
    /\ TasksOf \in [Specs -> SUBSET Tasks]
    /\ Pollers \subseteq Tasks
    /\ InputsOf \in [Specs -> SUBSET Topics]
    /\ \A s \in Specs : Beacon \in InputsOf[s]
    /\ MaxChanges \in Nat
    /\ MaxOutages \in Nat
    /\ MaxFailures \in Nat
    /\ MaxRefusals \in Nat
    /\ MaxOverruns \in Nat
    /\ MaxShutdowns \in Nat

VARIABLES
    truth,     \* device-api's specification
    owed,      \* device-api has a beacon to publish
    linkUp,    \* the gateway's broker link
    heard,     \* the topics the broker has subscribed for the gateway
    asked,     \* what the connected callback has issued and the broker not handled
    stream,    \* beacons wait for the forwarder
    beacon,    \* the watch channel holds a beacon the main loop has not seen
    pc,        \* where app::run is
    fresh,     \* the specification it has just fetched
    current,   \* current_spec
    list,      \* Subscriptions.current, what a reconnect re-issues
    channels,  \* the specification Devices.channels was projected from
    trust,     \* the one Devices.trust was
    tasksOf,   \* the one the task set was spawned from
    alive,     \* its tasks that have not exited
    ticking,   \* its tasks in the middle of a tick
    stopping,  \* its cancellation token has fired
    command,   \* what the forwarder's command holds: no guard, channels', both
    seen,      \* the specifications behind the maps it holds
    shutdown,  \* the shutdown signal has fired
    missed,    \* history: a beacon or a fetch was lost since the last good fetch
    shaky,     \* history: an update of the subscriptions met a failure
    deaf,      \* history: the callback's subscription was refused on this link
    changes, outages, failures, refusals, overruns, shutdowns

apiVars == <<truth, owed, changes>>
subVars == <<linkUp, heard, asked, deaf, outages>>
brokerVars == <<subVars, stream>>
mapVars == <<channels, trust>>
taskVars == <<tasksOf, alive, ticking, stopping>>
commandVars == <<command, seen>>
faultVars == <<failures, refusals, overruns, shutdowns>>
runVars == <<pc, fresh, current, list>>
vars == <<apiVars, brokerVars, beacon, runVars, mapVars, taskVars, commandVars,
          shutdown, missed, shaky, faultVars>>

Optional == Specs \cup {NoSpec}
Booting == {"boot", "subscribe_all"}
Swapping == {"channels", "trust", "unsubscribe", "subscribe", "commit"}

FlagsOK ==
    /\ owed \in BOOLEAN
    /\ linkUp \in BOOLEAN
    /\ stream \in BOOLEAN
    /\ beacon \in BOOLEAN
    /\ stopping \in BOOLEAN
    /\ shutdown \in BOOLEAN
    /\ missed \in BOOLEAN
    /\ shaky \in BOOLEAN
    /\ deaf \in BOOLEAN

CountersOK ==
    /\ changes \in 0..MaxChanges
    /\ outages \in 0..MaxOutages
    /\ failures \in 0..MaxFailures
    /\ refusals \in 0..MaxRefusals
    /\ overruns \in 0..MaxOverruns
    /\ shutdowns \in 0..MaxShutdowns

TypeOK ==
    /\ truth \in Specs
    /\ pc \in Booting \cup Swapping \cup {"select", "join", "fetch", "stop", "exit"}
    /\ fresh \in Optional
    /\ current \in Optional
    /\ channels \in Optional
    /\ trust \in Optional
    /\ tasksOf \in Optional
    /\ heard \in SUBSET Topics
    /\ asked \in SUBSET Topics
    /\ list \in SUBSET Topics
    /\ alive \in SUBSET Tasks
    /\ ticking \in SUBSET alive
    /\ command \in {"none", "channels", "both"}
    /\ seen \in [channels: Optional, trust: Optional]
    /\ FlagsOK
    /\ CountersOK

Nothing == [channels |-> NoSpec, trust |-> NoSpec]

Init ==
    /\ truth \in Specs
    /\ owed = FALSE
    /\ linkUp = TRUE
    /\ heard = {}
    /\ asked = {}
    /\ stream = FALSE
    /\ beacon = FALSE
    /\ pc = "boot"
    /\ fresh = NoSpec
    /\ current = NoSpec
    /\ list = {}
    /\ channels = NoSpec
    /\ trust = NoSpec
    /\ tasksOf = NoSpec
    /\ alive = {}
    /\ ticking = {}
    /\ stopping = FALSE
    /\ command = "none"
    /\ seen = Nothing
    /\ shutdown = FALSE
    /\ missed = FALSE
    /\ shaky = FALSE
    /\ deaf = FALSE
    /\ changes = 0
    /\ outages = 0
    /\ failures = 0
    /\ refusals = 0
    /\ overruns = 0
    /\ shutdowns = 0

-----------------------------------------------------------------------------
(* device-api and the broker *)

\* device-api rebuilds its specification, perhaps to the same one.
ChangeSpec(s) ==
    /\ changes < MaxChanges
    /\ changes' = changes + 1
    /\ truth' = s
    /\ owed' = TRUE
    /\ UNCHANGED <<brokerVars, beacon, runVars, mapVars, taskVars, commandVars,
                   shutdown, missed, shaky, faultVars>>

\* The process runs and has subscribed.
Up == pc \notin Booting \cup {"exit"}

Subscribed == linkUp /\ Beacon \in heard

Deliver ==
    /\ owed /\ Subscribed /\ Up
    /\ owed' = FALSE
    /\ stream' = TRUE
    /\ UNCHANGED <<truth, changes, subVars, beacon, runVars, mapVars,
                   taskVars, commandVars, shutdown, missed, shaky, faultVars>>

\* The forwarder's stream is full and drops it.
Overrun ==
    /\ owed /\ Subscribed /\ Up
    /\ overruns < MaxOverruns
    /\ overruns' = overruns + 1
    /\ owed' = FALSE
    /\ missed' = TRUE
    /\ UNCHANGED <<truth, changes, brokerVars, beacon, runVars, mapVars, taskVars,
                   commandVars, shutdown, shaky, failures, refusals, shutdowns>>

\* Published to nobody.  Only before the boot fetch does that lose nothing.
PublishUnheard ==
    /\ owed /\ ~(Subscribed /\ Up)
    /\ owed' = FALSE
    /\ missed' = (missed \/ pc # "boot")
    /\ UNCHANGED <<truth, changes, brokerVars, beacon, runVars, mapVars, taskVars,
                   commandVars, shutdown, shaky, faultVars>>

Disconnect ==
    /\ linkUp
    /\ Up
    /\ outages < MaxOutages
    /\ outages' = outages + 1
    /\ linkUp' = FALSE
    /\ heard' = {}
    /\ asked' = {}
    /\ deaf' = FALSE
    /\ shaky' = (shaky \/ pc \in {"unsubscribe", "subscribe", "commit"})
    /\ UNCHANGED <<apiVars, stream, beacon, runVars, mapVars, taskVars, commandVars,
                   shutdown, missed, faultVars>>

\* Mutant: the callback re-subscribes nothing.
Reconnect_Deaf ==
    /\ ~linkUp
    /\ Up
    /\ linkUp' = TRUE
    /\ UNCHANGED <<apiVars, heard, asked, deaf, outages, stream, beacon, runVars, mapVars,
                   taskVars, commandVars, shutdown, missed, shaky, faultVars>>

\* The connected callback re-issues the current list, and does not wait for it.
Reconnect ==
    /\ ~linkUp
    /\ Up
    /\ linkUp' = TRUE
    /\ asked' = list
    /\ UNCHANGED <<apiVars, heard, deaf, outages, stream, beacon, runVars, mapVars,
                   taskVars, commandVars, shutdown, missed, shaky, faultVars>>

\* The broker takes the list ...
Resubscribe ==
    /\ asked # {}
    /\ Up
    /\ heard' = heard \cup asked
    /\ asked' = {}
    /\ UNCHANGED <<apiVars, linkUp, deaf, outages, stream, beacon, runVars, mapVars,
                   taskVars, commandVars, shutdown, missed, shaky, faultVars>>

\* ... or does not, which nobody looks at: the link is up and the gateway deaf.
ResubscribeRefused ==
    /\ asked # {}
    /\ Up
    /\ refusals < MaxRefusals
    /\ refusals' = refusals + 1
    /\ asked' = {}
    /\ deaf' = TRUE
    /\ UNCHANGED <<apiVars, linkUp, heard, outages, stream, beacon, runVars, mapVars,
                   taskVars, commandVars, shutdown, missed, shaky, failures, overruns, shutdowns>>

-----------------------------------------------------------------------------
(* The forwarder: one message after the other *)

Forward ==
    /\ stream
    /\ Up
    /\ command = "none"
    /\ stream' = FALSE
    /\ beacon' = TRUE
    /\ UNCHANGED <<apiVars, subVars, runVars, mapVars, taskVars,
                   commandVars, shutdown, missed, shaky, faultVars>>

\* A command takes the read guards one after the other ...
CommandReadsChannels ==
    /\ Up
    /\ command = "none"
    /\ command' = "channels"
    /\ seen' = [seen EXCEPT !.channels = channels]
    /\ UNCHANGED <<apiVars, brokerVars, beacon, runVars, mapVars, taskVars,
                   shutdown, missed, shaky, faultVars>>

CommandReadsTrust ==
    /\ command = "channels"
    /\ command' = "both"
    /\ seen' = [seen EXCEPT !.trust = trust]
    /\ UNCHANGED <<apiVars, brokerVars, beacon, runVars, mapVars, taskVars,
                   shutdown, missed, shaky, faultVars>>

\* ... and drops them when handle_command returns.
CommandEnds ==
    /\ command = "both"
    /\ command' = "none"
    /\ seen' = Nothing
    /\ UNCHANGED <<apiVars, brokerVars, beacon, runVars, mapVars, taskVars,
                   shutdown, missed, shaky, faultVars>>

-----------------------------------------------------------------------------
(* The task set *)

\* A select with a fired token and a tick due may still take the tick.
TickBegins(t) ==
    /\ t \in alive \ ticking
    /\ ticking' = ticking \cup {t}
    /\ UNCHANGED <<apiVars, brokerVars, beacon, runVars, mapVars, tasksOf, alive, stopping,
                   commandVars, shutdown, missed, shaky, faultVars>>

TickEnds(t) ==
    /\ t \in ticking
    /\ ticking' = ticking \ {t}
    /\ UNCHANGED <<apiVars, brokerVars, beacon, runVars, mapVars, tasksOf, alive, stopping,
                   commandVars, shutdown, missed, shaky, faultVars>>

\* Mutant: pollers, too, see their token between ticks only.
TaskExits_AfterTick(t) ==
    /\ stopping
    /\ t \in alive \ ticking
    /\ alive' = alive \ {t}
    /\ ticking' = ticking \ {t}
    /\ UNCHANGED <<apiVars, brokerVars, beacon, runVars, mapVars, tasksOf, stopping,
                   commandVars, shutdown, missed, shaky, faultVars>>

\* A task sees its token between ticks; a poller drops the reads it is at.
TaskExits(t) ==
    /\ stopping
    /\ t \in alive
    /\ t \in ticking => t \in Pollers
    /\ alive' = alive \ {t}
    /\ ticking' = ticking \ {t}
    /\ UNCHANGED <<apiVars, brokerVars, beacon, runVars, mapVars, tasksOf, stopping,
                   commandVars, shutdown, missed, shaky, faultVars>>

\* Mutant: the new tasks share the token that has fired.
Spawn_OldToken(s) ==
    /\ tasksOf' = s
    /\ alive' = TasksOf[s]
    /\ ticking' = {}
    /\ UNCHANGED stopping

\* spawn_task_set, with a token of its own.
Spawn(s) ==
    /\ tasksOf' = s
    /\ alive' = TasksOf[s]
    /\ ticking' = {}
    /\ stopping' = FALSE

-----------------------------------------------------------------------------
(* Boot *)

BootFetch ==
    /\ pc = "boot"
    /\ truth \in Aligned
    /\ fresh' = truth
    /\ current' = truth
    /\ channels' = truth
    /\ trust' = truth
    /\ pc' = "subscribe_all"
    /\ UNCHANGED <<apiVars, brokerVars, beacon, list, taskVars, commandVars,
                   shutdown, missed, shaky, faultVars>>

BootSubscribe ==
    /\ pc = "subscribe_all"
    /\ list' = InputsOf[current]
    /\ heard' = list'
    /\ Spawn(current)
    /\ pc' = "select"
    /\ UNCHANGED <<apiVars, linkUp, asked, deaf, outages, stream, beacon, fresh, current,
                   mapVars, commandVars, shutdown, missed, shaky, faultVars>>

\* A specification the credentials cannot serve, a fetch or a subscribe that fails.
BootFails ==
    /\ \/ pc = "boot" /\ truth \notin Aligned /\ UNCHANGED failures
       \/ pc \in Booting /\ failures < MaxFailures /\ failures' = failures + 1
    /\ pc' = "exit"
    /\ UNCHANGED <<apiVars, brokerVars, beacon, fresh, current, list, mapVars, taskVars,
                   commandVars, shutdown, missed, shaky, refusals, overruns, shutdowns>>

\* A new process: everything but device-api's specification starts over.
Restart ==
    /\ pc = "exit"
    /\ pc' = "boot"
    /\ linkUp' = TRUE
    /\ heard' = {}
    /\ asked' = {}
    /\ deaf' = FALSE
    /\ stream' = FALSE
    /\ beacon' = FALSE
    /\ list' = {}
    /\ shutdown' = FALSE
    /\ missed' = FALSE
    /\ shaky' = FALSE
    /\ fresh' = NoSpec
    /\ current' = NoSpec
    /\ channels' = NoSpec
    /\ trust' = NoSpec
    /\ UNCHANGED <<apiVars, outages, taskVars, commandVars, faultVars>>

-----------------------------------------------------------------------------
(* The main loop *)

\* A beacon: cancel the task set ...
Wake ==
    /\ pc = "select"
    /\ beacon
    /\ beacon' = FALSE
    /\ stopping' = TRUE
    /\ pc' = "join"
    /\ UNCHANGED <<apiVars, brokerVars, fresh, current, list, mapVars, tasksOf, alive, ticking,
                   commandVars, shutdown, missed, shaky, faultVars>>

\* Mutant: the old tasks are cancelled and not waited for.
Join_Eager ==
    /\ pc = "join"
    /\ pc' = "fetch"
    /\ UNCHANGED <<apiVars, brokerVars, beacon, fresh, current, list, mapVars, taskVars,
                   commandVars, shutdown, missed, shaky, faultVars>>

\* ... and wait for the last of them.
Join ==
    /\ pc = "join"
    /\ alive = {}
    /\ pc' = "fetch"
    /\ UNCHANGED <<apiVars, brokerVars, beacon, fresh, current, list, mapVars, taskVars,
                   commandVars, shutdown, missed, shaky, faultVars>>

\* A specification the credentials cannot serve is turned down.
FetchAnswers ==
    /\ pc = "fetch"
    /\ missed' = FALSE
    /\ IF truth \in Aligned
       THEN fresh' = truth /\ pc' = "channels" /\ UNCHANGED taskVars
       ELSE Spawn(current) /\ pc' = "select" /\ UNCHANGED fresh
    /\ UNCHANGED <<apiVars, brokerVars, beacon, current, list, mapVars, commandVars,
                   shutdown, shaky, faultVars>>

\* The last good set is spawned again.
FetchFails ==
    /\ pc = "fetch"
    /\ failures < MaxFailures
    /\ failures' = failures + 1
    /\ missed' = TRUE
    /\ Spawn(current)
    /\ pc' = "select"
    /\ UNCHANGED <<apiVars, brokerVars, beacon, fresh, current, list, mapVars, commandVars,
                   shutdown, shaky, refusals, overruns, shutdowns>>

\* Each map is swapped under its own write guard.
SwapChannels ==
    /\ pc = "channels"
    /\ command = "none"
    /\ channels' = fresh
    /\ pc' = "trust"
    /\ UNCHANGED <<apiVars, brokerVars, beacon, fresh, current, list, trust, taskVars,
                   commandVars, shutdown, missed, shaky, faultVars>>

\* Mutant: the new trust is not waited for.
SwapTrust_Unguarded ==
    /\ pc = "trust"
    /\ trust' = fresh
    /\ pc' = "unsubscribe"
    /\ UNCHANGED <<apiVars, brokerVars, beacon, fresh, current, list, channels, taskVars,
                   commandVars, shutdown, missed, shaky, faultVars>>

SwapTrust ==
    /\ pc = "trust"
    /\ command # "both"
    /\ trust' = fresh
    /\ pc' = "unsubscribe"
    /\ UNCHANGED <<apiVars, brokerVars, beacon, fresh, current, list, channels, taskVars,
                   commandVars, shutdown, missed, shaky, faultVars>>

\* Subscriptions::update: diff against the list, a call only where there is one.
Removed == list \ InputsOf[fresh]
Added == InputsOf[fresh] \ list

\* Got in between the callback's reading of the list and its sending it, the
\* unsubscribe is undone by that.
Unsubscribe ==
    /\ pc = "unsubscribe"
    /\ linkUp \/ Removed = {}
    /\ heard' = heard \ Removed
    /\ shaky' = (shaky \/ asked \cap Removed # {})
    /\ pc' = "subscribe"
    /\ UNCHANGED <<apiVars, linkUp, asked, deaf, outages, stream, beacon, fresh, current, list,
                   mapVars, taskVars, commandVars, shutdown, missed, faultVars>>

Subscribe ==
    /\ pc = "subscribe"
    /\ linkUp \/ Added = {}
    /\ heard' = heard \cup Added
    /\ pc' = "commit"
    /\ UNCHANGED <<apiVars, linkUp, asked, deaf, outages, stream, beacon, fresh, current, list,
                   mapVars, taskVars, commandVars, shutdown, missed, shaky, faultVars>>

\* Mutant: beacons that came meanwhile are forgotten.
Commit_Forgets ==
    /\ pc = "commit"
    /\ list' = InputsOf[fresh]
    /\ Spawn(fresh)
    /\ current' = fresh
    /\ beacon' = FALSE
    /\ pc' = "select"
    /\ UNCHANGED <<apiVars, brokerVars, fresh, mapVars, commandVars, shutdown,
                   missed, shaky, faultVars>>

\* Both calls went through: the list follows, and the new tasks start.
Commit ==
    /\ pc = "commit"
    /\ list' = InputsOf[fresh]
    /\ Spawn(fresh)
    /\ current' = fresh
    /\ pc' = "select"
    /\ UNCHANGED <<apiVars, brokerVars, beacon, fresh, mapVars, commandVars, shutdown,
                   missed, shaky, faultVars>>

\* A call fails, always without a link: the list stays, the new tasks start.
UpdateFails ==
    /\ \/ pc = "unsubscribe" /\ Removed # {}
       \/ pc = "subscribe" /\ Added # {}
    /\ \/ ~linkUp /\ UNCHANGED refusals
       \/ refusals < MaxRefusals /\ refusals' = refusals + 1
    /\ shaky' = TRUE
    /\ Spawn(fresh)
    /\ current' = fresh
    /\ pc' = "select"
    /\ UNCHANGED <<apiVars, brokerVars, beacon, fresh, list, mapVars, commandVars, shutdown,
                   missed, failures, overruns, shutdowns>>

-----------------------------------------------------------------------------
(* Shutdown *)

Signal ==
    /\ pc # "exit"
    /\ shutdowns < MaxShutdowns
    /\ shutdowns' = shutdowns + 1
    /\ shutdown' = TRUE
    /\ UNCHANGED <<apiVars, brokerVars, beacon, runVars, mapVars, taskVars, commandVars,
                   missed, shaky, failures, refusals, overruns>>

\* Seen by the loop's select only: a reconcile under way is finished first.
Stop ==
    /\ pc = "select"
    /\ shutdown
    /\ stopping' = TRUE
    /\ pc' = "stop"
    /\ UNCHANGED <<apiVars, brokerVars, beacon, fresh, current, list, mapVars, tasksOf, alive,
                   ticking, commandVars, shutdown, missed, shaky, faultVars>>

\* The last task has exited: the process ends, its forwarder with it.
Exit ==
    /\ pc = "stop"
    /\ alive = {}
    /\ pc' = "exit"
    /\ command' = "none"
    /\ seen' = Nothing
    /\ UNCHANGED <<apiVars, brokerVars, beacon, fresh, current, list, mapVars, taskVars,
                   shutdown, missed, shaky, faultVars>>

-----------------------------------------------------------------------------
BootStep == BootFetch \/ BootSubscribe \/ BootFails

MainStep ==
    \/ Wake \/ Join \/ FetchAnswers \/ FetchFails
    \/ SwapChannels \/ SwapTrust
    \/ Unsubscribe \/ Subscribe \/ Commit \/ UpdateFails
    \/ Stop \/ Exit

Next ==
    \/ \E s \in Specs : ChangeSpec(s)
    \/ Deliver \/ Overrun \/ PublishUnheard
    \/ Disconnect \/ Reconnect \/ Resubscribe \/ ResubscribeRefused
    \/ Forward \/ CommandReadsChannels \/ CommandReadsTrust \/ CommandEnds
    \/ \E t \in Tasks : TickBegins(t) \/ TickEnds(t) \/ TaskExits(t)
    \/ BootStep \/ MainStep \/ Restart \/ Signal

Spec == Init /\ [][Next]_vars

\* Ready tasks run, device-api publishes what it owes, paho reconnects.  A
\* writer queued on a tokio RwLock is served before later readers, the
\* forwarder reads on after each command, and a select with two ready branches
\* takes either: these are not overtaken for ever.  A poller's reads may hang.
\* Nobody need change the topology, send a command, or restart.
Fairness ==
    /\ WF_vars(Deliver \/ Overrun \/ PublishUnheard)
    /\ WF_vars(Reconnect \/ Resubscribe \/ ResubscribeRefused)
    /\ SF_vars(Forward)
    /\ WF_vars(CommandReadsTrust \/ CommandEnds)
    /\ SF_vars(\E t \in Tasks : TaskExits(t))
    /\ \A t \in Tasks \ Pollers : WF_vars(TickEnds(t))
    /\ WF_vars(BootStep)
    /\ WF_vars(MainStep)
    /\ SF_vars(SwapChannels \/ SwapTrust \/ Stop)

FairSpec == Spec /\ Fairness

-----------------------------------------------------------------------------
(* Inductive invariants *)

\* What the maps hold and which tasks are alive, step by step of a reconcile.
MapsInv ==
    /\ pc \in Booting \cup Swapping \cup {"fetch", "exit"} => alive = {}
    /\ alive # {} => tasksOf = current
    /\ pc \in {"subscribe_all", "select", "join", "fetch", "channels", "stop"}
          => channels = current /\ trust = current /\ current \in Specs
    /\ pc = "trust" => channels = fresh /\ trust = current
    /\ pc \in {"unsubscribe", "subscribe", "commit"} => channels = fresh /\ trust = fresh
    /\ pc \in Swapping => fresh \in Specs

\* What a command's guards buy it.
GuardsInv ==
    /\ ~Up => command = "none"
    /\ command # "none" => seen.channels = channels
    /\ command = "both" => seen.trust = trust

\* What was fetched is still true, or that it is not is on its way.
FreshInv == pc \in Swapping => fresh = truth \/ owed \/ stream \/ beacon \/ missed

-----------------------------------------------------------------------------
(* Properties *)

\* As long as any task of a set is alive, however long its last tick takes,
\* commands resolve bindings and trust from the specification that set was
\* spawned from: two topologies never drive the devices at once.
TasksMatchDevices == alive # {} => channels = tasksOf /\ trust = tasksOf

\* A command that got a new topology's bindings with the old one's trust (the
\* maps are swapped one after the other) stops the reconcile until it is over,
\* and no task of either topology runs meanwhile.
MixedViewIsConfined ==
    command = "both" /\ seen.channels # seen.trust => pc = "trust" /\ alive = {}

\* A re-fetch, or what brings one about, is still to come.
Coming == owed \/ stream \/ beacon \/ pc \in {"boot", "join", "fetch"}

\* The gateway is never behind a specification it could serve with nothing on
\* the way to bring it there, unless a beacon was published to nobody or dropped
\* by the full stream, or a fetch was given up: not through changes racing a
\* reconcile, nor through beacons the watch channel collapses.
BehindIsTemporary ==
    \/ current = truth
    \/ truth \notin Aligned
    \/ Coming
    \/ missed
    \/ pc \in Swapping /\ fresh = truth
    \/ pc \in {"stop", "exit"}

\* subscriptions.rs: subscriptions are "kept in step with the topology", and a
\* reconnect re-issues "whatever is current": in between reconciles the broker
\* has exactly the inputs the running tasks read.
InputsHeard == pc = "select" /\ linkUp => heard = InputsOf[tasksOf]

\* That holds, through outages and turned-down specifications, as long as no
\* update of the subscriptions failed, lost the link or crossed a reconnect under
\* way, once the broker has handled what the reconnect asked for, and unless it
\* refused that: the callback does not look, and the gateway is deaf until the
\* link is lost again.
InputsHeardUnlessShaky == shaky \/ asked # {} \/ deaf \/ InputsHeard

\* A specification that stays, in a gateway that stays up and in the end loses
\* no beacon and no fetch, is in the end the one its tasks and commands run on.
TopologyFollowed ==
    \A s \in Aligned :
        <>[](truth = s /\ ~missed /\ pc \notin {"boot", "stop", "exit"})
            => <>[](tasksOf = s /\ alive = TasksOf[s] /\ channels = s /\ trust = s)

\* SIGTERM stops the gateway, whatever it is in the middle of and whatever
\* device a poller hangs on.
ShutdownEnds == shutdown ~> pc = "exit"

=============================================================================
