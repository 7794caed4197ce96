------------------------------- MODULE Lockouts -------------------------------
(***************************************************************************)
(* How the gateway's locked set follows device-api's lockouts: the fetch   *)
(* at boot (app.rs), the system/loto_changed beacon through the MQTT       *)
(* forwarder (mqtt/subscriber.rs), and the refresher (loto/refresher.rs).  *)
(*                                                                         *)
(* device-api and the broker are external: device-api commits a change and *)
(* then owes a beacon, which the broker only delivers to a gateway that is *)
(* connected and subscribed (the session is clean: nothing is kept for it).*)
(* A GET /loto answers with the lockouts of some moment while it is        *)
(* pending; its retries are part of that wait.                             *)
(***************************************************************************)
EXTENDS Naturals

CONSTANTS
    Devices,        \* device ids
    LockSets,       \* the lockouts device-api may hold, subtrees expanded
    MaxFailures,    \* bound: GET /loto given up (60 s of 5xx, a 4xx, a bad body)
    MaxOutages,     \* bound: losses of the gateway's broker link
    MaxOverruns,    \* bound: beacons dropped by a full stream (STREAM_CAPACITY)
    MaxChanges,     \* bound: lockouts set or cleared
    MaxStream       \* bound: beacons waiting in the forwarder's stream

ASSUME LockoutAssumptions ==
    /\ LockSets \subseteq SUBSET Devices
    /\ LockSets # {}
    /\ MaxFailures \in Nat
    /\ MaxOutages \in Nat
    /\ MaxOverruns \in Nat
    /\ MaxChanges \in Nat
    /\ MaxStream \in Nat \ {0}

VARIABLES
    truth,    \* device-api's lockouts
    changes,  \* how often they have changed
    owed,     \* device-api has a beacon to publish
    boot,     \* how far app::run has come
    linkUp,   \* the gateway is connected to the broker and subscribed there
    stream,   \* beacons the forwarder has not handled yet
    nudged,   \* the watch channel holds a beacon the refresher has not seen
    task,     \* where the refresher is
    answer,   \* the set its fetch returned
    locked,   \* Devices.locked
    failures, \* fetches given up so far
    outages,  \* links lost so far
    overruns, \* beacons dropped so far
    missed    \* history: a beacon was lost or a fetch failed, and none came since

bootVars == <<boot, linkUp>>
faultVars == <<failures, outages, overruns>>
apiVars == <<truth, changes, owed>>
taskVars == <<task, answer>>
vars == <<apiVars, bootVars, stream, nudged, taskVars, locked, faultVars, missed>>

FlagsOK ==
    /\ owed \in BOOLEAN
    /\ linkUp \in BOOLEAN
    /\ nudged \in BOOLEAN
    /\ missed \in BOOLEAN

CountersOK ==
    /\ changes \in 0..MaxChanges
    /\ stream \in 0..MaxStream
    /\ failures \in 0..MaxFailures
    /\ outages \in 0..MaxOutages
    /\ overruns \in 0..MaxOverruns

TypeOK ==
    /\ truth \in LockSets
    /\ boot \in {"fetch", "subscribe", "nudge", "run", "exit"}
    /\ task \in {"none", "wait", "fetch", "apply"}
    /\ answer \in SUBSET Devices
    /\ locked \in SUBSET Devices
    /\ FlagsOK
    /\ CountersOK

Init ==
    /\ truth \in LockSets
    /\ changes = 0
    /\ owed = FALSE
    /\ boot = "fetch"
    /\ linkUp = TRUE
    /\ stream = 0
    /\ nudged = FALSE
    /\ task = "none"
    /\ answer = {}
    /\ locked = {}
    /\ failures = 0
    /\ outages = 0
    /\ overruns = 0
    /\ missed = FALSE

-----------------------------------------------------------------------------
(* device-api and the broker *)

ChangeLocks(set) ==
    /\ changes < MaxChanges
    /\ set # truth
    /\ truth' = set
    /\ changes' = changes + 1
    /\ owed' = TRUE
    /\ UNCHANGED <<bootVars, stream, nudged, taskVars, locked, missed, faultVars>>

\* device-api beacons on every broker reconnect of its own too.
Rebeacon ==
    /\ ~owed
    /\ owed' = TRUE
    /\ UNCHANGED <<truth, changes, bootVars, stream, nudged, taskVars, locked, missed, faultVars>>

Listening == boot \in {"nudge", "run"} /\ linkUp

Deliver ==
    /\ owed /\ Listening
    /\ stream < MaxStream
    /\ owed' = FALSE
    /\ stream' = stream + 1
    /\ UNCHANGED <<truth, changes, bootVars, nudged, taskVars, locked, missed, faultVars>>

\* Nobody subscribed yet: the beacon goes to nobody.
PublishUnheard ==
    /\ owed /\ boot \notin {"nudge", "run"}
    /\ owed' = FALSE
    /\ UNCHANGED <<truth, changes, bootVars, stream, nudged, taskVars, locked, missed, faultVars>>

\* The link is down, and the clean session keeps nothing for the gateway.
LoseBeacon ==
    /\ owed /\ boot \in {"nudge", "run"}
    /\ ~linkUp
    /\ owed' = FALSE
    /\ missed' = TRUE
    /\ UNCHANGED <<truth, changes, bootVars, stream, nudged, taskVars, locked, faultVars>>

\* The forwarder's stream is full and drops what arrives.
Overrun ==
    /\ owed /\ Listening
    /\ overruns < MaxOverruns
    /\ overruns' = overruns + 1
    /\ owed' = FALSE
    /\ missed' = TRUE
    /\ UNCHANGED <<truth, changes, bootVars, stream, nudged, taskVars, locked, failures, outages>>

Disconnect ==
    /\ Listening
    /\ outages < MaxOutages
    /\ outages' = outages + 1
    /\ linkUp' = FALSE
    /\ UNCHANGED <<apiVars, boot, stream, nudged, taskVars, locked, missed, failures, overruns>>

\* paho reconnects; the connected callback re-issues the subscriptions.
Reconnect ==
    /\ ~linkUp
    /\ linkUp' = TRUE
    /\ UNCHANGED <<apiVars, boot, stream, nudged, taskVars, locked, missed, faultVars>>

-----------------------------------------------------------------------------
(* app::run *)

BootFetch ==
    /\ boot = "fetch"
    /\ locked' = truth
    /\ boot' = "subscribe"
    /\ UNCHANGED <<apiVars, linkUp, stream, nudged, taskVars, missed, faultVars>>

Subscribe ==
    /\ boot = "subscribe"
    /\ boot' = "nudge"
    /\ UNCHANGED <<apiVars, linkUp, stream, nudged, taskVars, locked, missed, faultVars>>

\* Mutant: no beacon of the gateway's own after the subscribe.
Nudge_Missing ==
    /\ boot = "nudge"
    /\ boot' = "run"
    /\ task' = "wait"
    /\ UNCHANGED <<apiVars, linkUp, stream, nudged, answer, locked, missed, faultVars>>

\* A lock set between the fetch and the subscribe sent its beacon to nobody:
\* one beacon of the gateway's own closes that gap.
Nudge ==
    /\ boot = "nudge"
    /\ boot' = "run"
    /\ nudged' = TRUE
    /\ task' = "wait"
    /\ UNCHANGED <<apiVars, linkUp, stream, answer, locked, missed, faultVars>>

\* A /loto that won't answer, or a failed subscribe, ends the process.
BootFails ==
    /\ boot \in {"fetch", "subscribe"}
    /\ failures < MaxFailures
    /\ failures' = failures + 1
    /\ boot' = "exit"
    /\ UNCHANGED <<apiVars, linkUp, stream, nudged, taskVars, locked, missed, outages, overruns>>

\* The process ends anywhere and is started anew: nothing of it is persisted.
Restart ==
    /\ boot # "fetch"
    /\ boot' = "fetch"
    /\ linkUp' = TRUE
    /\ stream' = 0
    /\ nudged' = FALSE
    /\ task' = "none"
    /\ answer' = {}
    /\ locked' = {}
    /\ missed' = FALSE
    /\ UNCHANGED <<apiVars, faultVars>>

-----------------------------------------------------------------------------
(* The forwarder and the refresher *)

\* The watch channel collapses beacons the refresher has not seen yet.
Forward ==
    /\ stream > 0
    /\ stream' = stream - 1
    /\ nudged' = TRUE
    /\ UNCHANGED <<apiVars, bootVars, taskVars, locked, missed, faultVars>>

\* beacons.changed() marks the value seen before the fetch starts.
Wake ==
    /\ task = "wait"
    /\ nudged
    /\ nudged' = FALSE
    /\ task' = "fetch"
    /\ missed' = FALSE
    /\ UNCHANGED <<apiVars, bootVars, stream, answer, locked, faultVars>>

FetchAnswers ==
    /\ task = "fetch"
    /\ answer' = truth
    /\ task' = "apply"
    /\ UNCHANGED <<apiVars, bootVars, stream, nudged, locked, missed, faultVars>>

\* A failed re-fetch keeps the last known set and waits for the next beacon.
FetchFails ==
    /\ task = "fetch"
    /\ failures < MaxFailures
    /\ failures' = failures + 1
    /\ task' = "wait"
    /\ missed' = TRUE
    /\ UNCHANGED <<apiVars, bootVars, stream, nudged, answer, locked, outages, overruns>>

\* Mutant: the beacon is marked seen once the fetch has been applied.
Apply_MarksSeen ==
    /\ task = "apply"
    /\ locked' = answer
    /\ answer' = {}
    /\ task' = "wait"
    /\ nudged' = FALSE
    /\ UNCHANGED <<apiVars, bootVars, stream, missed, faultVars>>

Apply ==
    /\ task = "apply"
    /\ locked' = answer
    /\ answer' = {}
    /\ task' = "wait"
    /\ UNCHANGED <<apiVars, bootVars, stream, nudged, missed, faultVars>>

-----------------------------------------------------------------------------
Next ==
    \/ \E set \in LockSets : ChangeLocks(set)
    \/ Rebeacon
    \/ Deliver
    \/ PublishUnheard
    \/ LoseBeacon
    \/ Overrun
    \/ Disconnect
    \/ Reconnect
    \/ BootFetch
    \/ Subscribe
    \/ Nudge
    \/ BootFails
    \/ Restart
    \/ Forward
    \/ Wake
    \/ FetchAnswers
    \/ FetchFails
    \/ Apply

Spec == Init /\ [][Next]_vars

\* Tasks that are ready run, device-api publishes what it owes, paho
\* reconnects.  Nothing obliges anyone to change a lock or to restart.
Fairness ==
    /\ WF_vars(BootFetch \/ Subscribe \/ Nudge)
    /\ WF_vars(Deliver \/ PublishUnheard \/ LoseBeacon \/ Overrun)
    /\ WF_vars(Reconnect)
    /\ WF_vars(Forward)
    /\ WF_vars(Wake \/ FetchAnswers \/ FetchFails \/ Apply)

FairSpec == Spec /\ Fairness

-----------------------------------------------------------------------------
(* Properties *)

\* A re-fetch, or what brings one about, is still to come.
Coming ==
    \/ boot # "run"
    \/ owed
    \/ stream > 0
    \/ nudged
    \/ task = "fetch"

\* The locked set is never out of date with nothing on the way to correct it:
\* not through changes racing the boot fetch, the subscribe, an earlier
\* re-fetch or its apply, nor through beacons the watch channel collapses.
\* Only a lost beacon or a failed re-fetch leaves it behind.
StaleIsTemporary ==
    locked = truth \/ Coming \/ missed \/ (task = "apply" /\ answer = truth)

\* What StaleIsTemporary needs of an answer that waits to be applied.
AnswerIsCurrent ==
    task = "apply" =>
        answer = truth \/ boot # "run" \/ owed \/ stream > 0 \/ nudged \/ missed

\* A device that stays locked out is eventually refused, and stays so, in a
\* gateway that keeps running and in the end loses no beacon and no fetch.
LocksEnforcedUnlessMissed ==
    \A d \in Devices :
        <>[](d \in truth /\ boot = "run" /\ ~missed) => <>[](d \in locked)

=============================================================================
