-------------------------------- MODULE CmdBits --------------------------------
(***************************************************************************)
(* A PCS's command word (sunspec/bits.rs): rewritten by its heartbeat      *)
(* (sunspec/heartbeat.rs), changed one bit at a time by commands           *)
(* (sunspec/write.rs write_bit), and forgotten when the EMS can no longer  *)
(* steer.  Beat and command share the word's slot, an async mutex, and the *)
(* locked set, an RwLock whose queued writer (loto/refresher.rs) lets no   *)
(* later reader pass.                                                      *)
(*                                                                         *)
(* A word is the set of its bits.  The PCS is external: it takes what is   *)
(* written, runs while En is set, and trips when nothing was written for a *)
(* second.  Operators enable, disable and pulse a trigger.                 *)
(***************************************************************************)
EXTENDS Naturals

CONSTANTS
    Pcs,            \* the devices, each with one command word
    Bits,           \* the bits of a word
    Owned,          \* the bits some command binds
    En, Trigger,    \* the enable bit and one that is pulsed
    NoCommand,      \* the forwarder is at no bit command
    MaxMissed,      \* beats in the PCS's deadline
    MaxFaults,      \* bound: reads and writes that fail
    MaxOutages,     \* bound: losses of the broker link
    MaxLocks,       \* bound: lockout changes
    MaxReconciles   \* bound: topology changes

ASSUME CmdBitsAssumptions ==
    /\ Owned \subseteq Bits
    /\ {En, Trigger} \subseteq Owned
    /\ En # Trigger
    /\ MaxMissed \in Nat \ {0}
    /\ {MaxFaults, MaxOutages, MaxLocks, MaxReconciles} \subseteq Nat

VARIABLES
    seeded,     \* the slots that hold a word
    word,       \* word[p]: that word
    holder,     \* holder[p]: who holds the slot's mutex
    beat,       \* beat[p]: where p's heartbeat is
    spawned,    \* the task set runs
    command,    \* the bit command the forwarder is at
    step,       \* where it is
    linkUp,     \* the broker link
    locked,     \* Devices.locked
    fresh,      \* what the refresher waits to swap in
    waiting,    \* it waits, for the readers to leave
    reg,        \* reg[p]: the word in the device
    pcs,        \* pcs[p]: what the device does
    missed,     \* missed[p]: beats in a row that wrote nothing
    asked,      \* history: owned bits commands acked done left set
    unsure,     \* history: the last write to p was reported failed
    asserted,   \* history: p tripped while its word was still asserted
    faults, outages, locks, reconciles

wordVars == <<seeded, word>>
slotVars == <<wordVars, holder>>
commandVars == <<command, step>>
lockVars == <<locked, fresh, waiting>>
deviceVars == <<reg, pcs, missed>>
historyVars == <<asked, unsure, asserted>>
boundVars == <<faults, outages, locks, reconciles>>
vars == <<slotVars, beat, spawned, commandVars, linkUp, lockVars, deviceVars, historyVars,
          boundVars>>

\* A device may come with any word, enabled by an earlier run of the gateway.
Init ==
    /\ seeded = {}
    /\ word = [p \in Pcs |-> {}]
    /\ holder = [p \in Pcs |-> "free"]
    /\ beat = [p \in Pcs |-> "idle"]
    /\ spawned = TRUE
    /\ command = NoCommand
    /\ step = "idle"
    /\ linkUp = TRUE
    /\ locked = {}
    /\ fresh = {}
    /\ waiting = FALSE
    /\ reg \in [Pcs -> SUBSET Bits]
    /\ pcs = [p \in Pcs |-> IF En \in reg[p] THEN "tripped" ELSE "off"]
    /\ missed = [p \in Pcs |-> MaxMissed]
    /\ asked = [p \in Pcs |-> {}]
    /\ unsure = [p \in Pcs |-> FALSE]
    /\ asserted = [p \in Pcs |-> FALSE]
    /\ faults = 0
    /\ outages = 0
    /\ locks = 0
    /\ reconciles = 0

-----------------------------------------------------------------------------
(* Writing the word *)

\* A write that reaches the PCS feeds its watchdog and does what it says.
Lands(p, w) ==
    /\ reg' = [reg EXCEPT ![p] = w]
    /\ missed' = [missed EXCEPT ![p] = 0]
    /\ pcs' = [pcs EXCEPT ![p] =
                  IF En \in w THEN "on" ELSE IF @ = "on" THEN "off" ELSE @]

Fails == faults < MaxFaults /\ faults' = faults + 1

\* A beat that wrote nothing.
Misses(p) == missed' = [missed EXCEPT ![p] = IF @ < MaxMissed THEN @ + 1 ELSE @]

-----------------------------------------------------------------------------
(* The heartbeat of p *)

\* The tick is due: queue for the slot ...
BeatDue(p) ==
    /\ spawned
    /\ beat[p] = "idle"
    /\ beat' = [beat EXCEPT ![p] = "slot"]
    /\ UNCHANGED <<slotVars, spawned, commandVars, linkUp, lockVars, deviceVars, historyVars,
                   boundVars>>

BeatEnds(p) ==
    /\ beat' = [beat EXCEPT ![p] = "idle"]
    /\ holder' = [holder EXCEPT ![p] = "free"]

Forgets(p) ==
    /\ seeded' = seeded \ {p}
    /\ word' = [word EXCEPT ![p] = {}]
    /\ asked' = [asked EXCEPT ![p] = {}]
    /\ BeatEnds(p)
    /\ Misses(p)
    /\ UNCHANGED <<spawned, commandVars, linkUp, lockVars, reg, pcs, unsure, asserted,
                   boundVars>>

\* ... and take it.  steerable looks at the link first, ...
BeatTakesSlot(p) ==
    /\ beat[p] = "slot"
    /\ holder[p] = "free"
    /\ linkUp
    /\ holder' = [holder EXCEPT ![p] = "beat"]
    /\ beat' = [beat EXCEPT ![p] = "check"]
    /\ UNCHANGED <<wordVars, spawned, commandVars, linkUp, lockVars, deviceVars, historyVars,
                   boundVars>>

BeatFindsNoLink(p) ==
    /\ beat[p] = "slot"
    /\ holder[p] = "free"
    /\ ~linkUp
    /\ Forgets(p)

\* ... then reads the locked set, behind its writer, whatever the link does.
BeatFindsLocked(p) ==
    /\ beat[p] = "check"
    /\ ~waiting
    /\ p \in locked
    /\ Forgets(p)

BeatChecks(p) ==
    /\ beat[p] = "check"
    /\ ~waiting
    /\ p \notin locked
    /\ beat' = [beat EXCEPT ![p] = IF p \in seeded THEN "write" ELSE "seed"]
    /\ UNCHANGED <<slotVars, spawned, commandVars, linkUp, lockVars, deviceVars, historyVars,
                   boundVars>>

\* Mutant: the device's own word is taken over, enabled or not.
BeatSeeds_Unmasked(p) ==
    /\ beat[p] = "seed"
    /\ seeded' = seeded \cup {p}
    /\ word' = [word EXCEPT ![p] = reg[p]]
    /\ beat' = [beat EXCEPT ![p] = "write"]
    /\ UNCHANGED <<holder, spawned, commandVars, linkUp, lockVars, deviceVars, historyVars,
                   boundVars>>

\* The owned bits start at 0, the rest as the device has them.
BeatSeeds(p) ==
    /\ beat[p] = "seed"
    /\ seeded' = seeded \cup {p}
    /\ word' = [word EXCEPT ![p] = reg[p] \ Owned]
    /\ beat' = [beat EXCEPT ![p] = "write"]
    /\ UNCHANGED <<holder, spawned, commandVars, linkUp, lockVars, deviceVars, historyVars,
                   boundVars>>

SeedFails(p) ==
    /\ beat[p] = "seed"
    /\ Fails
    /\ BeatEnds(p)
    /\ Misses(p)
    /\ UNCHANGED <<wordVars, spawned, commandVars, linkUp, lockVars, reg, pcs, historyVars,
                   outages, locks, reconciles>>

\* Mutant: the slot is locked once, outside the loop.
BeatWrites_Holds(p) ==
    /\ beat[p] = "write"
    /\ Lands(p, word[p])
    /\ beat' = [beat EXCEPT ![p] = "idle"]
    /\ unsure' = [unsure EXCEPT ![p] = FALSE]
    /\ UNCHANGED <<slotVars, spawned, commandVars, linkUp, lockVars, asked, asserted, boundVars>>

BeatWrites(p) ==
    /\ beat[p] = "write"
    /\ Lands(p, word[p])
    /\ BeatEnds(p)
    /\ unsure' = [unsure EXCEPT ![p] = FALSE]
    /\ UNCHANGED <<wordVars, spawned, commandVars, linkUp, lockVars, asked, asserted, boundVars>>

\* A write reported failed may have landed.
BeatFails(p) ==
    /\ beat[p] = "write"
    /\ Fails
    /\ \/ Lands(p, word[p])
       \/ Misses(p) /\ UNCHANGED <<reg, pcs>>
    /\ BeatEnds(p)
    /\ unsure' = [unsure EXCEPT ![p] = TRUE]
    /\ UNCHANGED <<wordVars, spawned, commandVars, linkUp, lockVars, asked, asserted,
                   outages, locks, reconciles>>

-----------------------------------------------------------------------------
(* A bit command, through handle_command *)

\* bits::action: what the operators' verbs do to their bits.
Verbs == {[bit |-> En, action |-> "set"], [bit |-> En, action |-> "clear"],
          [bit |-> Trigger, action |-> "pulse"]}

\* Admitted under the locked set's read guard, which it keeps to its end.
CommandBegins(p, v) ==
    /\ step = "idle"
    /\ linkUp
    /\ ~waiting
    /\ p \notin locked
    /\ command' = [pcs |-> p, bit |-> v.bit, action |-> v.action]
    /\ step' = "slot"
    /\ UNCHANGED <<slotVars, beat, spawned, linkUp, lockVars, deviceVars, historyVars,
                   boundVars>>

\* Mutant: the word is read under the slot's mutex, which is not kept.
CommandTakesSlot_Unheld ==
    /\ step = "slot"
    /\ holder[command.pcs] = "free"
    /\ command.pcs \in seeded
    /\ step' = "write"
    /\ UNCHANGED <<slotVars, beat, spawned, command, linkUp, lockVars, deviceVars,
                   historyVars, boundVars>>

CommandTakesSlot ==
    /\ step = "slot"
    /\ holder[command.pcs] = "free"
    /\ command.pcs \in seeded
    /\ holder' = [holder EXCEPT ![command.pcs] = "command"]
    /\ step' = "write"
    /\ UNCHANGED <<wordVars, beat, spawned, command, linkUp, lockVars, deviceVars, historyVars,
                   boundVars>>

\* apply: no heartbeat, nobody listens.
CommandRefused ==
    /\ step = "slot"
    /\ holder[command.pcs] = "free"
    /\ command.pcs \notin seeded
    /\ step' = "idle"
    /\ command' = NoCommand
    /\ UNCHANGED <<slotVars, beat, spawned, linkUp, lockVars, deviceVars, historyVars,
                   boundVars>>

\* apply: the word to write, and the one to go on asserting.
Now(w) == IF command.action = "clear" THEN w \ {command.bit} ELSE w \cup {command.bit}

Keep(w) == IF command.action = "set" THEN w \cup {command.bit} ELSE w \ {command.bit}

CommandEnds ==
    /\ holder' = [holder EXCEPT ![command.pcs] = "free"]
    /\ command' = NoCommand
    /\ step' = "idle"

CommandWrites ==
    LET p == command.pcs IN
    /\ step = "write"
    /\ Lands(p, Now(word[p]))
    /\ word' = [word EXCEPT ![p] = Keep(@)]
    /\ asked' = [asked EXCEPT ![p] =
                    IF command.action = "set" THEN @ \cup {command.bit} ELSE @ \ {command.bit}]
    /\ unsure' = [unsure EXCEPT ![p] = FALSE]
    /\ CommandEnds
    /\ UNCHANGED <<seeded, beat, spawned, linkUp, lockVars, asserted, boundVars>>

CommandFails ==
    LET p == command.pcs IN
    /\ step = "write"
    /\ Fails
    /\ \/ Lands(p, Now(word[p]))
       \/ Misses(p) /\ UNCHANGED <<reg, pcs>>  \* it kept a beat waiting
    /\ unsure' = [unsure EXCEPT ![p] = TRUE]
    /\ CommandEnds
    /\ UNCHANGED <<wordVars, beat, spawned, linkUp, lockVars, asked, asserted,
                   outages, locks, reconciles>>

-----------------------------------------------------------------------------
(* The broker link, the lockouts, the topology, the PCS *)

LinkDrops ==
    /\ linkUp
    /\ outages < MaxOutages
    /\ outages' = outages + 1
    /\ linkUp' = FALSE
    /\ UNCHANGED <<slotVars, beat, spawned, commandVars, lockVars, deviceVars, historyVars,
                   faults, locks, reconciles>>

LinkReturns ==
    /\ ~linkUp
    /\ linkUp' = TRUE
    /\ UNCHANGED <<slotVars, beat, spawned, commandVars, lockVars, deviceVars, historyVars,
                   boundVars>>

\* refresher::apply queues for the write side ...
LockWaits(set) ==
    /\ ~waiting
    /\ locks < MaxLocks
    /\ locks' = locks + 1
    /\ waiting' = TRUE
    /\ fresh' = set
    /\ UNCHANGED <<slotVars, beat, spawned, commandVars, linkUp, locked, deviceVars,
                   historyVars, faults, outages, reconciles>>

\* ... which the forwarder's command keeps it from.
LockApplies ==
    /\ waiting
    /\ step = "idle"
    /\ locked' = fresh
    /\ waiting' = FALSE
    /\ fresh' = {}
    /\ UNCHANGED <<slotVars, beat, spawned, commandVars, linkUp, deviceVars, historyVars,
                   boundVars>>

\* A reconcile cancels the heartbeats, which keep their slots, ...
Cancel ==
    /\ spawned
    /\ reconciles < MaxReconciles
    /\ reconciles' = reconciles + 1
    /\ spawned' = FALSE
    /\ UNCHANGED <<slotVars, beat, commandVars, linkUp, lockVars, deviceVars, historyVars,
                   faults, outages, locks>>

\* ... waits for them, and spawns them anew after its fetch.
Respawn ==
    /\ ~spawned
    /\ \A p \in Pcs : beat[p] = "idle"
    /\ spawned' = TRUE
    /\ UNCHANGED <<slotVars, beat, commandVars, linkUp, lockVars, deviceVars, historyVars,
                   boundVars>>

\* Two beats that wrote nothing, no heartbeat, or a beat in progress: a device
\* read or write is retried for up to half a minute, and a wait for the slot or
\* the locked set takes as long as whoever holds it.
Starved(p) == missed[p] = MaxMissed \/ ~spawned \/ beat[p] # "idle"

Trip(p) ==
    /\ pcs[p] = "on"
    /\ Starved(p)
    /\ pcs' = [pcs EXCEPT ![p] = "tripped"]
    /\ asserted' = [asserted EXCEPT ![p] = p \in seeded]
    /\ UNCHANGED <<slotVars, beat, spawned, commandVars, linkUp, lockVars, reg, missed, asked,
                   unsure, boundVars>>

-----------------------------------------------------------------------------
BeatStep(p) ==
    \/ BeatTakesSlot(p) \/ BeatFindsNoLink(p) \/ BeatFindsLocked(p) \/ BeatChecks(p)
    \/ BeatSeeds(p) \/ SeedFails(p) \/ BeatWrites(p) \/ BeatFails(p)

CommandStep == CommandTakesSlot \/ CommandRefused \/ CommandWrites \/ CommandFails

Next ==
    \/ \E p \in Pcs : BeatDue(p) \/ BeatStep(p) \/ Trip(p)
    \/ \E p \in Pcs, v \in Verbs : CommandBegins(p, v)
    \/ CommandStep
    \/ LinkDrops \/ LinkReturns
    \/ \E set \in SUBSET Pcs : LockWaits(set)
    \/ LockApplies
    \/ Cancel \/ Respawn

Spec == Init /\ [][Next]_vars

\* Intervals tick, devices answer or time out, paho reconnects, a fetch ends.
\* A tokio mutex is handed on in the order it was asked for, so neither side
\* of a slot keeps the other from it for ever.
Fairness ==
    /\ \A p \in Pcs :
         /\ WF_vars(BeatDue(p)) /\ WF_vars(BeatStep(p))
         /\ SF_vars(BeatTakesSlot(p) \/ BeatFindsNoLink(p))
    /\ WF_vars(CommandStep) /\ SF_vars(CommandTakesSlot \/ CommandRefused)
    /\ WF_vars(LinkReturns)
    /\ WF_vars(LockApplies)
    /\ WF_vars(Respawn)

FairSpec == Spec /\ Fairness

-----------------------------------------------------------------------------
(* Properties *)

\* bits.rs: the slot is "held across its write, so a beat can't land a stale
\* word between a command's write and its store".  Whenever a slot is free, the
\* word it asserts is what the acked commands left set, and the device holds
\* it, a trigger just pulsed aside, unless the last write was reported failed.
DeviceHoldsWhatWasAsked ==
    \A p \in Pcs : holder[p] = "free" /\ p \in seeded =>
        /\ word[p] \cap Owned = asked[p]
        /\ ~unsure[p] => reg[p] \in {word[p], word[p] \cup {Trigger}}

\* A PCS that is on again after a trip.
Resumes(p) == pcs[p] = "tripped" /\ pcs'[p] = "on"

\* The step is an operator's enable.
EnableWritten(p) ==
    /\ step = "write"
    /\ command = [pcs |-> p, bit |-> En, action |-> "set"]
    /\ step' = "idle"

\* bits.rs: the word is forgotten "so a PCS that tripped never resumes on its
\* own".  One that tripped once its word was forgotten only runs again on an
\* enable sent since: no beat, seed or other command brings it back.
ResumesOnlyOnEnable ==
    [][\A p \in Pcs : Resumes(p) /\ ~asserted[p] => EnableWritten(p)]_vars

\* Everybody waits: the beat has the slot and waits behind the refresher for
\* the locked set, the refresher waits for the command to leave, the command
\* waits for the slot.
Entangled ==
    /\ waiting
    /\ step = "slot"
    /\ holder[command.pcs] = "beat"
    /\ beat[command.pcs] = "check"

\* Nothing but that circle keeps a beat from ending, a command from being
\* answered or a lock from being applied.
OnlyTheCircleBlocks ==
    /\ \A p \in Pcs : beat[p] # "idle" ~> (beat[p] = "idle" \/ Entangled)
    /\ step # "idle" ~> (step = "idle" \/ Entangled)
    /\ waiting ~> (~waiting \/ Entangled)

\* heartbeat.rs: "EPC's PCS drops out unless CmdBits is rewritten at least once
\* a second in every state": every beat that is due ends.
BeatsEnd == \A p \in Pcs : beat[p] # "idle" ~> beat[p] = "idle"

=============================================================================
