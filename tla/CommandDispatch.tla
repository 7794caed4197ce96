---------------------------- MODULE CommandDispatch ----------------------------
(***************************************************************************)
(* The south-side write paths of the gateway and the two pieces of state   *)
(* they share: the requested setpoints (dispatch/requested.rs) and the     *)
(* locked-out devices (loto/).                                             *)
(*                                                                         *)
(* Callers run dispatch::handle_command: the MQTT forwarder, one command   *)
(* at a time, and site distribution's dispatch_one.  They hold the read    *)
(* guard of the locked set over the whole command.  Loops are the 1 Hz     *)
(* rebalance/envelope tasks, one per distribute module: they copy the      *)
(* locked set and release its guard before they write.                     *)
(*                                                                         *)
(* Every action is one await-free section of the code.  A share of a       *)
(* module's target is represented by the target it was computed from.      *)
(* Commands dropped before the first ack (foreign topic, no binding here,  *)
(* unparseable frame: dispatch/mod.rs 140-158) change nothing and are not  *)
(* issued.                                                                 *)
(***************************************************************************)
EXTENDS Naturals

CONSTANTS
    Devices,     \* device ids
    Callers,     \* tasks that run handle_command
    Sends,       \* Sends[c]: the commands caller c issues
    Distribute,  \* devices whose setpoint is split over children
    Guarded,     \* envelope-guarded ones: only their loop writes children
    PowerCap,    \* devices whose setpoint caps every child
    Children,    \* Children[d]: the devices a parent's setpoint is written to
    Values,      \* setpoints, 0 (W) among them
    NoRequest,   \* no entry in last_requested
    LockSets,    \* the sets GET /loto may answer, subtrees expanded
    MaxFaults    \* bound: failed writes and refusals of the south side

ASSUME CommandAssumptions ==
    /\ Sends \in [Callers -> SUBSET [dev: Devices, value: Values]]
    /\ Distribute \subseteq Devices
    /\ Guarded \subseteq Distribute
    /\ PowerCap \subseteq Devices \ Distribute
    /\ Children \in [Devices -> SUBSET Devices]
    /\ 0 \in Values
    /\ NoRequest \notin Values
    /\ LockSets \subseteq SUBSET Devices
    /\ \A set \in LockSets : \A d \in set : Children[d] \subseteq set
    /\ MaxFaults \in Nat
    /\ Devices # {}

VARIABLES
    requested,   \* LastRequestedSetpoints, the module's own channel of each device
    locked,      \* Devices.locked
    waiting,     \* refresher::apply waits for the write side of locked
    fresh,       \* the fetched set it waits to swap in
    pc,          \* pc[c]: where caller c is in handle_command
    cmd,         \* cmd[c]: the command it handles
    prev,        \* prev[c]: what requested::record returned
    pending,     \* pending[c]: writes execute_setpoint still has to issue
    failed,      \* failed[c]: some write of this fleet cap failed
    loopPc,      \* loopPc[m]: where module m's task is in its tick
    loopTarget,  \* loopTarget[m]: the tick's target
    loopPending, \* loopPending[m]: writes the tick still has to issue
    ceased,      \* the cached energize_enabled is false: every loop's target is 0 W
    clash,       \* clash[d]: the values in play on d, {} unless commands overlapped (history)
    reg,         \* reg[d]: the setpoint device d last took
    faults       \* writes that have failed so far

callerVars == <<pc, cmd, prev, pending, failed>>
loopVars == <<loopPc, loopTarget, loopPending>>
lockVars == <<locked, waiting, fresh>>
vars == <<requested, lockVars, callerVars, loopVars, ceased, clash, reg, faults>>

Requests == Values \cup {NoRequest}
CallerStates == {"idle", "received", "exec", "undo", "done", "refused"}
\* The command of an idle caller.
Unsent == [dev |-> CHOOSE d \in Devices : TRUE, value |-> 0]
\* The guards of channels, trust and locked are held from the first to the last await.
HoldsGuard(c) == pc[c] # "idle"
\* Caller c has recorded its value and its write is not decided yet.
InFlight(c) == pc[c] \in {"exec", "undo"}
\* The callers whose command on d is recorded but may still be undone: never
\* on a guarded module, where a recorded command has succeeded.
Undecided(d) == {c \in Callers : InFlight(c) /\ cmd[c].dev = d /\ d \notin Guarded}

TypeOK ==
    /\ requested \in [Devices -> Requests]
    /\ locked \in SUBSET Devices
    /\ waiting \in BOOLEAN
    /\ fresh \in SUBSET Devices
    /\ pc \in [Callers -> CallerStates]
    /\ cmd \in [Callers -> [dev: Devices, value: Values]]
    /\ prev \in [Callers -> Requests]
    /\ pending \in [Callers -> SUBSET Devices]
    /\ failed \in [Callers -> BOOLEAN]
    /\ loopPc \in [Distribute -> {"idle", "read", "write"}]
    /\ loopTarget \in [Distribute -> Values]
    /\ loopPending \in [Distribute -> SUBSET Devices]
    /\ ceased \in BOOLEAN
    /\ clash \in [Devices -> SUBSET Requests]
    /\ reg \in [Devices -> Values]
    /\ faults \in 0..MaxFaults

Init ==
    /\ requested = [d \in Devices |-> NoRequest]
    /\ locked = {}
    /\ waiting = FALSE
    /\ fresh = {}
    /\ pc = [c \in Callers |-> "idle"]
    /\ cmd = [c \in Callers |-> Unsent]
    /\ prev = [c \in Callers |-> NoRequest]
    /\ pending = [c \in Callers |-> {}]
    /\ failed = [c \in Callers |-> FALSE]
    /\ loopPc = [m \in Distribute |-> "idle"]
    /\ loopTarget = [m \in Distribute |-> 0]
    /\ loopPending = [m \in Distribute |-> {}]
    /\ ceased = FALSE
    /\ clash = [d \in Devices |-> {}]
    /\ reg = [d \in Devices |-> 0]
    /\ faults = 0

-----------------------------------------------------------------------------
(* Commands *)

Goto(c, label) == pc' = [pc EXCEPT ![c] = label]

\* Mutant: a reader-preferring lock lets readers in past a waiting writer.
Begin_PastWriter(c, command) ==
    /\ pc[c] = "idle"
    /\ command \in Sends[c]
    /\ cmd' = [cmd EXCEPT ![c] = command]
    /\ Goto(c, "received")
    /\ UNCHANGED <<ceased, clash, requested, lockVars, prev, pending, failed, loopVars, reg, faults>>

\* A command arrives and its caller takes the read guards.  tokio's RwLock is
\* write-preferring: no reader gets in past a waiting writer.
Begin(c, command) ==
    /\ pc[c] = "idle"
    /\ command \in Sends[c]
    /\ ~waiting
    /\ cmd' = [cmd EXCEPT ![c] = command]
    /\ Goto(c, "received")
    /\ UNCHANGED <<ceased, clash, requested, lockVars, prev, pending, failed, loopVars, reg, faults>>

\* `received` cannot be published: handle_command returns before doing anything.
PublishReceivedFails(c) ==
    /\ pc[c] = "received"
    /\ Goto(c, "idle")
    /\ cmd' = [cmd EXCEPT ![c] = Unsent]
    /\ UNCHANGED <<ceased, clash, requested, lockVars, prev, pending, failed, loopVars, reg, faults>>

Refuse(c) ==
    /\ pc[c] = "received"
    /\ Goto(c, "refused")
    /\ UNCHANGED <<ceased, clash, requested, lockVars, cmd, prev, pending, failed, loopVars, reg, faults>>

\* `received` is published; the device is locked out.
RejectLocked(c) == cmd[c].dev \in locked /\ Refuse(c)

\* `received` is published; the device has no such {verb}_{target} channel.
RejectUnknown(c) == cmd[c].dev \notin locked /\ Refuse(c)

\* The devices execute_setpoint writes for a setpoint on d: d itself, every
\* child of a parent that is not locked out, nobody on a guarded module.
WriteSet(d) ==
    IF d \in Guarded THEN {}
    ELSE IF d \in Distribute \cup PowerCap THEN Children[d] \ locked
    ELSE {d}

\* What is in play on the device once c's command is recorded: nothing unless
\* another one is undecided, else their values and what the first replaced.
Clashing(c) ==
    LET d == cmd[c].dev IN
    IF Undecided(d) = {} \/ d \in Guarded THEN {}
    ELSE clash[d] \cup {cmd[c].value}
           \cup UNION {{cmd[k].value, prev[k]} : k \in Undecided(d)}

\* `received` is published, the device is free and its channel known:
\* requested::record, and execute_setpoint up to its first write.
Record(c) ==
    LET d == cmd[c].dev IN
    /\ pc[c] = "received"
    /\ d \notin locked
    /\ prev' = [prev EXCEPT ![c] = requested[d]]
    /\ requested' = [requested EXCEPT ![d] = cmd[c].value]
    /\ pending' = [pending EXCEPT ![c] = WriteSet(d)]
    /\ clash' = [clash EXCEPT ![d] = Clashing(c)]
    /\ Goto(c, "exec")
    /\ UNCHANGED <<ceased, lockVars, cmd, failed, loopVars, reg, faults>>

\* One device takes the setpoint.
Write(c, d) ==
    /\ pc[c] = "exec"
    /\ d \in pending[c]
    /\ reg' = [reg EXCEPT ![d] = cmd[c].value]
    /\ pending' = [pending EXCEPT ![c] = @ \ {d}]
    /\ UNCHANGED <<ceased, clash, requested, lockVars, pc, cmd, prev, failed, loopVars, faults>>

\* One device refuses it: a fleet cap tries the others, any other command ends.
WriteFails(c, d) ==
    LET tries == cmd[c].dev \in PowerCap IN
    /\ pc[c] = "exec"
    /\ d \in pending[c]
    /\ faults < MaxFaults
    /\ faults' = faults + 1
    /\ failed' = [failed EXCEPT ![c] = tries]
    /\ pending' = [pending EXCEPT ![c] = IF tries THEN @ \ {d} ELSE {}]
    /\ Goto(c, IF tries THEN "exec" ELSE "undo")
    /\ UNCHANGED <<ceased, clash, requested, lockVars, cmd, prev, loopVars, reg>>

\* execute_setpoint errs without a failed write: before the first one (no
\* child capacity known, a protocol without commands), or after a split's last
\* one, when every share of a target other than 0 came out 0 W.
ExecRefuses(c) ==
    /\ pc[c] = "exec"
    /\ cmd[c].dev \notin Guarded
    /\ \/ cmd[c].dev \notin PowerCap /\ pending[c] = WriteSet(cmd[c].dev)
       \/ cmd[c].dev \in Distribute /\ pending[c] = {} /\ cmd[c].value # 0
    /\ faults < MaxFaults
    /\ faults' = faults + 1
    /\ pending' = [pending EXCEPT ![c] = {}]
    /\ Goto(c, "undo")
    /\ UNCHANGED <<ceased, clash, requested, lockVars, cmd, prev, failed, loopVars, reg>>

\* A command is decided: a clash is over when no other is left.
Decided(c) ==
    [clash EXCEPT ![cmd[c].dev] = IF Undecided(cmd[c].dev) \subseteq {c} THEN {} ELSE @]

\* execute_setpoint has written everything.
Finish(c) ==
    /\ pc[c] = "exec"
    /\ pending[c] = {}
    /\ Goto(c, IF failed[c] THEN "undo" ELSE "done")
    /\ clash' = IF failed[c] THEN clash ELSE Decided(c)
    /\ UNCHANGED <<ceased, requested, lockVars, cmd, prev, pending, failed, loopVars, reg, faults>>

\* Mutant: a failed command clears the record instead of restoring it.
Restored_Cleared(c) == [requested EXCEPT ![cmd[c].dev] = NoRequest]

\* requested::restore: only while the record still holds this command's value.
Restored(c) ==
    LET d == cmd[c].dev IN
    IF requested[d] = cmd[c].value
    THEN [requested EXCEPT ![d] = prev[c]]
    ELSE requested

Restore(c) ==
    /\ pc[c] = "undo"
    /\ requested' = Restored(c)
    /\ clash' = Decided(c)
    /\ Goto(c, "refused")
    /\ UNCHANGED <<ceased, lockVars, cmd, prev, pending, failed, loopVars, reg, faults>>

\* `done` or `failed` is published, or cannot be; either way the
\* handler's locals and guards go.
Return(c) ==
    /\ pc[c] \in {"done", "refused"}
    /\ Goto(c, "idle")
    /\ cmd' = [cmd EXCEPT ![c] = Unsent]
    /\ prev' = [prev EXCEPT ![c] = NoRequest]
    /\ failed' = [failed EXCEPT ![c] = FALSE]
    /\ UNCHANGED <<ceased, clash, requested, lockVars, pending, loopVars, reg, faults>>

-----------------------------------------------------------------------------
(* Rebalance/envelope loops *)

\* What an unguarded module's loop steers to: its request, 0 W if there is
\* none or while the DER must cease to energize.
Target(m) == IF ceased \/ requested[m] = NoRequest THEN 0 ELSE requested[m]

\* Mutant: a module without a request is left alone.
LoopRead_OnlyRequested(m) ==
    /\ loopPc[m] = "idle"
    /\ requested[m] # NoRequest
    /\ loopTarget' = [loopTarget EXCEPT ![m] = Target(m)]
    /\ loopPc' = [loopPc EXCEPT ![m] = "read"]
    /\ UNCHANGED <<ceased, clash, requested, lockVars, callerVars, loopPending, reg, faults>>

\* The tick works its target out; a guarded module's controller may clamp the
\* request to any other value, but only to 0 W while ceased.
LoopRead(m) ==
    /\ loopPc[m] = "idle"
    /\ \E v \in Values :
         /\ m \notin Guarded \/ ceased => v = Target(m)
         /\ loopTarget' = [loopTarget EXCEPT ![m] = v]
    /\ loopPc' = [loopPc EXCEPT ![m] = "read"]
    /\ UNCHANGED <<ceased, clash, requested, lockVars, callerVars, loopPending, reg, faults>>

\* Mutant: shares for every child, the locked ones too.
LoopShares_All(m) ==
    /\ loopPc[m] = "read"
    /\ ~waiting
    /\ loopPending' = [loopPending EXCEPT ![m] = Children[m]]
    /\ loopPc' = [loopPc EXCEPT ![m] = "write"]
    /\ UNCHANGED <<ceased, clash, requested, lockVars, callerVars, loopTarget, reg, faults>>

\* It copies the locked set and computes shares for every other child.
LoopShares(m) ==
    /\ loopPc[m] = "read"
    /\ ~waiting
    /\ loopPending' = [loopPending EXCEPT ![m] = Children[m] \ locked]
    /\ loopPc' = [loopPc EXCEPT ![m] = "write"]
    /\ UNCHANGED <<ceased, clash, requested, lockVars, callerVars, loopTarget, reg, faults>>

LoopWrite(m, d) ==
    /\ loopPc[m] = "write"
    /\ d \in loopPending[m]
    /\ reg' = [reg EXCEPT ![d] = loopTarget[m]]
    /\ loopPending' = [loopPending EXCEPT ![m] = @ \ {d}]
    /\ UNCHANGED <<ceased, clash, requested, lockVars, callerVars, loopPc, loopTarget, faults>>

\* A failed write, or a child whose capacity is unknown, ends the tick.
LoopFails(m) ==
    /\ loopPc[m] = "write"
    /\ faults < MaxFaults
    /\ faults' = faults + 1
    /\ loopPending' = [loopPending EXCEPT ![m] = {}]
    /\ UNCHANGED <<ceased, clash, requested, lockVars, callerVars, loopPc, loopTarget, reg>>

LoopEnds(m) ==
    /\ loopPc[m] = "write"
    /\ loopPending[m] = {}
    /\ loopPc' = [loopPc EXCEPT ![m] = "idle"]
    /\ loopTarget' = [loopTarget EXCEPT ![m] = 0]
    /\ UNCHANGED <<ceased, clash, requested, lockVars, callerVars, loopPending, reg, faults>>

\* The site's energize control is cached: cease to energize, or energize again.
Energize ==
    /\ ceased' = ~ceased
    /\ UNCHANGED <<requested, lockVars, callerVars, loopVars, clash, reg, faults>>

-----------------------------------------------------------------------------
(* Lockouts *)

\* refresher::apply asks for the write side with a freshly fetched set.
LockWait(set) ==
    /\ ~waiting
    /\ set # locked
    /\ waiting' = TRUE
    /\ fresh' = set
    /\ UNCHANGED <<ceased, clash, requested, locked, callerVars, loopVars, reg, faults>>

\* Mutant: commands hold a copy of the set, not its guard.
LockApply_UnderReaders ==
    /\ waiting
    /\ locked' = fresh
    /\ waiting' = FALSE
    /\ fresh' = {}
    /\ UNCHANGED <<ceased, clash, requested, callerVars, loopVars, reg, faults>>

\* It gets it once every reader is gone, and swaps the set.
LockApply ==
    /\ waiting
    /\ \A c \in Callers : ~HoldsGuard(c)
    /\ locked' = fresh
    /\ waiting' = FALSE
    /\ fresh' = {}
    /\ UNCHANGED <<ceased, clash, requested, callerVars, loopVars, reg, faults>>

-----------------------------------------------------------------------------
CallerStep(c) ==
    \/ PublishReceivedFails(c)
    \/ RejectLocked(c)
    \/ RejectUnknown(c)
    \/ Record(c)
    \/ \E d \in Devices : Write(c, d) \/ WriteFails(c, d)
    \/ ExecRefuses(c)
    \/ Finish(c)
    \/ Restore(c)
    \/ Return(c)

LoopStep(m) ==
    \/ LoopRead(m)
    \/ LoopShares(m)
    \/ \E d \in Devices : LoopWrite(m, d)
    \/ LoopFails(m)
    \/ LoopEnds(m)

Next ==
    \/ \E c \in Callers : \E command \in Sends[c] : Begin(c, command)
    \/ \E c \in Callers : CallerStep(c)
    \/ \E m \in Distribute : LoopStep(m)
    \/ Energize
    \/ \E set \in LockSets : LockWait(set)
    \/ LockApply

Spec == Init /\ [][Next]_vars

\* tokio runs every ready task; nothing obliges an operator to send a command
\* or a technician to set a lock.
Fairness ==
    /\ \A c \in Callers : WF_vars(CallerStep(c))
    /\ \A m \in Distribute : WF_vars(LoopStep(m))
    /\ WF_vars(LockApply)

FairSpec == Spec /\ Fairness

-----------------------------------------------------------------------------
(* Properties *)

\* A command never has a write outstanding to a device that is locked out now:
\* handle_command checks and filters against the set whose guard it holds, so
\* a lock set meanwhile waits for the command to end.
CommandsSkipLocked ==
    \A c \in Callers : pc[c] = "exec" => pending[c] \cap locked = {}

\* A freshly fetched locked set gets past the readers: commands that keep
\* arriving cannot keep the refresher from swapping it in.
LockTakesEffect == waiting ~> ~waiting

\* A loop writes from a copy of the locked set it took before its awaits, so
\* a tick begun before a lock may still write to the device.  Only that
\* tick: once a device stays locked out, every loop leaves it alone for good.
LoopsLeaveLocked ==
    \A d \in Devices :
        <>[](d \in locked) => <>[](\A m \in Distribute : d \notin loopPending[m])

Quiet == ~waiting /\ \A c \in Callers : pc[c] = "idle"

\* Once commands and lock changes cease and the target stands, every unguarded
\* module's free children end up, and stay, on it: the request, 0 W without
\* one or while the DER must cease to energize, whatever failed, partly landed
\* or was written past the energize control before.  The loop re-asserts it.
Settles ==
    \A m \in Distribute \ Guarded : \A v \in Values :
        <>[](Quiet /\ Target(m) = v) => <>[](\A d \in Children[m] \ locked : reg[d] = v)

=============================================================================
