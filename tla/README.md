# TLA+ models of ems-industrial-gateway

The gateway polls a site's field devices (Modbus, SunSpec, Redfish, SNMP, DNP3,
BACnet), publishes their readings over MQTT, carries out operators' commands,
and runs the loops that keep the site's power inside its envelope. These modules
model the parts in which several tasks share state, in which a write can fail
half way, or in which something must happen in the end. TLC checks them on small
instances, and TLAPS proves every safety property but one for every instance.
Paths below are relative to `src/src/`.

## 1. The system and its parts

| Part | State | Operations | What makes it correct |
|---|---|---|---|
| Command dispatch (`dispatch/mod.rs`, `requested.rs`, `distribute.rs`, `power_cap.rs`) | last requested setpoint per device and channel | `handle_command`: ack, check, record, write, ack or restore | a refused command leaves no request behind; a locked-out device is never written |
| Share allocation (`dispatch/allocation.rs`) | the loop's shares, caps, remaining demand | `allocate` | ends; feasible, complete, fair |
| Child capacity (`dispatch/rack_limits.rs`, `reserve.rs`, `operating_state.rs`, `der_dispatch/module_bounds.rs`) | none; reads the cache | limits handed to `allocate`, a module's bound | a faulted, silent or empty rack is given nothing; a module is asked for no more than its racks take |
| Lockouts (`loto/`, `http/client.rs`) | the set of locked-out devices | fetch at boot, beacon, re-fetch, swap | a lock set is a lock enforced |
| MQTT (`mqtt/`) | subscription list, message stream | subscribe, forward, reconnect, follow a topology | nothing needed stays unheard |
| Rebalance/envelope task (`envelope/task.rs`, `writes.rs`, `poi_gate.rs`, `dispatch/write_order.rs`) | last shares written, deferred growth, handoff gate | one tick a second: plan, write, remember | power handed between children is never on the bus twice; shares are reached |
| Envelope control law (`envelope/control_law.rs`, `bounds.rs`, `poi_servo.rs`, `anti_windup.rs`, `stale.rs`, `recharge.rs`, `energize.rs`) | mode, dwell timers, integrator | the target of a tick | import and export stay inside the limits |
| Compute shed (`envelope/shed.rs`, `shed_task.rs`, `storage_spare.rs`) | fleet cap, dwell timers, trend | propose, write, confirm | import comes back under its limit, GPUs get their power back |
| Site distribution (`der_dispatch/`) | memory of a curtailment event | dispatch, hold, release | an event that is over leaves no trace |
| Boot and reconcile (`app.rs`, `inputs.rs`, `main.rs`) | device maps, task set, current specification | boot, follow a topology beacon, shut down | one topology at a time, and in the end the right one |
| Heartbeats (`heartbeat.rs`, `sunspec/heartbeat.rs`), SunSpec words (`sunspec/bits.rs`, `write.rs`) | counters, one asserted word per PCS | rewrite on a period, change a bit, forget | no write is lost or stale; a tripped PCS stays off until it is enabled; beats keep coming |
| Poller (`poller.rs`, `read.rs`) | due times, one pass's fetches | read every due point, publish | no point is left waiting by slow or dead neighbours |
| Derived channels (`synthetic/`, `der_dispatch/actual_power.rs`) | the input cache | receive, compute, publish or hold | a stale input is not passed on as fresh |
| SunSpec model maps (`sunspec/client.rs`, `discover.rs`, `resolve.rs`) | one cached map per device | walk the model chain, look up, forget | no write goes to a register of a layout the device has left |
| Protocol clients, configuration, specification types | sessions | I/O, parsing | - |

How they interact: the forwarder (one task, one message at a time) turns beacons
into nudges of two watch channels, commands into `handle_command` calls and
readings into cache entries. Commands, the 1 Hz loops and site distribution share
three `RwLock`s (channels, trust, locked set) and the requested setpoints. The
refresher swaps the locked set. The main loop stops, swaps and respawns
everything when the topology changes: every loop starts with a new controller and
an empty memory of what it wrote, over devices that keep their setpoints.

What is hard here: callers that command one module at once; records made before
a write that may fail; locks set while a loop writes from a copy; beacons lost to
a clean MQTT session or to a full stream; loops that are respawned over loaded
devices; batches that land in part; devices that take a setpoint a
tick late, or die; acks that cannot be published; samples that are stamped when
they are received and not when they were read; a device that reboots into other
firmware under a cached map; changes that race a reconcile; SIGTERM in the middle
of everything. `PROJECT.json` lists each at its line.

## 2. Modules

| Module | Models | Composes / extends |
|---|---|---|
| `CommandDispatch` | commands, the requested setpoints, rebalance loops' writes, the swap of the locked set | - |
| `RequestRegister` | abstract: what `handle_command` promises | - |
| `CommandRefinement` | the refinement mapping to `RequestRegister` | `CommandDispatch`, INSTANCE `RequestRegister` |
| `CommandProofs` | theorems | `CommandRefinement` |
| `Lockouts` | how the locked set follows device-api | - |
| `HandoffWrites` | a tick's write plan, its writes, the POI gate | - |
| `SiteEvent`, `SiteEventProofs` | site distribution through curtailment events, over atomic requests | relies on `RequestRegister`'s promise |
| `Allocation` | `compute_shares`: from the cached readings to the shares, and the bound site distribution splits by | - |
| `Telemetry`, `TelemetryProofs` | a reading's way from its poller through the cache and the derived channels to the writes decided on it | - |
| `ModelMaps`, `ModelMapProofs` | SunSpec discovery and the cache of model maps, against a device that reboots | - |
| `Reconcile`, `ReconcileProofs` | boot, topology changes, task set, subscriptions, shutdown | - |
| `Shed` | shed controller, cap batches, operator's cap, the POI's answer | - |
| `CmdBits`, `CmdBitsProofs` | a PCS's command word: heartbeat, bit commands, locked set, watchdog | - |
| `Envelope` | a guarded module's controller (servo, hysteresis, ramp, stale meter, anti-windup), its tick, and the POI it steers | - |
| `ShareProofs` | theorems about a target's way to the children's setpoints: its split and its writes | `HandoffWrites`, `Allocation` |
| `RestrictionProofs` | theorems about what restricts devices: lockouts, operators' caps, the POI's limits | `Lockouts`, `Shed`, `Envelope` |
| `MC*` | constants of the runs | the module they are named for |

`Allocation`, `Shed` and `Envelope` name their specifications after themselves
(`ShedInit`, `ShedNext`, `ShedSpec`), so that a module of theorems can extend them
beside another component.

An action is one stretch of code without an await: whatever can interleave in
the program can interleave in the model.

- **CommandDispatch.** `requested` is `LastRequestedSetpoints`; `pc[c]` is
  where caller `c` (the forwarder, or site distribution's `dispatch_one`) is in
  `handle_command`; `loopPc[m]` is module m's tick. `HoldsGuard` is the read
  guard a caller keeps over its whole command; `waiting` is the refresher queued
  on the write side, which later readers do not overtake. `Target(m)` is what a tick
  of m's loop works towards: the request, or 0 W while `ceased` (the cached
  `energize_enabled` is false). `clash[d]` is history: the values that commands tried on
  d at one time may leave it on. A child's share is
  represented by the target it was computed from. Commands turned away before
  the first ack (foreign topic, no binding, bad frame) change nothing.
- **Lockouts.** `truth` is device-api's set, `owed` a beacon it has yet to
  publish, `stream` the forwarder's bounded channel, `nudged` the watch channel.
  A GET answers with the lockouts of some moment while it is pending.
- **HandoffWrites.** `reg` is what a child holds, `out` what it does, `last` is
  `last_written`; `Batch`, `HoldBack`, `Reasserts`, `MaterialShrink` and `IsNext`
  are the functions of the same purpose in `writes.rs` and `write_order.rs`. Receipt
  times are kept as the question the gate asks of them (`news`). A tick waits for no
  device: after a slow batch the next one comes at once (`task.rs:36`, tokio's `Burst`),
  and `loose` remembers that a plan was made before the children had followed the last
  one. `Respawn` is the new task a topology beacon brings, with an empty `last` (`Blind`)
  over children that keep what they hold; `Earlier` are the setpoints a gateway that
  starts may find. `health` is a child
  that is up, one that is dead and still fresh in the cache, and one gone quiet.
- **SiteEvent.** A command is one step on the module's request, with
  every outcome `handle_command` has for its caller: done, done but the ack is
  lost, refused because locked, refused by the device, not heard. `choice`, `mid`,
  `lost` and `failed` are history: what operators asked, and when the code lost it.
- **Allocation.** `Hold` and `Read` are the two ways the reading of the cache ends,
  `CapSome` and `GiveRest` the turns of `allocate`'s loop, `Tell` the 0 W for the
  children left out; shares are exact fractions. `ModuleRoom` is `modules_with_bounds`: the
  module's `StaticBound`, or what its racks not locked out have room for when it has racks
  and that is less.
- **Telemetry.** Each sample carries the age it really has beside the `stamp` the
  cache gives it. Time is counted in seconds: `Second` passes only when no task has
  anything left to do in the one before, and nobody waits longer than `MaxRead` for a
  read, `MaxBusy` for one command of the forwarder's or `MaxWrite` for a batch. `stream` is
  the forwarder's queue, in order: the commands it has in hand and, behind each, the newest
  sample of every topic. A sample is cached when the commands ahead of it are done, after
  `Delay` (`MaxQueued` commands) at most. `Oldest[t]` is
  how old a published sample of `t` may be; `OldestAssumption` says how it follows from the
  reads, fetches and stale limits behind it. The one rack's module is asked to
  discharge throughout, which is when the floor matters.
- **ModelMaps.** A request is one exchange, answered by whatever the device is when it
  is back, or failed. Addresses wrap as `u16` does. `began`, `blind`, `noticed` and
  `wrapped` are history: the boot a caller's map was looked up at, that it trusted a
  cached map nobody had cause to doubt, that a failure has evicted since the
  reboot, that a walk went past the last register.
- **Reconcile.** A specification is one value that determines its tasks, maps
  and input topics. `pc` is the await `app::run` is at. `command`/`seen` are the
  two guards a command takes one after the other. `asked` is the list a reconnect's
  callback sent the broker without waiting for the answer, `deaf` that the broker refused
  it, `missed` a beacon published to nobody or dropped by the full stream. Loops finish their tick before
  they see their token; pollers drop theirs.
- **Shed.** A level is one `STEP_PERCENT`; `Exporting`, `OverLimit`, `Recovering` and
  `Holding` are the four branches of `ShedController::tick`. GPUs draw their cap;
  the rest of the site, and whether storage has spare discharge, are inputs. `order` is an
  operator's command under way, each of whose writes may fail. `Respawn` makes a new
  controller, which takes the fleet for uncapped; `Earlier` are the caps it may start over.
  `forgot` (it does not know of a shed) and `strays` (GPUs left with a refused cap) are history.
- **CmdBits.** A word is the set of its bits. `seeded`/`word` are the slot's
  `Option`, `holder` its async mutex, `waiting` the refresher queued for the locked
  set. `beat[p]` is the await the heartbeat is at: it looks at the link when it gets the
  slot, and then waits for the locked set whatever the link does; the forwarder carries out one
  command at a time and keeps its read guard of the locked set to the end. The PCS
  is external: it obeys its register and trips when no beat has reached it in time.
- **Envelope.** Power is in whole units, discharge positive and import positive at
  the POI; a gain's product is cut to whole units, so the integrator stops within
  `Grain` units of a limit where the program's creeps on. The children follow a
  setpoint at once, and the meter shows the POI of as many seconds ago as it lags
  (`Readings`: those under way and those since the tick before). `n` is the number of
  readings since the tick before, and so its `dt`: 0 is a tick ahead of its
  reading, more than 1 a late tick. `Far` stands for no published limit. `output`,
  `mode`, `dwell`, `prev` and `jumpHold` are the controller's fields. `gate` is the
  POI gate: 0 idle, 3 growth deferred, 2 and 1 readings to go, 4 deferred by a growth whose write
  failed. `Reseed` is a new controller on a respawn, seeded with an `active_power` that may lag;
  a batch that fails has landed not at all, in its shrinks only (`Shorted`) or whole.
  `wound` remembers that the last output is not what the children deliver. A site
  without a POI meter (`metered = FALSE`) has only the battery behind its POI.
  "In the end" is here "after `Settling` undisturbed ticks": `since` counts them,
  so that these properties are invariants and no fairness is needed.

Definitions whose names end in `_Something` after a comment "Mutant:" are
plausible bugs, used to see that a property notices them.

## 3. What is checked

Every bound is a `Max...` constant, spent in a guard.

| Run | Checks | Bounds, and why they suffice |
|---|---|---|
| `command` | an unguarded module over two racks, commanded by the forwarder and by site distribution at once: commands respect the lock set they hold, a loop leaves a locked rack alone but for the tick under way (`LoopsLeaveLocked`), the refresher is not starved (`LockTakesEffect`), children settle on what was asked, or on 0 W while the DER must not energize (`Settles`), and `AtomicRequests`, the refinement of `RequestRegister` | two racks are the least for a part-landed batch, two callers for commands that overlap; one fault: with none left, a later one has the same states to start from. Guarded modules and fleet caps are covered by the proof below, a fleet cap's batch by `shed` too |
| `lockouts` | a stale locked set is being corrected (`StaleIsTemporary`); locks are enforced unless a beacon or fetch was lost | three changes: before the fetch, before the subscribe, during a re-fetch |
| `handoff` | setpoints (`WritesNeverOverlap`) and lagging outputs (`OutputsOverlapOnlyDrift`) of two children; the gate (`HoldCoversHandoff`); `Converges` with faults, the death of a child among them | shares that hand off and drift by 1 %; children at 0, and one left with everything; two events, so that a respawn, a new split or a fault meets another's handoff under way |
| `site_event` | two modules, two events: `NoTraceUnlessRefused`, `ChoiceComesBack`, `ReleaseEnds` | one operator's command and lock change, two mishaps: a command refused and its retry or restore too |
| `allocation` | `GivesAllItCan`, against limits worked out anew; `MaxMinFair`; `BoundIsDeliverable`, with how far the bound is off; `Returns` | three children: one capped first, one capped by the redistribution, one left; nine kinds of rack (derated, unreported, silent, in fault, locked, empty, full), both floors, targets of either sign and 0, every policy; modules with racks and without |
| `telemetry` | `NothingStaleIsPublished`, `EveryPointPolled`, `ReserveKept` | three points, two of which share a fetch, a sum over these and a total over the sum: the least with a shared resource and a chain; a second for each of a read, a command and a batch; two commands, so that one waits behind the other, or one fault at any moment (both together are left to the proofs) |
| `modelmaps` | `WritesOnTarget`, `RequestsEnd` | two callers, one of each kind; three layouts that move, swap or lack a model; 12 registers, so that a wild length can wrap; one reboot, at any exchange of either caller |
| `reconcile` | `TasksMatchDevices`, `MixedViewIsConfined`, `BehindIsTemporary`, `InputsHeardUnlessShaky`, `TopologyFollowed`, `ShutdownEnds` | two changes: one can race the reconcile of the other; one outage, failed fetch, refused subscription (a reconnect's too), beacon dropped by the full stream and SIGTERM |
| `shed` | `EnvelopeHeld`, `CapsRestored`, `UnderOperatorCap` | two GPUs, four levels, a dwell of two readings; a site that fits, one over its limit, one exporting; full caps and caps an earlier process left; three events: a shed, a reconcile in its middle, and a failed write or command |
| `cmdbits` | `DeviceHoldsWhatWasAsked`, `ResumesOnlyOnEnable`, `OnlyTheCircleBlocks` | one PCS (slots are independent, and the forwarder is at one command) with every initial register over a latched, a pulsed and a foreign bit; one failed access, outage, lock change and reconcile, so that each can meet a beat or a command at any await |
| `envelope` | the closed loop: `NoOvershootWhenCalm`, `StepWithinMeterError`, `LimitsHeld`, `RequestFollowed`, `SilenceStopsModule` | a meter lag of 3 readings, the most the gains are tuned for; load, limits and requests that move the binding limit to either side and leave it out of reach; two moves (a handoff between children is one), so one finds the loop still settling, and one irregular tick, failed write, silent meter, respawned controller or change of plant; 40 ticks are more than hold, dwell and ramp take together from the states this instance reaches. `SettlesInTime` has TLC work out that the condition of `LimitsAreHeld` is met with 139 ticks, for any state of a site of this size |

`cmdbits` does not check for deadlock: the circle of `cmdbits_circle` really stops the
three tasks, and `OnlyTheCircleBlocks` says that nothing else does.

Type correctness is proved for `CommandDispatch` and `Reconcile`, and for the state
each of the other proofs is about as a part of its invariant; it is no run's question.

**Fairness.** tokio runs every ready task, so a task's next step is weakly fair.
Interval ticks come round (a tick that can be pre-empted by other enabled steps
is strongly fair), devices answer or fail within the clients' timeouts,
device-api publishes a beacon it owes, paho reconnects, the meter is polled. A
tokio `RwLock` serves a queued writer before later readers, and `select!` picks
at random among ready branches, and a tokio `Mutex` is handed on in the order it
was asked for: steps that compete for those are strongly fair. Where a step may end
well or badly (a beacon is forwarded or dropped, a resubscription taken or refused, a
cap written or not, a beat granted the slot with the link up or down), fairness is of
the two together, and nothing is assumed of which.
A request of `ModelMaps` ends because its attempts are bounded (`MAX_ATTEMPTS`) and
each has a timeout; `allocate`'s loop runs on because nothing in it waits. `Telemetry`
and `Envelope` need no fairness: what is promised in time is an invariant there.
Nothing is assumed of operators, topology or lock changes, faults, restarts or a
poller's reads.

### Where code and comments disagree

One run ends in a violation, of a sentence in the repository:

- `cmdbits_circle`: the word is rewritten "while the EMS can still steer"
  (`sunspec/heartbeat.rs:1-4`). The beat asks for the locked set while it holds the
  slot (`:78`), a command for the slot while it holds the locked set; when the
  refresher queues for the write side in between, the three wait for each other
  for ever. The join of the next reconcile, or of a shutdown, then waits for that
  heartbeat too: `Reconcile` takes for granted that a loop's tick ends.

Met while modelling, and excepted by name in a property rather than given a run:

- "The gateway never writes to one" (`loto/mod.rs:1-2`): a tick writes from a copy
  of the locked set (`envelope/task.rs:164`), and a lock set meanwhile does not
  stop it; `CommandsSkipLocked` is about commands only, and `LoopsLeaveLocked` allows
  the tick under way;
- the loops "must never apply a setpoint the operator saw refused"
  (`dispatch/mod.rs:66-67`): when an operator and site distribution command one unguarded
  module at a time and both fail, the second's restore puts the first's refused value
  back (`requested.rs:38`), and with equal values an older command's failure undoes a
  newer one's success. `RequestRegister` says what is left then (`Clash`): some value in play,
  until a command goes through alone;
- "a PCS that tripped never resumes on its own" (`sunspec/bits.rs:5-7`): a
  cancelled heartbeat keeps its word, and so does one whose reads and writes are
  being retried, so a PCS that trips meanwhile resumes at the next beat
  (`asserted` in `ResumesOnlyOnEnable`);
- the gap closed at boot (`app.rs:115-116`) is open after a reconnect
  (`mqtt/subscriber.rs:70`): a lock set during an outage is not enforced until some
  later beacon (`missed` in `StaleIsTemporary` and `LocksEnforcedUnlessMissed`);
- "a handoff never briefly puts both children on the bus" (`write_order.rs:1-2`): a task
  just spawned has written nothing (`task.rs:42`, `app.rs:145-179`), sees no shrink and
  holds nothing back, so that a rack may be given its share before another has lost it:
  up to twice a split, with every write landed (`Blind` in `WritesNeverOverlap`).
  Children are taken to follow before the next tick (`write_order.rs:33-34`), which after
  a slow batch comes at once (`loose` in `OutputsOverlapOnlyDrift`);
- a `/loto` re-fetch given up after 60 s is not retried (`refresher.rs:22`);
- a batch that lands in part is not remembered (`task.rs:183`), so the next plan
  may overlap two children (`faults = 0` in `WritesNeverOverlap`), and
  `deferred_growth` is cleared before the write it waited for has landed;
- "each module the event dispatched is commanded back" (`site_distribution.rs:19-21`):
  a command acked `failed` counts as handled (`module_command.rs:54`), so a refused
  restore is forgotten with the event, and a refused share is remembered as dispatched
  and not tried again; a lost `done` leaves a carried-out command unremembered
  (`dispatch/mod.rs:208`): `failed` in `NoTraceUnlessRefused`;
- "that command stands" (`event_memory.rs:61`): an operator's mid-event command is
  overwritten when the module's share changes, and the release then goes back to the
  value from before the event; and a release overwrites a command that came after its
  look at the setpoints (`site_distribution.rs:104`): `lost` in `ChoiceComesBack`;
- "a rack gone quiet gets zero and its share moves" (`distribute_stale_test.rs`): the
  0 W write to a rack that is off the network fails and ends the batch
  (`distribute.rs:91`, `:113`), every tick, so the others do not get its share
  unless it was at 0 W already (`Converges`);
- "the module can't give more than its racks can right now" (`module_bounds.rs:43`):
  racks that are silent, in fault or at their floor count in full, and a module without
  racks counts at its rating (`Overstated` in `BoundIsDeliverable`, and by no more than that);
- one rack in a state nobody listed keeps the whole module from being rebalanced
  (`Hold` in `Allocation`, `landed` in `ReserveKept`);
- the overshoot below the reserve floor is put at about 1 s (`distribute.rs:163`); with a
  reading gone silent or a forwarder held up it is `Overshoot`: the stale limit,
  the time of every command ahead of the reading and two batches;
- the cache stamps a sample when the forwarder gets to it, so what waited behind
  commands, one after the other, counts as fresh for that much longer (`Delay` in
  `OldestAssumption`); the site's
  actual power has no stale limit at all (`Totals`);
- "an entry goes on any failed request" (`sunspec/client.rs:18`): the command word's
  read and look-up keep it (`Evicts`), so that a heartbeat alone does not notice
  a new layout (`blind`);
- "a corrupt length could wrap the address space" (`discover.rs:49`): the length is
  guarded, the header's own two registers are not, and a header at 65534 takes a release
  build's walk round (`wrapped`); nor is the sum in `resolve.rs:59`;
- "slow enough, it can't overshoot through the lag" (`poi_servo.rs:8-9`): the gain is
  multiplied by the time since the last tick (`:113`), so one more than 10 s late
  overshoots by itself. From 4 s on the three tenths a second away from a limit are
  more than the excess; a tick that also finds the limit tightened takes the jump on
  top and can pass the opposite limit (`MaxLate <= 3` in `TicksStayWithinMeterError`).
  With `MaxLate = 4` TLC shows it: load 56, export limit 0, output 10; the import
  limit goes from 30 to 0, and a tick 4 s after the last takes the output to 58.
  A tightened limit's jump is taken off a lagging reading, so it can overshoot by
  what the meter was wrong by (`StepWithinMeterError`);
- a tick whose reading is too old ramps to 0 W, whatever the limits want of it
  (`stale.rs`): a battery that covers the load under an import limit is taken
  away from it. That tick is the one `StepWithinMeterError` excepts (`GivesUp`), also
  when the meter is back and its first reading has yet to come;
- while a module must not energize, while a child has not reported, and after a
  failed write, the output goes on winding (`task.rs:158`), so that the next delivery may be
  a step the servo did not bound (`wound`);
- a growth write that fails is not repeated as a handoff (`writes.rs:70`), and the gate
  holds the approach to the limit until the next handoff (`gate = 4` in `RequestFollowed`).
  "A cut on a violation still goes through" (`bounds.rs:42-43`) is then true of a cut only: a
  module that discharges, or rests, under an import violation may not discharge more, so that the
  violation stays for good (`gate = 4` in `LimitsHeld`). TLC shows it with two faults: load 56,
  both limits 0, the output stays 0;
- "never past the module's own rating, whichever limit asks for it" (`control_law.rs:109`):
  the floor is cut to the ceiling last (`:111`), so an export violation takes the output
  below `power_min` when the children can follow (`LimitsHeld` asks for `MostCharge` or more, and
  TLC shows more: rated -200, load -290, no export allowed, output -290);
- "0.1/s gives zero overshoot up to a 3 s lag" holds "at 1 Hz" (`poi_servo.rs:22-23`): with a lag of
  three readings, ticks that keep coming three seconds apart overshoot by about a
  hundredth of the room there was, and ticks one and two seconds apart in turn by far less. With
  a lag of two, five seconds are not too many (`TunedTo` in `NothingOvershootsWhenCalm`);
- a topology change between the boot fetch and the subscribe is not noticed
  (`app.rs:75`; `missed` in `BehindIsTemporary`). The header (`app.rs:3-7`)
  has the two the other way round;
- a beacon that finds the forwarder's stream full is dropped without a trace
  (`mqtt/subscriber.rs:52`; `missed`);
- a failed subscription update is not retried (`subscriptions.rs:86`; `shaky`), and a
  reconnect re-issues "whatever is current" without waiting for the broker's answer or looking at
  it (`mqtt/subscriber.rs:70-74`): until the answer the link is up and the inputs unheard
  (`asked`), and after a refusal they stay so until the next outage (`deaf`);
- a cap batch that failed in part leaves a GPU off the level the controller goes
  on from (`partial`), a locked GPU's level is confirmed though not written
  (`skipped`), and an operator's cap that crosses a shed can be overwritten or
  overwrite it until the next change of level (`crossed`);
- a controller made while GPUs are capped takes them for uncapped (`shed_task.rs:110`),
  and what is not shed is never raised (`shed.rs:129`): after a reconcile in the middle of a shed the
  power is not given back until a later shed ends (`forgot` in `CapsRestored`), and the first cut
  of that may raise caps;
- an operator's raise that fails on one GPU is refused and the request before it restored
  (`dispatch/mod.rs:212`), while "the others still land" (`power_cap.rs`): those stay above the cap
  that stands (`strays` in `UnderOperatorCap`), which is what `dispatch/mod.rs:66-67` rules out;
- "a write that failed leaves the devices where they were" (`shed.rs:85-87`): a raise from the
  floor that lands in part leaves GPUs above it with the controller at the floor, where there
  is nothing left to cut (`StuckAtFloor` in `EnvelopeHeld`).

## 4. What is proved

For every value of the constants, from the assumption named in each module: the
types of the constants; a locked set contains the children of its members; sets
of children are finite; setpoints and caps found at the start are ones a split or a fleet
cap may leave; the values that stand for "none" (`None`, `Missing`) are not
among those they are told from; the channel of a rack's SoC is not that of its state; `Far` is
more than the load and the children together. Bounds are arbitrary
natural numbers, so no theorem is about a number of faults, changes or commands.
Each invariant was checked by TLC on the run's instance before it was proved (`SettleInv` and
`DirectInv` with every lag up to three, `Far = 300` and the 85 ticks `SettlesBy` asks for then).

| Theorem | Says | Along |
|---|---|---|
| `CommandProofs!TypeCorrect` | `[]TypeOK` | one step per action |
| `CommandProofs!CommandsNeverWriteLocked` | `[]CommandsSkipLocked` | `GuardInv`: what a caller has decided was decided against the set that is locked now, because the set stands still while any caller is inside. `CommandsSkipLocked` alone says nothing of a caller that has checked and not yet begun to write |
| `CommandProofs!CommandsAreAtomic` | `Spec => AtomicRequests`: `handle_command` implements the register, whoever else commands | `GuardedInv` (a guarded module's command writes nothing, so is never restored) and `ClashInv`: a command that met no other is alone on its device and its own value is in the record (`AloneOn`), so a restore always applies; of commands that did meet, the record and all they may put back are among the values in play (`InPlayOn`). The mapping shows a lone undecided command's *previous* request; acceptance is the step that decides it |
| `ShareProofs!TargetIsGivenOut`, `SplitIsFair`, `BoundsAreDelivered` | `[]GivesAllItCan`, `[]MaxMinFair`, `[]BoundIsDeliverable` | `ReadInv` (eligible children and caps are what the readings give) and `SplitInv`: closed children have their caps, what is left for the others is, by weight, no less than any closed child has, and those got nothing yet (`Unspent`) or all of it by weight (`Spent`). That a turn's redistribution never leaves an open child below a closed one is the loop invariant `MaxMinFair` lacks. For the bound: the room of the racks it counts is what the eligible ones take and what it overstates, and without racks it is all overstated |
| `ShareProofs!HandoffsNeverOverlap`, `OutputsOverlapByDriftOnly` | `[]WritesNeverOverlap` (a split, and two until a plan of this task has landed), `[]OutputsOverlapOnlyDrift` (of plans that are not `loose`) | `PlanInv` and, until a fault, `RegInv` (children already written grew by no more than those to be written), `FitInv` (what is held and what is planned each fit on the bus), `LagInv` (so does the larger of the two child by child, but for 1 %, unless `loose`) and `BlindInv` (what a task without memory writes over fits on the bus, and so does what it writes). That a batch in order of growth stays below the larger of its ends follows from sums over the written and the unwritten |
| `ShareProofs!HandoffsAreHeld` | `[]HoldCoversHandoff` | `GateInv` |
| `SiteEventProofs!EventLeavesNoTrace`, `OperatorsKeepTheirChoice` | `[]NoTraceUnlessRefused`, `[]ChoiceComesBack` | `TraceInv` (the event knows every setpoint it gave and a release has it to do or will be tried again), `RestoreInv` (what a release has to do is the snapshot's, of modules still on their share) and `ChoiceInv` (the snapshot is what operators wanted of modules they left alone since). The properties speak only of events that are over |
| `RestrictionProofs!StaleSetsAreCorrected` | `[]StaleIsTemporary` | with `AnswerIsCurrent`: an answer waiting to be applied is current or will be corrected |
| `RestrictionProofs!CapsStayUnder` | `[]UnderOperatorCap` | `WantInv` (the level a batch is writing is under the operator's cap, or a command crossed it), `CapInv` (between commands so is every GPU but the `strays`) and `OrderInv` (during one, what it wrote is under its cap and the rest under the one a failure puts back). Without `OrderInv` nothing is known of the GPUs a failed command did not reach |
| `RestrictionProofs!TicksStayWithinMeterError` | `StepWithinMeterError`, if `MaxLate <= 3` | `EnvelopeInv`: the output is within the rating, and is what the children deliver unless the tick before could not. `Reachable` is the argument: every bound of the servo, also the one that gives way to the other, lies no further from the output than the room the reading shows, and clamp, hold, ramp and track stay on the way from the output to a target between the bounds |
| `RestrictionProofs!NothingOvershootsWhenCalm` | `[]NoOvershootWhenCalm`, if every lag is `TunedTo`: three readings at most, and ticks at most five seconds late, or on time with three | `CalmInv`: the rooms to a limit along the trail of readings (those under way, then the POI) each keep three quarters of the one before (a half for a shorter lag). A tick takes a tenth a second of the oldest room and so, by that chain (`TakenOfTwo`, `TakenOfThree`, `TakenOfFour`), no more than a quarter (a half) of the newest, which makes the chain hold again one reading on. That the POI is within its limits now says nothing of the steps already taken that the meter has not shown |
| `RestrictionProofs!LimitsAreHeld` | `[]LimitsHeld`, if no lag is above three and `Settling` is `SettlesBy`: long enough for `damp` and `excess` to run out | `SettleInv` is indexed by `since`. A disturbance may leave any rooms on the trail, so the chain of `CalmInv` holds but for a defect, whose bound `damp` shrinks by two fifths every three ticks (`PairDamped`, `SideDamps`). When it is gone, what is past a limit now was so, and more, on the whole trail (`ExcessWas`): the tick's reading shows the violation and takes at least a tenth of it back, unless the children or the rating have no more (`ExcessShrinks`). Meanwhile the jump hold and the gate run out (`SettleWaits`). `DirectInv` is the shorter argument without a POI meter. `SettlesBy` is about `Settling`, the property's own parameter, and `Far` alone; `BoundedInv` gives the size of the first defect |
| `RestrictionProofs!SilenceEndsAtZero` | `[]SilenceStopsModule`, if `SettlingIsEnough` | `SilenceInv`: the reading is as old as the silence, and from the stale limit on the output has lost a ramp step every tick. `Settling` is the property's own parameter; the condition says it is the stale limit and the ramp from full capacity |
| `TelemetryProofs!PointsArePolled` | `[]EveryPointPolled`: no point waits longer than two passes | `PollInv`: `FetchInv` (a fetch is no older than the reads since) and `LateInv` (a point in this pass is late by no more than its place in it and the pass before). The property alone says nothing of how much of a pass is left |
| `TelemetryProofs!NothingStale` | `[]NothingStaleIsPublished` | `AgeInv`: a sample behind the i-th command in hand is no older than its topic allows plus the commands that had gone before it, a cached one plus `Delay` and its stamp; from `OldestAssumption`, with `FetchInv` for what a shared fetch publishes |
| `TelemetryProofs!ReserveIsKept` | `[]ReserveKept` | `SocInv` (a reading above the floor, in the fetch, the queue or the cache, is at least as old as the rack has been at it), with `AgeInv` how old that can be, and `ShareInv` (the time since the decision a share rests on: the batch that gave it and the one that takes it away) |
| `ModelMapProofs!WritesGoOnTarget` | `[]WritesOnTarget` | `WalkInv` (a walk no reboot tore is at a header of its layout and has found models only where they are), `CacheInv` (once a failure was noticed, an untorn cached map is the device's own) and `AimInv` (so is the register a request is aimed at); from `LayoutAssumption` (firmware serves a well-formed chain) |
| `CmdBitsProofs!WordIsWhatWasAsked` | `[]DeviceHoldsWhatWasAsked` | `SlotInv` (beat and command are at a word only while they hold its slot), `WordInv` (the word is what commands left set, or is forgotten whole) and `RegInv` (the device holds it unless a beat has yet to write) |
| `CmdBitsProofs!NothingElseResumes` | `ResumesOnlyOnEnable` | the same and `TripInv`: the word of a PCS that tripped after it was forgotten has no enable bit |
| `ReconcileProofs!ReconcileTypeCorrect` | `[]TypeOK`: no tick outlives its task | one step per action |
| `ReconcileProofs!OneTopologyAtATime`, `MixedViewsAreAlone` | `[]TasksMatchDevices`, `[]MixedViewIsConfined` | `MapsInv` (which specification each map holds at each step of a reconcile, and that nothing is alive while they move) and `GuardsInv` (a map does not move under a guard) |
| `ReconcileProofs!BehindIsNoticed` | `[]BehindIsTemporary` | with `MapsInv` and `FreshInv`: what was fetched is still true, or a beacon is on its way or was `missed` |
| `ReconcileProofs!SubscriptionsFollow` | `[]InputsHeardUnlessShaky` | `InputsInv`: where list and broker stand at each step of an update; a half-done update is only ever half done on a live link, and what a reconnect asked for and did not get yet is the list |

Sums over any finite set of children need an induction. The library's induction
theorems cannot be instantiated here, so `ShareProofs` proves what it needs of
`Sum` from its recursion by a least counterexample over the sizes of the subsets
(`Peeling`), and everything else from additivity, comparison and scaling of sums.

Only model-checked:

- liveness (`LoopsLeaveLocked`, `LockTakesEffect`, `Settles`, `LocksEnforcedUnlessMissed`,
  `Converges`, `ReleaseEnds`, `Returns`, `RequestsEnd`, `TopologyFollowed`, `ShutdownEnds`,
  `EnvelopeHeld`, `CapsRestored`, `OnlyTheCircleBlocks`): outside the prover's reach;
- `Envelope`'s `RequestFollowed`: how long the way back to the request takes depends on how
  often hysteresis starts over while the rooms settle, on dwell, margin and ramp, and
  a bound on that for all of them was not found. `LimitsAreHeld` has the part of it that the
  limits bind.

## 5. What is not modelled

- The components meet at their inputs: `HandoffWrites` takes any shares, whatever
  `Allocation` split, and `Envelope` any capacity; `Telemetry`'s rack is one of
  `Allocation`'s, with its readings cut to what the floor and the state decide.
- Two modules behind one POI: `Envelope` has one module, and the other's output is
  part of the load.
- The counter heartbeat (`heartbeat.rs`): one task writes one counter that nobody else touches.
- Protocol clients: what a session, TLS, an SNMP, Redfish, DNP3 or BACnet exchange does is
  a read or a write that succeeds or fails, and no such exchange leaves anything behind for the next but
  the session it reuses. Codecs and scaling are arithmetic without state; the
  synthetic operations (sums, scales) are arithmetic on values `Telemetry` does not carry. A
  Modbus session is keyed without the subject it was opened for (`modbus/client.rs:96`):
  two devices at one address with different subjects would share it. Nothing here says
  whether a topology may have two.
- Configuration, bootstrap and specification types: parsed once, before any task runs.
- A tick's `dt` in `Envelope` is the number of readings since the last, and one second
  without any. The ticks of a burst, which follow a late one at once, and a late tick that finds no
  reading are therefore counted as one second for dwell and ramp; the servo, which only moves on
  a new reading, is not affected.
- In `Lockouts` a reconnect is the moment the broker has taken the list: a late or refused
  resubscription is an outage that lasts longer there.
- f64 rounding in `allocate` and in the two controllers.

## 6. Plan

Done, in this order: commands and lockouts; their refinement and proofs; handoff
writes; site events; allocation; reconcile and its proofs; shed; command words;
envelope control; child capacity and module bounds; telemetry and its proofs; model
maps and their proof; children that die and choices that operators make mid-event;
proofs of every safety property of the runs but one; loops respawned over loaded devices,
commands that overlap, commands queued ahead of samples, beacons and resubscriptions lost.

Next:

1. `RequestFollowed`: from `SettleInv`, a bound on the violations that can still follow one
   another, then the dwell and the ramp.
2. The Modbus codec against a reference over a small word.
3. The tick of a module as one composition of `Allocation` and `HandoffWrites`, and the proof that what
   the first gives out is what the second may take.
