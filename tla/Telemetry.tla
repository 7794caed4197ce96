------------------------------- MODULE Telemetry -------------------------------
(***************************************************************************)
(* A reading's way from a device to the writes decided on it: the device's *)
(* poller (poller.rs), the sample published to the broker and back to the  *)
(* one forwarder (mqtt/), the shared cache, the derived channels           *)
(* (synthetic/, der_dispatch/actual_power.rs) and the rebalance task that  *)
(* steers a rack by its cached readings (dispatch/distribute.rs).          *)
(*                                                                         *)
(* Time is counted in seconds and kept as ages and remaining times; a      *)
(* second passes only when no task has anything left to do in it.  Values  *)
(* are left out but for what a rack's readings make its task do.  Every    *)
(* sample carries its true age, which no one in the code knows: the cache  *)
(* stamps samples on receipt and drops their `ts`.                         *)
(***************************************************************************)
EXTENDS Integers, Sequences

CONSTANTS
    N,          \* the device's points are 1..N, in the poller's order
    Period,     \* Period[t]: seconds between reads, or ticks, of topic t
    Resource,   \* Resource[p]: the Redfish resource it is read from; a point
                \* of any other protocol has one of its own
    Soc, State, \* the points a rack's rebalance looks at
    Derived,    \* derived topics, numbered on from N
    Inputs,     \* Inputs[s]: the topics s is computed from
    Totals,     \* those among them that no age holds (der_dispatch's)
    StaleFloor, \* synthetic::stale::STALE_FLOOR
    MissedPolls,
    NoLimit,
    Oldest,     \* Oldest[t]: the oldest a published sample of t may be
    None,       \* nothing there
    StaleAfter, \* dispatch::rack_limits::STALE_AFTER
    MaxRead,    \* the longest one read takes, retries and all
    MaxBusy,    \* the longest the forwarder is held up by one command
    MaxQueued,  \* the most commands it has in hand: the stream has a capacity
    MaxWrite,   \* the longest the rebalance task is held up by its writes
    MaxAge,     \* bound: ages are counted up to here
    MaxEvents   \* bound: commands; outages, samples and writes lost count twice

Points == 1..N
Topics == Points \cup Derived
Resources == {Resource[p] : p \in Points}
\* The topics the gateway subscribes to: inputs of some task.
Heard == {Soc, State} \cup UNION {Inputs[s] : s \in Derived}

ASSUME TelemetryAssumptions ==
    /\ N \in Nat \ {0}
    /\ Period \in [Topics -> Nat \ {0}]
    /\ Soc \in Points /\ State \in Points /\ Soc # State
    /\ Derived \subseteq Nat \ 0..N
    /\ Inputs \in [Derived -> SUBSET Topics]
    /\ Oldest \in [Topics -> Nat]
    /\ Totals \subseteq Derived
    /\ StaleFloor \in Nat /\ MissedPolls \in Nat /\ NoLimit \notin Nat
    /\ StaleAfter \in Nat /\ MaxRead \in Nat /\ MaxWrite \in Nat
    /\ MaxBusy \in Nat /\ MaxQueued \in Nat
    /\ MaxAge \in Nat /\ MaxEvents \in Nat
    /\ None \notin Nat
    /\ None \notin [to: BOOLEAN, spent: Nat]

\* stale_limits: the age at which input t holds s, a few missed polls but
\* never less than the floor.
Limit(s, t) ==
    IF s \in Totals THEN NoLimit
    ELSE IF MissedPolls * Period[t] > StaleFloor THEN MissedPolls * Period[t]
    ELSE StaleFloor

\* The longest a sample waits for the forwarder: for the commands ahead of it.
Delay == MaxQueued * MaxBusy

\* How old a sample may get: a point's by the reads after the fetch of its
\* resource and before its turn, a derived one by what its oldest input
\* may be when the cache still calls it fresh.  A topic whose inputs may be
\* of any age (der_dispatch's total) is nobody's input.
ASSUME OldestAssumption ==
    /\ \A p \in Points : Oldest[p] >= (p - 1) * MaxRead
    /\ \A s \in Derived : \A t \in Inputs[s] :
         /\ Limit(s, t) # NoLimit => Oldest[s] >= Limit(s, t) + Delay + Oldest[t]
         /\ Limit(s, t) = NoLimit => s \notin Heard

VARIABLES
    due,     \* due[p]: seconds until p is due, negative once it is late
    todo,    \* points this pass still has to read
    spent,   \* seconds the read in progress has taken
    broken,  \* resources the device does not answer for
    fetched, \* resources fetched this pass: None, or the result and its age
    stream,  \* the commands the forwarder has in hand, the one it handles first:
             \* stream[i][t] is the newest sample of t waiting behind the i-th
    busy,    \* seconds the first has taken
    cache,   \* InputCache: None, or the sample and when it landed
    ticked,  \* derived topics and tasks that have ticked this second
    rack,    \* what the rack is: its operating state, and how long it
             \* has been at or below the reserve floor (None: above)
    share,   \* whether the rack was last told to discharge
    writing, \* the rebalance task's writes: None, or what it writes and since when
    landed,  \* its last tick's writes landed
    events

pollVars == <<due, todo, spent, fetched, broken>>
mqttVars == <<stream, busy, cache>>
rackVars == <<rack, share, writing, landed>>
vars == <<pollVars, mqttVars, ticked, rackVars, events>>

Rebalance == 0
Ticking == Derived \cup {Rebalance}
Older(a) == IF a = None \/ a = MaxAge THEN a ELSE a + 1

Init ==
    /\ due = [p \in Points |-> 0]
    /\ todo = {}
    /\ spent = 0
    /\ fetched = [r \in Resources |-> None]
    /\ broken = {}
    /\ stream = <<>>
    /\ busy = 0
    /\ cache = [t \in Topics |-> None]
    /\ ticked = {}
    /\ rack = [state |-> "ok", low |-> None]
    /\ share = FALSE
    /\ writing = None
    /\ landed = TRUE
    /\ events = 0

Counted(n) == events + n <= MaxEvents /\ events' = events + n
Fault == Counted(2)
Sound == UNCHANGED events

-----------------------------------------------------------------------------
(* Samples *)

NoSample == [t \in Topics |-> None]
Free == stream = <<>>

\* A sample of an input reaches the forwarder, which caches it as received
\* now, or finds it when it is done with the commands before it.
Arrive(t, age, val) ==
    IF t \notin Heard THEN UNCHANGED mqttVars
    ELSE IF Free
    THEN /\ cache' = [cache EXCEPT ![t] = [age |-> age, val |-> val, stamp |-> 0]]
         /\ UNCHANGED <<stream, busy>>
    ELSE /\ stream' = [stream EXCEPT ![Len(stream)][t] = [age |-> age, val |-> val]]
         /\ UNCHANGED <<busy, cache>>

\* A sample is published; it may not fit its schema, be lost on the way
\* (QoS 0) or find the stream full.
Publish(t, age, val) ==
    \/ Arrive(t, age, val) /\ Sound
    \/ Fault /\ UNCHANGED mqttVars

\* A command comes in, to be handled after the ones before it.
CommandComes ==
    /\ Len(stream) < MaxQueued
    /\ Counted(1)
    /\ stream' = Append(stream, NoSample)
    /\ UNCHANGED <<busy, cache, pollVars, ticked, rackVars>>

\* One is done: what came after it and before the next is cached as received
\* now, and the forwarder turns to that.
CommandEnds ==
    /\ ~Free
    /\ stream' = Tail(stream)
    /\ busy' = 0
    /\ cache' = [t \in Topics |->
         IF Head(stream)[t] = None THEN cache[t]
         ELSE [age |-> Head(stream)[t].age, val |-> Head(stream)[t].val, stamp |-> 0]]
    /\ UNCHANGED <<pollVars, ticked, rackVars, events>>

-----------------------------------------------------------------------------
(* The poller *)

\* What point p reads on the rack now.
Reading(p) ==
    CASE p = Soc -> IF rack.low = None THEN "ok" ELSE "low"
      [] p = State -> rack.state
      [] OTHER -> "ok"

\* poll_due: every point due now, once, in order.
StartPass ==
    /\ todo = {}
    /\ todo' = {p \in Points : due[p] <= 0}
    /\ todo' # {}
    /\ fetched' = [r \in Resources |-> None]
    /\ UNCHANGED <<due, spent, broken, mqttVars, ticked, rackVars, events>>

IsCurrent(p) == p \in todo /\ \A q \in todo : p <= q

\* advance: one period after it was due, or from now if that has passed.
Advanced(p) == IF due[p] + Period[p] <= 0 THEN Period[p] ELSE due[p] + Period[p]

PointDone(p) ==
    /\ due' = [due EXCEPT ![p] = Advanced(p)]
    /\ todo' = todo \ {p}
    /\ spent' = 0

Body(p) == fetched[Resource[p]]

\* The device answers.
ReadAnswered(p) ==
    /\ IsCurrent(p)
    /\ Body(p) = None
    /\ Resource[p] \notin broken
    /\ fetched' = [fetched EXCEPT ![Resource[p]] =
         [ok |-> TRUE, age |-> 0, reads |-> [q \in Points |-> Reading(q)]]]
    /\ Publish(p, 0, Reading(p))
    /\ PointDone(p)
    /\ UNCHANGED <<broken, ticked, rackVars>>

\* Mutant: the poller stays with the point until the device answers.
ReadFails_Retries(p) ==
    /\ IsCurrent(p)
    /\ Body(p) = None
    /\ Resource[p] \in broken
    /\ spent' = 0
    /\ fetched' = [r \in Resources |-> None]
    /\ UNCHANGED <<due, todo, broken, mqttVars, ticked, rackVars, events>>

\* It does not, or no session to it can be had.
ReadFails(p) ==
    /\ IsCurrent(p)
    /\ Body(p) = None
    /\ Resource[p] \in broken
    /\ fetched' = [fetched EXCEPT ![Resource[p]] =
         [ok |-> FALSE, age |-> 0, reads |-> [q \in Points |-> Reading(q)]]]
    /\ PointDone(p)
    /\ UNCHANGED <<broken, mqttVars, ticked, rackVars, events>>

\* Its resource was fetched for an earlier point of this pass.
ReadShared(p) ==
    /\ IsCurrent(p)
    /\ Body(p) # None
    /\ IF Body(p).ok THEN Publish(p, Body(p).age, Body(p).reads[p])
                     ELSE UNCHANGED <<mqttVars, events>>
    /\ PointDone(p)
    /\ UNCHANGED <<fetched, broken, ticked, rackVars>>

\* The device stops answering for a resource, and answers again.
Break(r) ==
    /\ r \notin broken
    /\ Fault
    /\ broken' = broken \cup {r}
    /\ UNCHANGED <<due, todo, spent, fetched, mqttVars, ticked, rackVars>>

Mend(r) ==
    /\ r \in broken
    /\ broken' = broken \ {r}
    /\ UNCHANGED <<due, todo, spent, fetched, mqttVars, ticked, rackVars, events>>

-----------------------------------------------------------------------------
(* Derived channels *)

\* Mutant: a cached input is good for ever.
Fresh_Cached(s, t) == cache[t] # None

\* Fresh input: cached, and no older by its stamp than its stale limit.
Fresh(s, t) ==
    /\ cache[t] # None
    /\ Limit(s, t) # NoLimit => cache[t].stamp <= Limit(s, t)

Ready(s) == Inputs[s] # {} /\ \A t \in Inputs[s] : Fresh(s, t)

\* A tick with every input fresh publishes; its sample is as old as its
\* oldest input.
Derive(s) ==
    /\ s \notin ticked
    /\ Ready(s)
    /\ \E t \in Inputs[s] :
         /\ \A u \in Inputs[s] : cache[u].age <= cache[t].age
         /\ Publish(s, cache[t].age, "ok")
    /\ ticked' = ticked \cup {s}
    /\ UNCHANGED <<pollVars, rackVars>>

Holds(s) ==
    /\ s \notin ticked
    /\ ~Ready(s)
    /\ ticked' = ticked \cup {s}
    /\ UNCHANGED <<pollVars, mqttVars, rackVars, events>>

-----------------------------------------------------------------------------
(* The rebalance task: its module is asked to discharge throughout *)

\* Mutant: only the state's silence is noticed.
Quiet_State == cache[State].stamp > StaleAfter

Known == cache[Soc] # None /\ cache[State] # None

\* A reading older than STALE_AFTER: the rack counts as offline.
Quiet == cache[Soc].stamp > StaleAfter \/ cache[State].stamp > StaleAfter

\* resolve_child errs: the rack never reported, or reports a state nobody listed.
Unresolved == Known => ~Quiet /\ cache[State].val = "unlisted"

\* The rack gets a share: not offline or in fault, and above its floor.
Usable == ~Quiet /\ cache[State].val = "ok" /\ cache[Soc].val = "ok"

BeginsTick ==
    /\ Rebalance \notin ticked
    /\ writing = None
    /\ ticked' = ticked \cup {Rebalance}

\* No shares: nothing is written.
TickHolds ==
    /\ BeginsTick
    /\ Unresolved
    /\ landed' = FALSE
    /\ UNCHANGED <<pollVars, mqttVars, rack, share, writing, events>>

TickWrites ==
    /\ BeginsTick
    /\ ~Unresolved
    /\ writing' = [to |-> Usable, spent |-> 0]
    /\ UNCHANGED <<pollVars, mqttVars, rack, share, landed, events>>

WriteLands ==
    /\ writing # None
    /\ share' = writing.to
    /\ writing' = None
    /\ landed' = TRUE
    /\ UNCHANGED <<pollVars, mqttVars, ticked, rack, events>>

\* This write fails, whatever the rack made of it, or that of a sibling before it.
WriteFails ==
    /\ writing # None
    /\ Fault
    /\ share' \in {share, writing.to}
    /\ writing' = None
    /\ landed' = FALSE
    /\ UNCHANGED <<pollVars, mqttVars, ticked, rack>>

-----------------------------------------------------------------------------
(* The rack, and time *)

\* Discharging takes it to its floor.
ReachFloor ==
    /\ rack.low = None
    /\ share
    /\ rack' = [rack EXCEPT !.low = 0]
    /\ UNCHANGED <<pollVars, mqttVars, ticked, share, writing, landed, events>>

StateChanges(v) ==
    /\ rack.state # v
    /\ Fault
    /\ rack' = [rack EXCEPT !.state = v]
    /\ UNCHANGED <<pollVars, mqttVars, ticked, share, writing, landed>>

\* Nothing is left to do this second: the poller sleeps or waits for an answer,
\* the tickers have ticked, nobody has waited its longest.
Settled ==
    /\ IF todo = {} THEN \A p \in Points : due[p] > 0
       ELSE spent < MaxRead /\ \A p \in todo : IsCurrent(p) => Body(p) = None
    /\ ~Free => busy < MaxBusy
    /\ writing # None => writing.spent < MaxWrite
    /\ Ticking \ ticked \subseteq (IF writing = None THEN {} ELSE {Rebalance})

Second ==
    /\ Settled
    /\ due' = [p \in Points |-> due[p] - 1]
    /\ spent' = IF todo = {} THEN spent ELSE spent + 1
    /\ fetched' = [r \in Resources |->
         IF fetched[r] = None THEN None ELSE [fetched[r] EXCEPT !.age = Older(@)]]
    /\ busy' = IF Free THEN 0 ELSE busy + 1
    /\ stream' = [i \in DOMAIN stream |-> [t \in Topics |->
         IF stream[i][t] = None THEN None ELSE [stream[i][t] EXCEPT !.age = Older(@)]]]
    /\ cache' = [t \in Topics |->
         IF cache[t] = None THEN None
         ELSE [cache[t] EXCEPT !.age = Older(@), !.stamp = Older(@)]]
    /\ ticked' = {}
    /\ rack' = [rack EXCEPT !.low = Older(@)]
    /\ writing' = IF writing = None THEN None ELSE [writing EXCEPT !.spent = @ + 1]
    /\ UNCHANGED <<todo, broken, share, landed, events>>

-----------------------------------------------------------------------------
Next ==
    \/ StartPass
    \/ \E p \in Points : ReadAnswered(p) \/ ReadFails(p) \/ ReadShared(p)
    \/ \E r \in Resources : Break(r) \/ Mend(r)
    \/ CommandComes \/ CommandEnds
    \/ \E s \in Derived : Derive(s) \/ Holds(s)
    \/ TickHolds \/ TickWrites \/ WriteLands \/ WriteFails
    \/ ReachFloor
    \/ \E v \in {"ok", "fault", "unlisted"} : StateChanges(v)
    \/ Second

Spec == Init /\ [][Next]_vars

-----------------------------------------------------------------------------
(* Properties *)

\* stale.rs: "a sum over readings that stopped would show a steady load that
\* isn't there".  No sample is published older than its topic allows, through
\* shared fetches, a slow sibling's read, chains of derived channels and a
\* forwarder that stamps what waited behind its commands as received now.
NothingStaleIsPublished ==
    \A t \in Topics :
        /\ \A i \in DOMAIN stream : stream[i][t] # None =>
              stream[i][t].age <= Oldest[t] + (MaxQueued - i) * MaxBusy + busy
        /\ cache[t] # None => cache[t].age <= Oldest[t] + Delay + cache[t].stamp

\* However slow the others are, a point waits for at most the rest of one pass
\* and the whole of the next.
EveryPointPolled == \A p \in Points : -due[p] <= 2 * N * MaxRead

\* The longest a rack may keep discharging below its floor.
Overshoot == StaleAfter + Delay + Oldest[Soc] + 2 * MaxWrite + 1

\* A rack is not discharged below its reserve floor for longer than that,
\* whatever reading goes silent, as long as the rebalance task's last tick could
\* compute and land its writes (distribute.rs counts on ~1 s).
ReserveKept ==
    share /\ rack.low # None /\ landed => rack.low <= Overshoot

=============================================================================
