---------------------------- MODULE TelemetryProofs ----------------------------
(***************************************************************************)
(* NothingStaleIsPublished, EveryPointPolled and ReserveKept for any       *)
(* number of points, any periods, shared resources and derived channels,   *)
(* and any bounds on reads, commands and writes.                           *)
(***************************************************************************)
EXTENDS Telemetry, SequenceTheorems, WellFoundedInduction, TLAPS

Vals == {"ok", "low", "fault", "unlisted"}
Ages == 0..MaxAge
Samples == [age: Ages, val: Vals]
Entries == [age: Ages, val: Vals, stamp: Ages]
Batches == [Topics -> Samples \cup {None}]
Bodies == [ok: BOOLEAN, age: Ages, reads: [Points -> Vals]]

PollTypes ==
    /\ due \in [Points -> Int]
    /\ todo \in SUBSET Points
    /\ spent \in 0..MaxRead
    /\ todo = {} => spent = 0
    /\ fetched \in [Resources -> Bodies \cup {None}]
    /\ rack \in [state: Vals, low: Nat \cup {None}]

MqttTypes ==
    /\ stream \in Seq(Batches)
    /\ Len(stream) <= MaxQueued
    /\ busy \in 0..MaxBusy
    /\ Free => busy = 0
    /\ cache \in [Topics -> Entries \cup {None}]

\* A resource fetched in this pass is no older than the reads since.
FetchInv ==
    \A p \in Points : IsCurrent(p) =>
        \A r \in Resources : fetched[r] # None => fetched[r].age <= (p - 2) * MaxRead + spent

\* How late points are: by a pass at most between passes; within one, by the
\* reads so far, and by the pass before too if they are still to be read.
LateInv ==
    \A q \in Points :
        /\ todo = {} => -due[q] <= N * MaxRead
        /\ \A p \in Points : IsCurrent(p) =>
              -due[q] <= (IF q \in todo THEN N * MaxRead ELSE 0) + (p - 1) * MaxRead + spent

PollInv == PollTypes /\ FetchInv /\ LateInv

-----------------------------------------------------------------------------
(* Arithmetic *)

LEMMA Monotone ==
  ASSUME NEW a \in Int, NEW b \in Int, a <= b, NEW m \in Nat
  PROVE  a * m \in Int /\ b * m \in Int /\ a * m <= b * m
OBVIOUS

LEMMA OneMore ==
  ASSUME NEW a \in Int, NEW m \in Nat
  PROVE  (a + 1) * m = a * m + m
OBVIOUS

\* The reads of a pass up to p, of which the last took s.
LEMMA Reads ==
  ASSUME NEW p \in Int, NEW q \in Int, p < q, NEW m \in Nat, NEW s \in 0..m
  PROVE  /\ (p - 1) * m \in Int /\ (q - 1) * m \in Int
         /\ (p - 2) * m \in Int /\ (q - 2) * m \in Int
         /\ (p - 1) * m + s <= (q - 1) * m
         /\ (p - 2) * m + s <= (q - 2) * m
<1>1. p * m = (p - 1) * m + m
  <2>1. ((p - 1) + 1) * m = (p - 1) * m + m
    BY OneMore
  <2> QED
    BY <2>1
<1>2. (p - 1) * m = (p - 2) * m + m
  <2>1. ((p - 2) + 1) * m = (p - 2) * m + m
    BY OneMore
  <2> QED
    BY <2>1
<1>3. p * m <= (q - 1) * m /\ p * m \in Int /\ (q - 1) * m \in Int
  BY Monotone
<1>4. (p - 1) * m <= (q - 2) * m /\ (p - 1) * m \in Int /\ (q - 2) * m \in Int
  BY Monotone
<1>5. (p - 2) * m \in Int
  OBVIOUS
<1> QED
  BY <1>1, <1>2, <1>3, <1>4, <1>5

LEMMA Least ==
  ASSUME NEW T, T \subseteq Nat, T # {}
  PROVE  \E x \in T : \A y \in T : x <= y
<1> DEFINE R == OpToRel(<, Nat)
<1>1. IsWellFoundedOn(R, Nat)
  BY NatLessThanWellFounded
<1> HIDE DEF R
<1>2. PICK x \in T : \A y \in T : ~ (<<y, x>> \in R)
  BY <1>1, WFMin
<1>3. \A y \in T : ~ (y < x)
  BY <1>2 DEF R, OpToRel
<1> QED
  BY <1>3

-----------------------------------------------------------------------------
(* The poller *)

LEMMA PollInit == Init => PollInv
<1> SUFFICES ASSUME Init PROVE PollInv
  OBVIOUS
<1> USE TelemetryAssumptions
<1>1. PollTypes
  BY DEF Init, PollTypes, Vals
<1>2. FetchInv
  BY DEF Init, FetchInv, IsCurrent
<1>3. LateInv
  <2>1. N * MaxRead \in Nat
    OBVIOUS
  <2> QED
    BY <2>1 DEF Init, LateInv, IsCurrent
<1> QED
  BY <1>1, <1>2, <1>3 DEF PollInv

LEMMA StartPassPoll == ASSUME PollInv, StartPass PROVE PollInv'
<1> USE TelemetryAssumptions DEF PollInv
<1>1. PollTypes'
  BY DEF StartPass, PollTypes, rackVars
<1>2. FetchInv'
  BY DEF StartPass, FetchInv
<1>3. LateInv'
  <2> SUFFICES ASSUME NEW q \in Points, NEW p \in Points, IsCurrent(p)'
               PROVE  -due'[q] <= (IF q \in todo' THEN N * MaxRead ELSE 0)
                                     + (p - 1) * MaxRead + spent'
    BY DEF StartPass, LateInv, IsCurrent
  <2>1. -due[q] <= N * MaxRead
    BY DEF StartPass, LateInv
  <2>2. (p - 1) * MaxRead \in Nat /\ N * MaxRead \in Nat
    <3>1. p - 1 \in Nat
      BY DEF Points
    <3> QED
      BY <3>1
  <2>3. due' = due /\ spent' = spent /\ spent \in Nat /\ due[q] \in Int
    BY DEF StartPass, PollTypes
  <2>4. CASE q \in todo'
    BY <2>1, <2>2, <2>3, <2>4
  <2>5. CASE q \notin todo'
    <3>1. ~(due[q] <= 0)
      BY <2>5 DEF StartPass
    <3> QED
      BY <2>2, <2>3, <2>5, <3>1
  <2> QED
    BY <2>4, <2>5
<1> QED
  BY <1>1, <1>2, <1>3

\* The rest of a read: its point is done, and what was fetched, if anything, is new.
LEMMA PointDonePoll ==
  ASSUME PollInv, NEW p \in Points, IsCurrent(p), PointDone(p),
         NEW b \in Bodies, b.age = 0,
         \/ fetched' = fetched
         \/ fetched' = [fetched EXCEPT ![Resource[p]] = b],
         rack' = rack
  PROVE  PollInv'
<1> USE TelemetryAssumptions DEF PollInv
<1>1. Advanced(p) \in Int /\ Advanced(p) > 0
  BY DEF PollTypes, Advanced, Topics
<1>2. PollTypes'
  <2>1. Resource[p] \in Resources
    BY DEF Resources
  <2>2. fetched' \in [Resources -> Bodies \cup {None}]
    BY <2>1 DEF PollTypes
  <2> QED
    BY <1>1, <2>2 DEF PollTypes, PointDone
<1>3. \A n \in Points : IsCurrent(n)' => p < n
  BY DEF IsCurrent, PointDone, Points
<1>4. /\ MaxRead \in Nat /\ spent \in 0..MaxRead /\ p \in Int /\ spent' = 0
      /\ fetched \in [Resources -> Bodies \cup {None}]
  BY DEF PollTypes, PointDone, Points
<1>5. FetchInv'
  <2> SUFFICES ASSUME NEW n \in Points, IsCurrent(n)', NEW r \in Resources, fetched'[r] # None
               PROVE  fetched'[r].age <= (n - 2) * MaxRead + spent'
    BY DEF FetchInv
  <2>1. n \in Int /\ p < n
    BY <1>3 DEF Points
  <2>2. (n - 2) * MaxRead \in Int /\ (p - 2) * MaxRead + spent <= (n - 2) * MaxRead
        /\ (p - 2) * MaxRead \in Int
    BY <1>4, <2>1, Reads
  <2>3. (n - 2) * MaxRead >= 0
    <3>1. n - 2 \in Nat
      BY <2>1 DEF Points
    <3> QED
      BY <3>1, <1>4
  <2>4. CASE fetched'[r] = b
    BY <1>4, <2>2, <2>3, <2>4
  <2>5. CASE fetched'[r] = fetched[r]
    <3>1. fetched[r] # None
      BY <2>5
    <3>2. fetched[r].age <= (p - 2) * MaxRead + spent
      BY <3>1 DEF FetchInv
    <3>3. fetched[r].age \in Nat
      BY <3>1, <1>4 DEF Bodies, Ages
    <3> QED
      BY <1>4, <2>2, <2>5, <3>2, <3>3
  <2> QED
    BY <2>4, <2>5, <1>4
<1>6. LateInv'
  <2> SUFFICES ASSUME NEW q \in Points
               PROVE  /\ todo' = {} => -due'[q] <= N * MaxRead
                      /\ \A n \in Points : IsCurrent(n)' =>
                            -due'[q] <= (IF q \in todo' THEN N * MaxRead ELSE 0)
                                           + (n - 1) * MaxRead + spent'
    BY DEF LateInv
  <2>1. -due[q] <= (IF q \in todo THEN N * MaxRead ELSE 0) + (p - 1) * MaxRead + spent
    BY DEF LateInv
  <2>2. due[q] \in Int /\ N * MaxRead \in Nat /\ (p - 1) * MaxRead \in Nat
    <3>1. p - 1 \in Nat
      BY DEF Points
    <3> QED
      BY <3>1 DEF PollTypes
  <2>3. \/ due'[q] > 0 /\ due'[q] \in Int
        \/ due'[q] = due[q] /\ (q \in todo' <=> q \in todo)
    BY <1>1 DEF PointDone, PollTypes
  <2>4. ASSUME todo' = {} PROVE -due'[q] <= N * MaxRead
    <3>1. CASE due'[q] > 0 /\ due'[q] \in Int
      BY <3>1, <2>2
    <3>2. CASE due'[q] = due[q] /\ (q \in todo' <=> q \in todo)
      <4>1. -due[q] <= (p - 1) * MaxRead + spent
        BY <2>1, <2>2, <2>4, <3>2, <1>4
      <4>2. p < N + 1 /\ N + 1 \in Int
        BY DEF Points
      <4>3. (p - 1) * MaxRead + spent <= ((N + 1) - 1) * MaxRead
        BY <4>2, <1>4, Reads
      <4>4. (N + 1) - 1 = N
        OBVIOUS
      <4> QED
        BY <4>1, <4>3, <4>4, <3>2, <2>2, <1>4
    <3> QED
      BY <2>3, <3>1, <3>2
  <2>5. ASSUME NEW n \in Points, IsCurrent(n)'
        PROVE  -due'[q] <= (IF q \in todo' THEN N * MaxRead ELSE 0) + (n - 1) * MaxRead + spent'
    <3>1. n \in Int /\ p < n
      BY <1>3, <2>5 DEF Points
    <3>2. (n - 1) * MaxRead \in Int /\ (p - 1) * MaxRead + spent <= (n - 1) * MaxRead
      BY <1>4, <3>1, Reads
    <3>3. CASE due'[q] > 0 /\ due'[q] \in Int
      BY <3>2, <3>3, <2>2, <1>4
    <3>4. CASE due'[q] = due[q] /\ (q \in todo' <=> q \in todo)
      BY <3>2, <3>4, <2>1, <2>2, <1>4
    <3> QED
      BY <2>3, <3>3, <3>4
  <2> QED
    BY <2>4, <2>5
<1> QED
  BY <1>2, <1>5, <1>6

LEMMA ReadPoll ==
  ASSUME PollInv, NEW p \in Points, ReadAnswered(p) \/ ReadFails(p) \/ ReadShared(p)
  PROVE  PollInv'
<1>1. Reading(p) \in Vals /\ \A q \in Points : Reading(q) \in Vals
  BY DEF PollInv, PollTypes, Reading, Vals
<1> DEFINE b(ok) == [ok |-> ok, age |-> 0, reads |-> [q \in Points |-> Reading(q)]]
<1>2. \A ok \in BOOLEAN : b(ok) \in Bodies /\ b(ok).age = 0
  <2>1. 0 \in Ages
    BY TelemetryAssumptions DEF Ages
  <2> QED
    BY <1>1, <2>1 DEF Bodies
<1>3. IsCurrent(p) /\ PointDone(p) /\ rack' = rack
  BY DEF ReadAnswered, ReadFails, ReadShared, rackVars
<1>4. \/ fetched' = fetched
      \/ \E ok \in BOOLEAN : fetched' = [fetched EXCEPT ![Resource[p]] = b(ok)]
  BY DEF ReadAnswered, ReadFails, ReadShared
<1> HIDE DEF b
<1> QED
  BY <1>2, <1>3, <1>4, PointDonePoll

LEMMA SecondPoll == ASSUME PollInv, Second PROVE PollInv'
<1> USE TelemetryAssumptions DEF PollInv
<1>0. /\ Settled
      /\ due' = [p \in Points |-> due[p] - 1]
      /\ spent' = IF todo = {} THEN spent ELSE spent + 1
      /\ fetched' = [r \in Resources |->
           IF fetched[r] = None THEN None ELSE [fetched[r] EXCEPT !.age = Older(@)]]
      /\ rack' = [rack EXCEPT !.low = Older(@)]
      /\ todo' = todo
  BY Zenon DEF Second
<1>1. /\ \A a \in Nat : Older(a) \in Nat /\ Older(a) <= a + 1
      /\ \A a \in Ages : Older(a) \in Ages
  BY DEF Older, Ages
<1>2. PollTypes'
  <2>1. todo = {} \/ spent < MaxRead
    BY <1>0 DEF Settled
  <2>2. fetched' \in [Resources -> Bodies \cup {None}]
    <3> SUFFICES ASSUME NEW r \in Resources, fetched[r] # None
                 PROVE  [fetched[r] EXCEPT !.age = Older(@)] \in Bodies
      BY <1>0
    <3>1. fetched[r] \in Bodies
      BY DEF PollTypes
    <3> QED
      BY <1>1, <3>1 DEF Bodies, Ages
  <2>3. rack' \in [state: Vals, low: Nat \cup {None}]
    BY <1>0, <1>1 DEF PollTypes, Older
  <2> QED
    BY <1>0, <2>1, <2>2, <2>3 DEF PollTypes
<1>3. FetchInv'
  <2> SUFFICES ASSUME NEW p \in Points, IsCurrent(p)', NEW r \in Resources, fetched'[r] # None
               PROVE  fetched'[r].age <= (p - 2) * MaxRead + spent'
    BY DEF FetchInv
  <2>1. IsCurrent(p) /\ todo # {} /\ spent' = spent + 1 /\ spent \in Nat
    BY <1>0 DEF IsCurrent, PollTypes
  <2>2. fetched[r] # None /\ fetched[r] \in Bodies
    BY <1>0 DEF PollTypes
  <2>3. fetched'[r].age = Older(fetched[r].age) /\ fetched[r].age \in Nat
    BY <1>0, <2>2 DEF Bodies, Ages
  <2>4. fetched[r].age <= (p - 2) * MaxRead + spent
    BY <2>1, <2>2 DEF FetchInv
  <2>5. (p - 2) * MaxRead \in Int
    BY DEF Points
  <2> QED
    BY <1>1, <2>1, <2>3, <2>4, <2>5
<1>4. LateInv'
  <2> SUFFICES ASSUME NEW q \in Points
               PROVE  /\ todo' = {} => -due'[q] <= N * MaxRead
                      /\ \A p \in Points : IsCurrent(p)' =>
                            -due'[q] <= (IF q \in todo' THEN N * MaxRead ELSE 0)
                                           + (p - 1) * MaxRead + spent'
    BY DEF LateInv
  <2>1. due'[q] = due[q] - 1 /\ due[q] \in Int /\ N * MaxRead \in Nat /\ todo' = todo
    BY <1>0 DEF PollTypes
  <2>2. ASSUME todo = {} PROVE -due'[q] <= N * MaxRead
    <3>1. due[q] > 0
      BY <1>0, <2>2 DEF Settled
    <3> QED
      BY <2>1, <3>1
  <2>3. ASSUME NEW p \in Points, IsCurrent(p)
        PROVE  -due'[q] <= (IF q \in todo THEN N * MaxRead ELSE 0) + (p - 1) * MaxRead + spent'
    <3>1. -due[q] <= (IF q \in todo THEN N * MaxRead ELSE 0) + (p - 1) * MaxRead + spent
      BY <2>3 DEF LateInv
    <3>2. spent' = spent + 1 /\ spent \in Nat
      BY <1>0, <2>3 DEF IsCurrent, PollTypes
    <3>3. (p - 1) * MaxRead \in Int
      BY DEF Points
    <3> QED
      BY <2>1, <3>1, <3>2, <3>3
  <2> QED
    BY <2>1, <2>2, <2>3 DEF IsCurrent
<1> QED
  BY <1>2, <1>3, <1>4

LEMMA RestPoll ==
  ASSUME PollInv, UNCHANGED <<due, todo, spent, fetched>>,
         rack' \in [state: Vals, low: Nat \cup {None}]
  PROVE  PollInv'
BY DEF PollInv, PollTypes, FetchInv, LateInv, IsCurrent

LEMMA PollStep == PollInv /\ [Next]_vars => PollInv'
<1> SUFFICES ASSUME PollInv, [Next]_vars PROVE PollInv'
  OBVIOUS
<1>1. rack \in [state: Vals, low: Nat \cup {None}]
  BY DEF PollInv, PollTypes
<1>2. ASSUME NEW r \in Resources, Break(r) \/ Mend(r) PROVE PollInv'
  BY <1>1, <1>2, RestPoll DEF Break, Mend, rackVars
<1>3. ASSUME CommandComes \/ CommandEnds PROVE PollInv'
  BY <1>1, <1>3, RestPoll DEF CommandComes, CommandEnds, rackVars, pollVars
<1>4. ASSUME NEW s \in Derived, Derive(s) \/ Holds(s) PROVE PollInv'
  BY <1>1, <1>4, RestPoll DEF Derive, Holds, rackVars, pollVars
<1>5. ASSUME TickHolds \/ TickWrites \/ WriteLands \/ WriteFails PROVE PollInv'
  BY <1>1, <1>5, RestPoll DEF TickHolds, TickWrites, WriteLands, WriteFails, pollVars
<1>6. ASSUME ReachFloor PROVE PollInv'
  BY <1>1, <1>6, RestPoll DEF ReachFloor, pollVars
<1>7. ASSUME NEW v \in {"ok", "fault", "unlisted"}, StateChanges(v) PROVE PollInv'
  BY <1>1, <1>7, RestPoll DEF StateChanges, pollVars, Vals
<1>8. CASE UNCHANGED vars
  BY <1>1, <1>8, RestPoll DEF vars, pollVars, rackVars
<1> QED
  BY <1>2, <1>3, <1>4, <1>5, <1>6, <1>7, <1>8, StartPassPoll, ReadPoll, SecondPoll DEF Next

\* For any points, periods and shared resources, and however long a read takes,
\* no point of a device waits longer than the rest of one pass of its poller
\* (poller.rs poll_due) and the whole of the next.
THEOREM PointsArePolled == Spec => []EveryPointPolled
<1>1. PollInv => EveryPointPolled
  <2> SUFFICES ASSUME PollInv, NEW q \in Points PROVE -due[q] <= 2 * N * MaxRead
    BY DEF EveryPointPolled
  <2> USE TelemetryAssumptions DEF PollInv
  <2>1. N * MaxRead \in Nat /\ 2 * N * MaxRead = N * MaxRead + N * MaxRead /\ due[q] \in Int
    BY DEF PollTypes
  <2>2. CASE todo = {}
    BY <2>1, <2>2 DEF LateInv
  <2>3. ASSUME NEW p \in Points, IsCurrent(p) PROVE -due[q] <= 2 * N * MaxRead
    <3>1. -due[q] <= (IF q \in todo THEN N * MaxRead ELSE 0) + (p - 1) * MaxRead + spent
      BY <2>3 DEF LateInv
    <3>2. p \in Int /\ N + 1 \in Int /\ p < N + 1 /\ spent \in 0..MaxRead
      BY DEF Points, PollTypes
    <3>3. (p - 1) * MaxRead \in Int /\ (p - 1) * MaxRead + spent <= ((N + 1) - 1) * MaxRead
      BY <3>2, Reads
    <3>4. (N + 1) - 1 = N
      OBVIOUS
    <3> QED
      BY <2>1, <3>1, <3>2, <3>3, <3>4
  <2>4. todo # {} => \E p \in Points : IsCurrent(p)
    <3> SUFFICES ASSUME todo # {} PROVE \E p \in Points : IsCurrent(p)
      OBVIOUS
    <3>1. todo \subseteq Points /\ todo \subseteq Nat
      BY DEF PollTypes, Points
    <3> QED
      BY <3>1, Least DEF IsCurrent
  <2> QED
    BY <2>2, <2>3, <2>4
<1> QED
  BY PollInit, PollStep, <1>1, PTL DEF Spec

-----------------------------------------------------------------------------
(* Samples *)

\* What a sample behind the i-th command in hand has been through at most, but
\* for the first command's time so far.
Waited(i) == (MaxQueued - i) * MaxBusy

AgeInv ==
    \A t \in Topics :
        /\ \A i \in DOMAIN stream : stream[i][t] # None =>
              stream[i][t].age <= Oldest[t] + Waited(i) + busy
        /\ cache[t] # None => cache[t].age <= Oldest[t] + Delay + cache[t].stamp

MqttInv == MqttTypes /\ AgeInv

LEMMA WaitedIsDelay ==
  ASSUME NEW i \in 1..MaxQueued
  PROVE  /\ Delay \in Nat /\ Waited(i) \in Nat
         /\ Waited(i) + MaxBusy <= Delay
         /\ i # 1 => Waited(i - 1) = Waited(i) + MaxBusy
<1> USE TelemetryAssumptions
<1>1. Delay \in Nat /\ Waited(i) \in Nat
  BY DEF Delay, Waited
<1>2. (MaxQueued - i) + 1 \in Int /\ MaxQueued \in Int /\ (MaxQueued - i) + 1 <= MaxQueued
  OBVIOUS
<1>3. ((MaxQueued - i) + 1) * MaxBusy = Waited(i) + MaxBusy
  BY OneMore DEF Waited
<1>4. ((MaxQueued - i) + 1) * MaxBusy <= Delay
  BY <1>2, Monotone DEF Delay
<1>5. MaxQueued - (i - 1) = (MaxQueued - i) + 1
  OBVIOUS
<1> QED
  BY <1>1, <1>3, <1>4, <1>5 DEF Waited

LEMMA DelayIsNat == Delay \in Nat
BY TelemetryAssumptions DEF Delay

\* Where commands may be, and what waits behind them.
LEMMA StreamShape ==
  ASSUME MqttTypes
  PROVE  /\ DOMAIN stream = 1..Len(stream) /\ Len(stream) \in Nat
         /\ \A i \in DOMAIN stream : i \in 1..MaxQueued /\ stream[i] \in Batches
         /\ ~Free => Len(stream) \in DOMAIN stream /\ 1 \in DOMAIN stream
<1> USE TelemetryAssumptions
<1>1. DOMAIN stream = 1..Len(stream) /\ Len(stream) \in Nat /\ Len(stream) <= MaxQueued
  BY DEF MqttTypes
<1>2. \A i \in DOMAIN stream : stream[i] \in Batches
  BY DEF MqttTypes
<1>3. stream # <<>> => Len(stream) # 0
  BY DEF MqttTypes
<1> QED
  BY <1>1, <1>2, <1>3 DEF Free

LEMMA MqttInit == Init => MqttInv
<1> SUFFICES ASSUME Init PROVE MqttInv
  OBVIOUS
<1>1. stream = <<>> /\ busy = 0 /\ cache = [t \in Topics |-> None]
  BY DEF Init
<1> QED
  BY <1>1, TelemetryAssumptions DEF MqttInv, MqttTypes, AgeInv, Free

\* A sample young enough for its topic keeps the cache and the stream so.
LEMMA ArriveMqtt ==
  ASSUME MqttInv, NEW t \in Topics, NEW age \in Ages, NEW val \in Vals,
         age <= Oldest[t], Arrive(t, age, val) \/ UNCHANGED mqttVars
  PROVE  MqttInv'
<1> USE TelemetryAssumptions, DelayIsNat DEF MqttInv
<1>1. CASE UNCHANGED mqttVars
  BY <1>1 DEF mqttVars, MqttTypes, AgeInv, Free
<1>2. CASE /\ Free
           /\ cache' = [cache EXCEPT ![t] = [age |-> age, val |-> val, stamp |-> 0]]
           /\ UNCHANGED <<stream, busy>>
  <2>1. MqttTypes'
    BY <1>2 DEF MqttTypes, Entries, Ages, Free
  <2>2. \A u \in Topics : cache'[u] # None =>
           cache'[u].age <= Oldest[u] + Delay + cache'[u].stamp
    BY <1>2 DEF MqttTypes, AgeInv, Entries, Ages
  <2> QED
    BY <1>2, <2>1, <2>2 DEF AgeInv
<1>3. CASE /\ ~Free
           /\ stream' = [stream EXCEPT ![Len(stream)][t] = [age |-> age, val |-> val]]
           /\ UNCHANGED <<busy, cache>>
  <2> DEFINE l == Len(stream)
             b == [stream[l] EXCEPT ![t] = [age |-> age, val |-> val]]
  <2>1. /\ l \in DOMAIN stream /\ DOMAIN stream = 1..l /\ l \in Nat /\ stream[l] \in Batches
        /\ \A i \in DOMAIN stream : i \in 1..MaxQueued /\ stream[i] \in Batches
    BY <1>3, StreamShape
  <2>2. stream' = [stream EXCEPT ![l] = b]
    BY <1>3
  <2>3. b \in Batches /\ b[t] = [age |-> age, val |-> val]
        /\ \A u \in Topics : u # t => b[u] = stream[l][u]
    BY <2>1 DEF Batches, Samples
  <2> HIDE DEF b, l
  <2>4. /\ stream' \in Seq(Batches) /\ Len(stream') = Len(stream)
        /\ DOMAIN stream' = DOMAIN stream
        /\ \A i \in DOMAIN stream : stream'[i] = IF i = l THEN b ELSE stream[i]
    BY <2>1, <2>2, <2>3 DEF MqttTypes, l
  <2>5. MqttTypes'
    <3>1. stream' # <<>>
      BY <2>1, <2>4
    <3> QED
      BY <1>3, <2>4, <3>1 DEF MqttTypes, Free
  <2>6. ASSUME NEW u \in Topics, NEW i \in DOMAIN stream, stream'[i][u] # None
        PROVE  stream'[i][u].age <= Oldest[u] + Waited(i) + busy
    <3>1. Waited(i) \in Nat /\ busy \in Nat /\ Oldest[u] \in Nat /\ age \in Nat
      BY <2>1, WaitedIsDelay DEF MqttTypes, Ages
    <3>2. CASE i = l /\ u = t
      BY <2>3, <2>4, <3>1, <3>2
    <3>3. CASE ~(i = l /\ u = t)
      <4>1. stream'[i][u] = stream[i][u]
        BY <2>3, <2>4, <3>3
      <4> QED
        BY <2>6, <4>1 DEF AgeInv
    <3> QED
      BY <3>2, <3>3
  <2> QED
    BY <1>3, <2>4, <2>5, <2>6 DEF AgeInv
<1> QED
  BY <1>1, <1>2, <1>3 DEF Arrive

\* A command goes to the end of the stream; the first one's samples are cached
\* when it is done, and the others have one less to wait for.
LEMMA ComesMqtt == ASSUME MqttInv, CommandComes PROVE MqttInv'
<1> USE TelemetryAssumptions DEF MqttInv
<1>1. /\ stream' = Append(stream, NoSample) /\ Len(stream) < MaxQueued
      /\ UNCHANGED <<busy, cache>>
  BY DEF CommandComes
<1>2. NoSample \in Batches /\ \A t \in Topics : NoSample[t] = None
  BY DEF NoSample, Batches
<1> HIDE DEF NoSample
<1>3. stream \in Seq(Batches)
  BY DEF MqttTypes
<1>4. /\ stream' \in Seq(Batches)
      /\ Len(stream') = Len(stream) + 1
      /\ \A i \in 1..Len(stream) : stream'[i] = stream[i]
      /\ stream'[Len(stream) + 1] = NoSample
  BY <1>1, <1>2, <1>3, AppendProperties
<1>5. DOMAIN stream' = 1..(Len(stream) + 1) /\ DOMAIN stream = 1..Len(stream) /\ Len(stream) \in Nat
  BY <1>3, <1>4
<1>6. MqttTypes'
  <2>1. stream' # <<>>
    BY <1>4, <1>5
  <2> QED
    BY <1>1, <1>4, <1>5, <2>1 DEF MqttTypes, Free
<1>7. AgeInv'
  BY <1>1, <1>2, <1>4, <1>5 DEF AgeInv
<1> QED
  BY <1>6, <1>7

LEMMA EndsMqtt == ASSUME MqttInv, CommandEnds PROVE MqttInv'
<1> USE TelemetryAssumptions, DelayIsNat DEF MqttInv
<1> DEFINE first == stream[1]
<1>1. /\ ~Free /\ stream' = Tail(stream) /\ busy' = 0
      /\ cache' = [t \in Topics |->
           IF first[t] = None THEN cache[t]
           ELSE [age |-> first[t].age, val |-> first[t].val, stamp |-> 0]]
  BY DEF CommandEnds
<1>2. /\ stream \in Seq(Batches) /\ stream # <<>>
      /\ DOMAIN stream = 1..Len(stream) /\ Len(stream) \in Nat /\ Len(stream) <= MaxQueued
      /\ first \in Batches /\ 1 \in DOMAIN stream /\ 1 \in 1..MaxQueued
  BY <1>1, StreamShape DEF MqttTypes, Free
<1>3. /\ stream' \in Seq(Batches)
      /\ Len(stream') = Len(stream) - 1
      /\ \A i \in 1..Len(stream') : stream'[i] = stream[i + 1]
  BY <1>1, <1>2, HeadTailProperties
<1>4. DOMAIN stream' = 1..(Len(stream) - 1)
  BY <1>3
<1>5. \A t \in Topics : first[t] # None =>
         /\ first[t] \in Samples
         /\ first[t].age <= Oldest[t] + Waited(1) + busy
  BY <1>2 DEF AgeInv, Batches
<1>6. /\ Waited(1) \in Nat /\ Waited(1) + MaxBusy <= Delay /\ busy \in 0..MaxBusy
  BY <1>2, WaitedIsDelay DEF MqttTypes
<1> HIDE DEF first
<1>7. \A t \in Topics : first[t] # None => first[t].age <= Oldest[t] + Delay
  BY <1>5, <1>6 DEF Samples, Ages
<1>8. MqttTypes'
  <2>1. cache' \in [Topics -> Entries \cup {None}]
    BY <1>1, <1>5 DEF MqttTypes, Samples, Entries, Ages
  <2> QED
    BY <1>1, <1>2, <1>3, <2>1 DEF MqttTypes
<1>9. ASSUME NEW t \in Topics, cache'[t] # None
      PROVE  cache'[t].age <= Oldest[t] + Delay + cache'[t].stamp
  BY <1>1, <1>5, <1>7, <1>9 DEF AgeInv, Samples, Ages
<1>10. ASSUME NEW t \in Topics, NEW i \in DOMAIN stream', stream'[i][t] # None
       PROVE  stream'[i][t].age <= Oldest[t] + Waited(i) + busy'
  <2>1. i + 1 \in DOMAIN stream /\ stream'[i] = stream[i + 1] /\ i \in 1..MaxQueued
        /\ i + 1 \in 1..MaxQueued /\ i + 1 # 1 /\ (i + 1) - 1 = i
    BY <1>2, <1>3, <1>4
  <2>2. Waited(i) = Waited(i + 1) + MaxBusy /\ Waited(i + 1) \in Nat
    BY <2>1, WaitedIsDelay
  <2>3. stream[i + 1][t].age <= Oldest[t] + Waited(i + 1) + busy
    BY <1>10, <2>1 DEF AgeInv
  <2>4. stream[i + 1][t].age \in Nat
    BY <1>10, <2>1, StreamShape DEF Batches, Samples, Ages
  <2>5. Oldest[t] \in Nat /\ busy' = 0 /\ stream'[i][t] = stream[i + 1][t]
    BY <1>1, <2>1
  <2>6. \A a, o, w \in Nat : a <= o + w + busy => a <= o + (w + MaxBusy) + 0
    BY <1>6
  <2> QED
    BY ONLY <2>2, <2>3, <2>4, <2>5, <2>6
<1> QED
  BY <1>8, <1>9, <1>10 DEF AgeInv

\* What the poller publishes, and what a derived channel does.
LEMMA ReadMqtt ==
  ASSUME PollInv, MqttInv, NEW p \in Points,
         ReadAnswered(p) \/ ReadFails(p) \/ ReadShared(p)
  PROVE  MqttInv'
<1> USE TelemetryAssumptions
<1>1. p \in Topics /\ Oldest[p] \in Nat /\ Oldest[p] >= (p - 1) * MaxRead /\ 0 \in Ages
  BY OldestAssumption DEF Topics, Ages
<1>2. UNCHANGED mqttVars => MqttInv'
  BY DEF MqttInv, MqttTypes, AgeInv, Free, mqttVars
<1>3. CASE ReadAnswered(p)
  <2>1. Reading(p) \in Vals
    BY DEF PollInv, PollTypes, Reading, Vals
  <2> QED
    BY <1>1, <1>3, <2>1, ArriveMqtt DEF ReadAnswered, Publish
<1>4. CASE ReadFails(p)
  BY <1>2, <1>4 DEF ReadFails
<1>5. CASE ReadShared(p)
  <2>1. Body(p) \in Bodies /\ Body(p) # None /\ IsCurrent(p) /\ Resource[p] \in Resources
    BY <1>5 DEF ReadShared, Body, PollInv, PollTypes, Resources
  <2>2. Body(p).age \in Ages /\ Body(p).age \in Nat /\ Body(p).reads[p] \in Vals
    BY <2>1 DEF Bodies, Ages
  <2>3. Body(p).age <= (p - 2) * MaxRead + spent
    BY <2>1 DEF Body, PollInv, FetchInv
  <2>4. Body(p).age <= (p - 1) * MaxRead
    <3>1. spent \in 0..MaxRead /\ p \in Int
      BY DEF PollInv, PollTypes, Points
    <3>2. ((p - 2) + 1) * MaxRead = (p - 2) * MaxRead + MaxRead
      BY <3>1, OneMore
    <3>3. (p - 2) + 1 = p - 1 /\ (p - 2) * MaxRead \in Int
      BY <3>1
    <3> QED
      BY <2>2, <2>3, <3>1, <3>2, <3>3
  <2>5. Body(p).age <= Oldest[p]
    <3>1. (p - 1) * MaxRead \in Int
      BY DEF Points
    <3> QED
      BY <1>1, <2>2, <2>4, <3>1
  <2> QED
    BY <1>1, <1>2, <1>5, <2>2, <2>5, ArriveMqtt DEF ReadShared, Publish
<1> QED
  BY <1>3, <1>4, <1>5

LEMMA DeriveMqtt ==
  ASSUME MqttInv, NEW s \in Derived, Derive(s)
  PROVE  MqttInv'
<1> USE TelemetryAssumptions
<1>1. PICK t \in Inputs[s] : Publish(s, cache[t].age, "ok")
  BY DEF Derive
<1>2. UNCHANGED mqttVars => MqttInv'
  BY DEF MqttInv, MqttTypes, AgeInv, Free, mqttVars
<1>3. s \in Topics /\ t \in Topics
  BY DEF Topics
<1>4. CASE s \notin Heard
  BY <1>1, <1>2, <1>4 DEF Publish, Arrive
<1>5. CASE s \in Heard
  <2>1. Limit(s, t) # NoLimit /\ Limit(s, t) \in Nat
    <3>1. Limit(s, t) # NoLimit
      BY <1>5, OldestAssumption
    <3>2. Period[t] \in Nat /\ MissedPolls * Period[t] \in Nat
      BY <1>3
    <3> QED
      BY <3>1, <3>2 DEF Limit
  <2>2. Oldest[s] >= Limit(s, t) + Delay + Oldest[t]
    BY <2>1, OldestAssumption
  <2>3. cache[t] # None /\ cache[t].stamp <= Limit(s, t)
    BY <2>1 DEF Derive, Ready, Fresh
  <2>4. cache[t].age \in Ages /\ cache[t].age \in Nat /\ cache[t].stamp \in Nat
    <3>1. cache[t] \in Entries
      BY <1>3, <2>3 DEF MqttInv, MqttTypes
    <3>2. cache[t].age \in Ages /\ cache[t].stamp \in Ages
      BY <3>1 DEF Entries
    <3> QED
      BY <3>2 DEF Ages
  <2>5. cache[t].age <= Oldest[t] + Delay + cache[t].stamp
    BY <1>3, <2>3 DEF MqttInv, AgeInv
  <2>6. Oldest[s] \in Nat /\ Oldest[t] \in Nat /\ Delay \in Nat
    BY <1>3, DelayIsNat
  <2>7. cache[t].age <= Oldest[s]
    BY <2>1, <2>2, <2>3, <2>4, <2>5, <2>6
  <2>8. "ok" \in Vals
    BY DEF Vals
  <2> QED
    BY <1>1, <1>3, <2>4, <2>7, <2>8, ArriveMqtt DEF Publish
<1> QED
  BY <1>4, <1>5

LEMMA SecondMqtt == ASSUME MqttInv, Second PROVE MqttInv'
<1> USE TelemetryAssumptions, DelayIsNat DEF MqttInv
<1>0. /\ Settled
      /\ busy' = IF Free THEN 0 ELSE busy + 1
      /\ stream' = [i \in DOMAIN stream |-> [t \in Topics |->
           IF stream[i][t] = None THEN None ELSE [stream[i][t] EXCEPT !.age = Older(@)]]]
      /\ cache' = [t \in Topics |->
           IF cache[t] = None THEN None
           ELSE [cache[t] EXCEPT !.age = Older(@), !.stamp = Older(@)]]
  BY Zenon DEF Second
<1>1. \A a \in Ages : Older(a) \in Ages /\ Older(a) = (IF a = MaxAge THEN a ELSE a + 1)
  BY DEF Older, Ages
<1>2. busy' \in 0..MaxBusy /\ (~Free => busy \in Nat /\ busy' = busy + 1)
  <2>0. busy' = IF Free THEN 0 ELSE busy + 1
    BY <1>0
  <2>1. busy \in 0..MaxBusy
    BY DEF MqttTypes
  <2>2. CASE Free
    BY ONLY <2>0, <2>1, <2>2, TelemetryAssumptions
  <2>3. CASE ~Free
    <3>1. busy < MaxBusy
      BY <1>0, <2>3, Zenon DEF Settled
    <3> QED
      BY ONLY <2>0, <2>1, <2>3, <3>1, TelemetryAssumptions
  <2> QED
    BY <2>2, <2>3
<1>3. ASSUME NEW i \in DOMAIN stream, NEW t \in Topics
      PROVE  /\ stream'[i][t] \in Samples \cup {None}
             /\ stream'[i][t] # None => stream'[i][t].age <= Oldest[t] + Waited(i) + busy'
  <2> DEFINE q == stream[i][t]
  <2>0. stream'[i][t] = IF q = None THEN None ELSE [q EXCEPT !.age = Older(q.age)]
    BY <1>0
  <2>1. CASE q = None
    BY <2>0, <2>1
  <2>2. CASE q # None
    <3>1. stream[i] \in Batches /\ i \in 1..MaxQueued
      BY StreamShape
    <3>2. q \in Samples /\ q.age <= Oldest[t] + Waited(i) + busy /\ ~Free
      BY <2>2, <3>1 DEF AgeInv, Batches, Free
    <3>3. q.age \in Ages /\ q.age \in Nat /\ Oldest[t] \in Nat /\ Waited(i) \in Nat
      BY <3>1, <3>2, WaitedIsDelay DEF Samples, Ages
    <3> HIDE DEF q
    <3>4. stream'[i][t] \in Samples /\ stream'[i][t].age = Older(q.age)
      BY <1>1, <2>0, <2>2, <3>2, <3>3 DEF Samples
    <3>5. stream'[i][t].age <= Oldest[t] + Waited(i) + busy'
      BY <1>1, <1>2, <3>2, <3>3, <3>4
    <3> QED
      BY <2>2, <3>4, <3>5
  <2> QED
    BY <2>1, <2>2
<1>4. ASSUME NEW t \in Topics
      PROVE  /\ cache'[t] \in Entries \cup {None}
             /\ cache'[t] # None => cache'[t].age <= Oldest[t] + Delay + cache'[t].stamp
  <2>1. CASE cache[t] = None
    BY <1>0, <2>1
  <2>2. CASE cache[t] # None
    <3> DEFINE a == Older(cache[t].age)
               s == Older(cache[t].stamp)
    <3>1. cache[t] \in Entries /\ cache[t].age <= Oldest[t] + Delay + cache[t].stamp
      BY <2>2 DEF MqttTypes, AgeInv
    <3>2. cache'[t] = [cache[t] EXCEPT !.age = a, !.stamp = s]
      BY <1>0, <2>2
    <3>3. cache[t].age \in Ages /\ cache[t].stamp \in Ages /\ Oldest[t] \in Nat
      BY <3>1 DEF Entries
    <3>4. /\ a \in Ages /\ a = (IF cache[t].age = MaxAge THEN cache[t].age ELSE cache[t].age + 1)
          /\ s \in Ages /\ s = (IF cache[t].stamp = MaxAge THEN cache[t].stamp ELSE cache[t].stamp + 1)
      BY <1>1, <3>3
    <3> HIDE DEF a, s
    <3>5. /\ cache'[t] \in Entries
          /\ cache'[t].age = a
          /\ cache'[t].stamp = s
      BY <3>1, <3>2, <3>4 DEF Entries
    <3>6. a <= Oldest[t] + Delay + s
      BY <3>1, <3>3, <3>4 DEF Ages
    <3> QED
      BY <3>5, <3>6
  <2> QED
    BY <2>1, <2>2
<1>5. DOMAIN stream' = DOMAIN stream /\ stream' \in Seq(Batches) /\ Len(stream') = Len(stream)
  <2>1. DOMAIN stream' = DOMAIN stream
    BY <1>0
  <2>2. \A i \in DOMAIN stream : stream'[i] \in Batches
    <3> SUFFICES ASSUME NEW i \in DOMAIN stream PROVE stream'[i] \in Batches
      OBVIOUS
    <3>1. stream'[i] = [t \in Topics |-> stream'[i][t]]
      BY <1>0
    <3> QED
      BY <1>3, <3>1 DEF Batches
  <2>3. stream' = [i \in DOMAIN stream |-> stream'[i]]
    BY <1>0
  <2>4. DOMAIN stream = 1..Len(stream) /\ Len(stream) \in Nat
    BY StreamShape
  <2>5. stream' \in [1..Len(stream) -> Batches]
    BY <2>2, <2>3, <2>4
  <2>6. stream' \in Seq(Batches) /\ Len(stream') = Len(stream)
    BY <2>4, <2>5
  <2> QED
    BY <2>1, <2>6
<1>6. MqttTypes'
  <2>1. cache' \in [Topics -> Entries \cup {None}]
    BY <1>0, <1>4
  <2>2. Free' => Free
    BY <1>5 DEF MqttTypes, Free
  <2> QED
    BY <1>0, <1>2, <1>5, <2>1, <2>2 DEF MqttTypes
<1>7. AgeInv'
  BY <1>3, <1>4, <1>5 DEF AgeInv
<1> QED
  BY <1>6, <1>7

LEMMA MqttStep == PollInv /\ MqttInv /\ [Next]_vars => MqttInv'
<1> SUFFICES ASSUME PollInv, MqttInv, [Next]_vars PROVE MqttInv'
  OBVIOUS
<1>1. UNCHANGED mqttVars => MqttInv'
  BY DEF MqttInv, MqttTypes, AgeInv, Free, mqttVars
<1>2. ASSUME NEW r \in Resources, Break(r) \/ Mend(r) PROVE MqttInv'
  BY <1>1, <1>2 DEF Break, Mend
<1>3. ASSUME NEW s \in Derived, Holds(s) PROVE MqttInv'
  BY <1>1, <1>3 DEF Holds
<1>4. ASSUME StartPass \/ TickHolds \/ TickWrites \/ WriteLands \/ WriteFails \/ ReachFloor
      PROVE  MqttInv'
  BY <1>1, <1>4 DEF StartPass, TickHolds, TickWrites, WriteLands, WriteFails, ReachFloor
<1>5. ASSUME NEW v \in {"ok", "fault", "unlisted"}, StateChanges(v) PROVE MqttInv'
  BY <1>1, <1>5 DEF StateChanges
<1>6. CASE UNCHANGED vars
  BY <1>1, <1>6 DEF vars
<1> QED
  BY <1>2, <1>3, <1>4, <1>5, <1>6, ReadMqtt, ComesMqtt, EndsMqtt, DeriveMqtt, SecondMqtt DEF Next

\* For any points, shared resources and chains of derived channels, no sample
\* is published or cached older than its topic allows, although the cache
\* stamps samples when the forwarder (mqtt/subscriber.rs cache_sample) gets to
\* them and shared fetches (poller.rs) are read from later in the pass.
THEOREM NothingStale == Spec => []NothingStaleIsPublished
<1>1. Init => PollInv /\ MqttInv
  BY PollInit, MqttInit
<1>2. PollInv /\ MqttInv /\ [Next]_vars => (PollInv /\ MqttInv)'
  BY PollStep, MqttStep
<1>3. PollInv /\ MqttInv => NothingStaleIsPublished
  BY DEF MqttInv, AgeInv, Waited, NothingStaleIsPublished
<1> QED
  BY <1>1, <1>2, <1>3, PTL DEF Spec

-----------------------------------------------------------------------------
(* The reserve *)

\* The rack has been at its floor for no longer than a.
LowFor(a) == rack.low # None => rack.low <= a

\* A reading above the floor is at least as old as the rack has been at it,
\* wherever the reading is on its way.
SocArrived ==
    /\ cache[Soc] # None /\ cache[Soc].val = "ok" => LowFor(cache[Soc].age)
    /\ \A i \in DOMAIN stream : stream[i][Soc] # None /\ stream[i][Soc].val = "ok" =>
          LowFor(stream[i][Soc].age)

SocFetched ==
    \A r \in Resources : fetched[r] # None /\ fetched[r].reads[Soc] = "ok" =>
        LowFor(fetched[r].age)

SocInv == SocArrived /\ SocFetched

\* The longest the rack may have been at its floor when a tick gives it a share.
Unseen == StaleAfter + Delay + Oldest[Soc]

LEMMA UnseenIsNat == Unseen \in Nat
BY TelemetryAssumptions, DelayIsNat DEF Unseen, Topics

RackTypes ==
    /\ share \in BOOLEAN
    /\ landed \in BOOLEAN
    /\ writing \in [to: BOOLEAN, spent: 0..MaxWrite] \cup {None}

\* What has passed since the decision a share rests on: the writes it is in, or
\* the ones that gave it, up to the next tick and through that one's own.
ShareInv ==
    /\ writing # None =>
         /\ writing.to => LowFor(Unseen + writing.spent)
         /\ Rebalance \in ticked => writing.spent = 0
    /\ share /\ landed =>
         LowFor(Unseen + IF writing # None THEN MaxWrite + 1 + writing.spent
                         ELSE IF Rebalance \in ticked THEN 0 ELSE MaxWrite + 1)

RackInv == RackTypes /\ ShareInv

LEMMA ReserveInit == Init => SocInv /\ RackInv
<1> SUFFICES ASSUME Init PROVE SocInv /\ RackInv
  OBVIOUS
<1> USE TelemetryAssumptions DEF Init
<1>1. Soc \in Topics
  BY DEF Topics
<1>2. SocInv
  BY <1>1 DEF SocInv, SocArrived, SocFetched
<1>3. RackInv
  BY DEF RackInv, RackTypes, ShareInv
<1> QED
  BY <1>2, <1>3

\* A sample that tells the truth about the rack, or none of its, on its way.
LEMMA ArriveSoc ==
  ASSUME MqttTypes, SocInv, NEW t \in Topics, NEW age, NEW val,
         t = Soc /\ val = "ok" => LowFor(age),
         Arrive(t, age, val) \/ UNCHANGED mqttVars, UNCHANGED rack
  PROVE  SocArrived'
<1>1. CASE UNCHANGED mqttVars
  BY <1>1 DEF SocInv, SocArrived, LowFor, mqttVars
<1>2. CASE /\ cache' = [cache EXCEPT ![t] = [age |-> age, val |-> val, stamp |-> 0]]
           /\ UNCHANGED stream
  BY <1>2 DEF SocInv, SocArrived, LowFor, MqttTypes
<1>3. CASE /\ ~Free
           /\ stream' = [stream EXCEPT ![Len(stream)][t] = [age |-> age, val |-> val]]
           /\ UNCHANGED cache
  <2> DEFINE l == Len(stream)
             b == [stream[l] EXCEPT ![t] = [age |-> age, val |-> val]]
  <2>1. l \in DOMAIN stream /\ stream[l] \in Batches
    BY <1>3, StreamShape
  <2>2. stream' = [stream EXCEPT ![l] = b]
    BY <1>3
  <2>3. /\ b[t] = [age |-> age, val |-> val]
        /\ \A u \in Topics : u # t => b[u] = stream[l][u]
    BY <2>1 DEF Batches
  <2> HIDE DEF b, l
  <2>4. DOMAIN stream' = DOMAIN stream /\ \A i \in DOMAIN stream : stream'[i] = IF i = l THEN b ELSE stream[i]
    BY <2>1, <2>2
  <2>5. ASSUME NEW i \in DOMAIN stream, stream'[i][Soc] # None, stream'[i][Soc].val = "ok"
        PROVE  LowFor(stream'[i][Soc].age)
    <3>1. CASE i = l /\ t = Soc
      BY <2>3, <2>4, <2>5, <3>1
    <3>2. CASE ~(i = l /\ t = Soc)
      <4>1. stream'[i][Soc] = stream[i][Soc]
        BY <2>3, <2>4, <3>2, TelemetryAssumptions DEF Topics
      <4> QED
        BY <2>5, <4>1 DEF SocInv, SocArrived
    <3> QED
      BY <3>1, <3>2
  <2> QED
    BY <1>3, <2>4, <2>5 DEF SocInv, SocArrived, LowFor
<1> QED
  BY <1>1, <1>2, <1>3 DEF Arrive

\* Points read the rack as it is, or as it was when their resource was fetched.
LEMMA ReadSoc ==
  ASSUME PollInv, MqttInv, SocInv, NEW p \in Points,
         ReadAnswered(p) \/ ReadFails(p) \/ ReadShared(p)
  PROVE  SocInv'
<1> USE TelemetryAssumptions
<1>0. p \in Topics /\ Resource[p] \in Resources /\ MqttTypes /\ UNCHANGED rack
  BY DEF Topics, Resources, MqttInv, ReadAnswered, ReadFails, ReadShared, rackVars
<1>1. Reading(Soc) = "ok" => rack.low = None
  BY DEF Reading
<1>2. ASSUME NEW ok, fetched' = [fetched EXCEPT ![Resource[p]] =
                [ok |-> ok, age |-> 0, reads |-> [q \in Points |-> Reading(q)]]]
      PROVE  SocFetched'
  <2> SUFFICES ASSUME NEW r \in Resources, fetched'[r] # None, fetched'[r].reads[Soc] = "ok",
                      rack.low # None
               PROVE  rack.low <= fetched'[r].age
    BY <1>0 DEF LowFor, SocFetched
  <2>1. r # Resource[p]
    BY <1>1, <1>2 DEF PollInv, PollTypes
  <2> QED
    BY <1>2, <2>1 DEF PollInv, PollTypes, SocInv, SocFetched, LowFor
<1>3. CASE ReadAnswered(p)
  <2>1. Arrive(p, 0, Reading(p)) \/ UNCHANGED mqttVars
    BY <1>3 DEF ReadAnswered, Publish
  <2>2. p = Soc /\ Reading(p) = "ok" => LowFor(0)
    BY <1>1 DEF LowFor
  <2>3. SocArrived'
    BY <1>0, <2>1, <2>2, ArriveSoc
  <2>4. fetched' = [fetched EXCEPT ![Resource[p]] =
          [ok |-> TRUE, age |-> 0, reads |-> [q \in Points |-> Reading(q)]]]
    BY <1>3 DEF ReadAnswered
  <2> QED
    BY <1>2, <2>3, <2>4 DEF SocInv
<1>4. CASE ReadFails(p)
  <2>1. fetched' = [fetched EXCEPT ![Resource[p]] =
          [ok |-> FALSE, age |-> 0, reads |-> [q \in Points |-> Reading(q)]]]
    BY <1>4 DEF ReadFails
  <2>2. UNCHANGED <<cache, stream>>
    BY <1>4 DEF ReadFails, mqttVars
  <2> QED
    BY <1>0, <1>2, <2>1, <2>2 DEF SocInv, SocArrived, LowFor
<1>5. CASE ReadShared(p)
  <2>1. Arrive(p, Body(p).age, Body(p).reads[p]) \/ UNCHANGED mqttVars
    BY <1>5 DEF ReadShared, Publish
  <2>2. p = Soc /\ Body(p).reads[p] = "ok" => LowFor(Body(p).age)
    BY <1>0, <1>5 DEF ReadShared, SocInv, SocFetched, Body
  <2>3. SocArrived'
    BY <1>0, <2>1, <2>2, ArriveSoc
  <2>4. UNCHANGED fetched
    BY <1>5 DEF ReadShared
  <2> QED
    BY <1>0, <2>3, <2>4 DEF SocInv, SocFetched, LowFor
<1> QED
  BY <1>3, <1>4, <1>5

\* What waited behind a command is cached with the age it has.
LEMMA CommandSoc == ASSUME MqttInv, SocInv, CommandComes \/ CommandEnds PROVE SocInv'
<1> USE TelemetryAssumptions
<1>0. /\ Soc \in Topics /\ UNCHANGED <<rack, fetched>> /\ SocFetched'
      /\ stream \in Seq(Batches) /\ DOMAIN stream = 1..Len(stream) /\ Len(stream) \in Nat
  <2>1. UNCHANGED <<rack, fetched>>
    BY DEF CommandComes, CommandEnds, pollVars, rackVars
  <2>2. SocFetched'
    BY <2>1 DEF SocInv, SocFetched, LowFor
  <2> QED
    BY <2>1, <2>2, StreamShape DEF Topics, MqttInv, MqttTypes
<1>1. CASE CommandComes
  <2>1. stream' = Append(stream, NoSample) /\ UNCHANGED cache
    BY <1>1 DEF CommandComes
  <2>2. NoSample \in Batches /\ NoSample[Soc] = None
    BY <1>0 DEF NoSample, Batches
  <2> HIDE DEF NoSample
  <2>3. /\ Len(stream') = Len(stream) + 1
        /\ \A i \in 1..Len(stream) : stream'[i] = stream[i]
        /\ stream'[Len(stream) + 1] = NoSample
        /\ stream' \in Seq(Batches)
    BY <1>0, <2>1, <2>2, AppendProperties
  <2>4. DOMAIN stream' = 1..(Len(stream) + 1)
    BY <2>3
  <2> QED
    BY <1>0, <2>1, <2>2, <2>3, <2>4 DEF SocInv, SocArrived, LowFor
<1>2. CASE CommandEnds
  <2>1. /\ stream # <<>> /\ stream' = Tail(stream)
        /\ cache' = [t \in Topics |->
             IF stream[1][t] = None THEN cache[t]
             ELSE [age |-> stream[1][t].age, val |-> stream[1][t].val, stamp |-> 0]]
    BY <1>2 DEF CommandEnds, Free
  <2>2. /\ Len(stream') = Len(stream) - 1
        /\ \A i \in 1..Len(stream') : stream'[i] = stream[i + 1]
        /\ stream' \in Seq(Batches)
    BY <1>0, <2>1, HeadTailProperties
  <2>3. DOMAIN stream' = 1..(Len(stream) - 1) /\ 1 \in DOMAIN stream
    BY <1>0, <2>1, <2>2
  <2>4. \A i \in DOMAIN stream' : i + 1 \in DOMAIN stream /\ stream'[i] = stream[i + 1]
    BY <1>0, <2>2, <2>3
  <2>5. (cache[Soc] # None /\ cache[Soc].val = "ok" => LowFor(cache[Soc].age))'
    BY <1>0, <2>1, <2>3 DEF SocInv, SocArrived, LowFor
  <2> QED
    BY <1>0, <2>4, <2>5 DEF SocInv, SocArrived, LowFor
<1> QED
  BY <1>1, <1>2

\* A derived channel's topic is not the rack's.
LEMMA DeriveSoc ==
  ASSUME MqttInv, SocInv, NEW s \in Derived, Derive(s) \/ Holds(s)
  PROVE  SocInv'
<1> USE TelemetryAssumptions
<1>1. s \in Topics /\ s # Soc
  BY DEF Topics, Points
<1>2. UNCHANGED <<rack, fetched>>
  BY DEF Derive, Holds, pollVars, rackVars
<1>3. PICK age : Arrive(s, age, "ok") \/ UNCHANGED mqttVars
  BY DEF Derive, Holds, Publish
<1>4. SocArrived'
  BY <1>1, <1>2, <1>3, ArriveSoc DEF MqttInv
<1> QED
  BY <1>2, <1>4 DEF SocInv, SocFetched, LowFor

\* Ages and the time at the floor are counted up together, and up to the same bound.
LEMMA OlderTogether ==
  ASSUME NEW a \in Nat, NEW b \in Ages, a <= b
  PROVE  Older(a) <= Older(b) /\ Older(a) <= a + 1
BY TelemetryAssumptions DEF Older, Ages

LEMMA SecondSoc == ASSUME PollInv, MqttInv, SocInv, Second PROVE SocInv'
<1> USE TelemetryAssumptions
<1>0. /\ Soc \in Topics
      /\ rack' = [rack EXCEPT !.low = Older(@)]
      /\ fetched' = [r \in Resources |->
           IF fetched[r] = None THEN None ELSE [fetched[r] EXCEPT !.age = Older(@)]]
      /\ stream' = [i \in DOMAIN stream |-> [t \in Topics |->
           IF stream[i][t] = None THEN None ELSE [stream[i][t] EXCEPT !.age = Older(@)]]]
      /\ cache' = [t \in Topics |->
           IF cache[t] = None THEN None
           ELSE [cache[t] EXCEPT !.age = Older(@), !.stamp = Older(@)]]
  BY Zenon DEF Second, Topics
<1>1. rack \in [state: Vals, low: Nat \cup {None}]
  BY DEF PollInv, PollTypes
<1>2. rack'.low = Older(rack.low) /\ (rack.low = None => rack'.low = None)
  BY <1>0, <1>1 DEF Older
<1>3. ASSUME NEW b \in Ages, LowFor(b) PROVE LowFor(Older(b))'
  BY <1>1, <1>2, <1>3, OlderTogether DEF LowFor
<1>4. (cache[Soc] # None /\ cache[Soc].val = "ok" => LowFor(cache[Soc].age))'
  <2> SUFFICES ASSUME cache'[Soc] # None, cache'[Soc].val = "ok"
               PROVE  LowFor(cache[Soc].age)'
    OBVIOUS
  <2>1. cache[Soc] # None
    BY <1>0
  <2>2. cache[Soc] \in Entries
    BY <1>0, <2>1 DEF MqttInv, MqttTypes
  <2>3. cache'[Soc].val = cache[Soc].val /\ cache'[Soc].age = Older(cache[Soc].age)
    BY <1>0, <2>1, <2>2 DEF Entries
  <2>4. cache[Soc].age \in Ages
    BY <2>2 DEF Entries
  <2>5. LowFor(cache[Soc].age)
    BY <2>1, <2>3 DEF SocInv, SocArrived
  <2> QED
    BY <1>3, <2>3, <2>4, <2>5 DEF LowFor
<1>5. ASSUME NEW i \in DOMAIN stream, stream'[i][Soc] # None, stream'[i][Soc].val = "ok"
      PROVE  LowFor(stream[i][Soc].age)'
  <2>1. stream[i][Soc] # None
    BY <1>0, <1>5
  <2>2. stream[i][Soc] \in Samples
    BY <1>0, <2>1, StreamShape DEF MqttInv, Batches
  <2>3. stream'[i][Soc].val = stream[i][Soc].val /\ stream'[i][Soc].age = Older(stream[i][Soc].age)
    BY <1>0, <2>1, <2>2 DEF Samples
  <2>4. stream[i][Soc].age \in Ages
    BY <2>2 DEF Samples
  <2>5. LowFor(stream[i][Soc].age)
    BY <1>5, <2>1, <2>3 DEF SocInv, SocArrived
  <2> QED
    BY <1>3, <2>3, <2>4, <2>5 DEF LowFor
<1>6. ASSUME NEW r \in Resources, fetched'[r] # None, fetched'[r].reads[Soc] = "ok"
      PROVE  LowFor(fetched[r].age)'
  <2>1. fetched[r] # None
    BY <1>0, <1>6
  <2>2. fetched[r] \in Bodies
    BY <2>1 DEF PollInv, PollTypes
  <2>3. fetched'[r].reads = fetched[r].reads /\ fetched'[r].age = Older(fetched[r].age)
    BY <1>0, <2>1, <2>2 DEF Bodies
  <2>4. fetched[r].age \in Ages
    BY <2>2 DEF Bodies
  <2>5. LowFor(fetched[r].age)
    BY <1>6, <2>1, <2>3 DEF SocInv, SocFetched
  <2> QED
    BY <1>3, <2>3, <2>4, <2>5 DEF LowFor
<1> QED
  <2>1. DOMAIN stream' = DOMAIN stream
    BY <1>0
  <2> QED
    BY <1>4, <1>5, <1>6, <2>1 DEF SocInv, SocArrived, SocFetched

LEMMA SocStep == PollInv /\ MqttInv /\ SocInv /\ [Next]_vars => SocInv'
<1> SUFFICES ASSUME PollInv, MqttInv, SocInv, [Next]_vars PROVE SocInv'
  OBVIOUS
<1> USE TelemetryAssumptions
<1>1. UNCHANGED <<cache, stream, fetched, rack>> => SocInv'
  BY DEF SocInv, SocArrived, SocFetched, LowFor
<1>2. CASE StartPass
  BY <1>2 DEF StartPass, SocInv, SocArrived, SocFetched, LowFor, mqttVars, rackVars
<1>3. ASSUME NEW r \in Resources, Break(r) \/ Mend(r) PROVE SocInv'
  BY <1>1, <1>3 DEF Break, Mend, mqttVars, rackVars
<1>4. CASE TickHolds \/ TickWrites \/ WriteLands \/ WriteFails
  BY <1>1, <1>4 DEF TickHolds, TickWrites, WriteLands, WriteFails, pollVars, mqttVars
<1>5. CASE ReachFloor
  <2>1. rack'.low = 0 /\ UNCHANGED <<cache, stream, fetched>>
    BY <1>5 DEF ReachFloor, pollVars, mqttVars, PollInv, PollTypes
  <2>2. Soc \in Topics
    BY DEF Topics
  <2>3. /\ cache[Soc] # None => cache[Soc].age \in Ages
        /\ \A i \in DOMAIN stream : stream[i][Soc] # None => stream[i][Soc].age \in Ages
        /\ \A r \in Resources : fetched[r] # None => fetched[r].age \in Ages
    <3>1. cache[Soc] # None => cache[Soc].age \in Ages
      BY <2>2 DEF MqttInv, MqttTypes, Entries
    <3>2. \A i \in DOMAIN stream : stream[i][Soc] # None => stream[i][Soc].age \in Ages
      BY <2>2, StreamShape DEF MqttInv, Batches, Samples
    <3>3. \A r \in Resources : fetched[r] # None => fetched[r].age \in Ages
      BY DEF PollInv, PollTypes, Bodies
    <3> QED
      BY <3>1, <3>2, <3>3
  <2> QED
    BY <2>1, <2>3 DEF SocInv, SocArrived, SocFetched, LowFor, Ages
<1>6. ASSUME NEW v \in {"ok", "fault", "unlisted"}, StateChanges(v) PROVE SocInv'
  <2>1. rack'.low = rack.low /\ UNCHANGED <<cache, stream, fetched>>
    BY <1>6 DEF StateChanges, pollVars, mqttVars, PollInv, PollTypes
  <2> QED
    BY <2>1 DEF SocInv, SocArrived, SocFetched, LowFor
<1>7. CASE UNCHANGED vars
  BY <1>1, <1>7 DEF vars, pollVars, mqttVars, rackVars
<1> QED
  BY <1>2, <1>3, <1>4, <1>5, <1>6, <1>7, ReadSoc, CommandSoc, DeriveSoc, SecondSoc DEF Next

\* A tick that gives a share rests on a reading no older than Unseen.
LEMMA WritesRack ==
  ASSUME PollInv, MqttInv, SocInv, RackInv, TickWrites
  PROVE  RackInv'
<1> USE TelemetryAssumptions
<1> DEFINE given == Usable
<1>1. /\ Rebalance \notin ticked /\ writing = None
      /\ ticked' = ticked \cup {Rebalance}
      /\ writing' = [to |-> given, spent |-> 0]
      /\ UNCHANGED <<rack, share, landed>>
  BY DEF TickWrites, BeginsTick
<1>2. given \in BOOLEAN
  BY DEF Usable
<1>3. given => LowFor(Unseen)
  <2> SUFFICES ASSUME Usable PROVE LowFor(Unseen)
    OBVIOUS
  <2>1. Soc \in Topics /\ cache[Soc] # None
    BY DEF Topics, TickWrites, Unresolved, Known
  <2>2. cache[Soc] \in Entries
    BY <2>1 DEF MqttInv, MqttTypes
  <2>3. cache[Soc].val = "ok" /\ ~(cache[Soc].stamp > StaleAfter)
    BY DEF Usable, Quiet
  <2>4. LowFor(cache[Soc].age) /\ cache[Soc].age <= Oldest[Soc] + Delay + cache[Soc].stamp
    BY <2>1, <2>3 DEF SocInv, SocArrived, MqttInv, AgeInv
  <2>5. cache[Soc].age \in Nat /\ cache[Soc].stamp \in Nat /\ Oldest[Soc] \in Nat
    BY <2>1, <2>2 DEF Entries, Ages
  <2>6. rack.low \in Nat \cup {None}
    BY DEF PollInv, PollTypes
  <2> QED
    BY <2>3, <2>4, <2>5, <2>6, DelayIsNat DEF LowFor, Unseen
<1> HIDE DEF given
<1>4. /\ writing' \in [to: BOOLEAN, spent: 0..MaxWrite]
      /\ writing' # None
      /\ writing'.to = given
      /\ writing'.spent = 0
  BY <1>1, <1>2
<1>5. RackTypes'
  BY <1>1, <1>4 DEF RackInv, RackTypes
<1>6. Unseen \in Nat /\ (writing'.to => LowFor(Unseen + 0))
  <2>1. Unseen \in Nat
    BY UnseenIsNat
  <2>2. Unseen + 0 = Unseen
    BY <2>1
  <2> QED
    BY <1>3, <1>4, <2>1, <2>2
<1>7. share /\ landed => LowFor(Unseen + (MaxWrite + 1))
  BY <1>1 DEF RackInv, ShareInv
<1>8. MaxWrite + 1 = MaxWrite + 1 + 0
  OBVIOUS
<1>9. ShareInv'
  BY <1>1, <1>4, <1>6, <1>7, <1>8 DEF ShareInv, LowFor, Unseen
<1> QED
  BY <1>5, <1>9 DEF RackInv

\* A write that lands in the second of its tick rests on what that tick saw.
LEMMA LandsRack == ASSUME PollInv, RackInv, WriteLands PROVE RackInv'
<1> USE TelemetryAssumptions
<1>1. /\ writing \in [to: BOOLEAN, spent: 0..MaxWrite] /\ writing # None
      /\ share' = writing.to /\ writing' = None /\ landed' = TRUE
      /\ UNCHANGED <<rack, ticked>>
  BY DEF WriteLands, RackInv, RackTypes
<1>2. RackTypes'
  BY <1>1 DEF RackTypes
<1>3. /\ writing.spent \in 0..MaxWrite /\ Unseen \in Nat /\ rack.low \in Nat \cup {None}
      /\ Rebalance \in ticked => writing.spent = 0
  BY <1>1, UnseenIsNat DEF RackInv, ShareInv, PollInv, PollTypes
<1>4. share' => LowFor(Unseen + writing.spent)
  BY <1>1 DEF RackInv, ShareInv
<1>5. share' => LowFor(Unseen + IF Rebalance \in ticked THEN 0 ELSE MaxWrite + 1)
  BY <1>3, <1>4 DEF LowFor
<1>6. ShareInv'
  BY <1>1, <1>5 DEF ShareInv, LowFor, Unseen
<1> QED
  BY <1>2, <1>6 DEF RackInv

\* A second: only a task held up by its writes has not ticked in the one before.
LEMMA SecondRack == ASSUME PollInv, RackInv, Second PROVE RackInv'
<1> USE TelemetryAssumptions
<1>1. /\ Settled
      /\ rack' = [rack EXCEPT !.low = Older(@)]
      /\ ticked' = {}
      /\ writing' = IF writing = None THEN None ELSE [writing EXCEPT !.spent = @ + 1]
      /\ UNCHANGED <<share, landed>>
  BY Zenon DEF Second
<1>2. Unseen \in Nat /\ rack \in [state: Vals, low: Nat \cup {None}]
  BY UnseenIsNat DEF PollInv, PollTypes
<1>3. ASSUME NEW a \in Nat, LowFor(a) PROVE rack'.low # None => rack'.low <= a + 1
  BY <1>1, <1>2, <1>3 DEF LowFor, Older
<1>4. CASE writing = None
  <2>1. Rebalance \in ticked /\ writing' = None
    BY <1>1, <1>4 DEF Settled, Ticking
  <2>2. share /\ landed => LowFor(Unseen + 0)
    BY <1>4, <2>1 DEF RackInv, ShareInv
  <2>3. share /\ landed /\ rack'.low # None => rack'.low <= Unseen + 0 + 1
    BY <1>2, <1>3, <2>2
  <2>4. share /\ landed => LowFor(Unseen + (MaxWrite + 1))'
    <3>1. rack'.low # None => rack'.low \in Nat
      BY <1>1, <1>2 DEF Older
    <3> QED
      BY <1>2, <2>3, <3>1 DEF LowFor, Unseen
  <2> QED
    BY <1>1, <2>1, <2>4 DEF RackInv, RackTypes, ShareInv
<1>5. CASE writing # None
  <2>1. writing \in [to: BOOLEAN, spent: 0..MaxWrite] /\ writing.spent < MaxWrite
    BY <1>1, <1>5 DEF RackInv, RackTypes, Settled
  <2>2. /\ writing' \in [to: BOOLEAN, spent: 0..MaxWrite]
        /\ writing'.to = writing.to
        /\ writing'.spent = writing.spent + 1
        /\ writing.spent \in Nat
    BY <1>1, <1>5, <2>1
  <2>3. writing' # None
    BY <2>2
  <2>4. writing.to => LowFor(Unseen + writing.spent)
    BY <1>5 DEF RackInv, ShareInv
  <2>5. writing'.to => LowFor(Unseen + writing.spent)'
    <3>1. Unseen + writing.spent \in Nat
      BY <1>2, <2>2
    <3>2. writing.to /\ rack'.low # None => rack'.low <= Unseen + writing.spent + 1
      BY <1>3, <2>4, <3>1
    <3>3. Unseen + writing.spent + 1 = Unseen + (writing.spent + 1)
      BY <1>2, <2>2
    <3> QED
      BY <2>2, <3>2, <3>3 DEF LowFor, Unseen
  <2>6. share /\ landed => LowFor(Unseen + (MaxWrite + 1 + writing.spent))
    BY <1>5 DEF RackInv, ShareInv
  <2>7. share' /\ landed' => LowFor(Unseen + (MaxWrite + 1 + writing.spent))'
    <3>1. Unseen + (MaxWrite + 1 + writing.spent) \in Nat
      BY <1>2, <2>2
    <3>2. share /\ landed /\ rack'.low # None =>
            rack'.low <= Unseen + (MaxWrite + 1 + writing.spent) + 1
      BY <1>3, <2>6, <3>1
    <3>3. Unseen + (MaxWrite + 1 + writing.spent) + 1 = Unseen + (MaxWrite + 1 + (writing.spent + 1))
      BY <1>2, <2>2
    <3> QED
      BY <1>1, <2>2, <3>2, <3>3 DEF LowFor, Unseen
  <2>8. RackTypes'
    BY <1>1, <2>2 DEF RackInv, RackTypes
  <2> QED
    BY <1>1, <2>3, <2>5, <2>7, <2>8 DEF RackInv, ShareInv
<1> QED
  BY <1>4, <1>5

LEMMA RackStep == PollInv /\ MqttInv /\ SocInv /\ RackInv /\ [Next]_vars => RackInv'
<1> SUFFICES ASSUME PollInv, MqttInv, SocInv, RackInv, [Next]_vars PROVE RackInv'
  OBVIOUS
<1> USE TelemetryAssumptions
<1>1. UNCHANGED <<rackVars, ticked>> => RackInv'
  BY DEF RackInv, RackTypes, ShareInv, LowFor, Unseen, rackVars
<1>2. ASSUME NEW p \in Points, ReadAnswered(p) \/ ReadFails(p) \/ ReadShared(p) PROVE RackInv'
  BY <1>1, <1>2 DEF ReadAnswered, ReadFails, ReadShared
<1>3. ASSUME NEW r \in Resources, Break(r) \/ Mend(r) PROVE RackInv'
  BY <1>1, <1>3 DEF Break, Mend
<1>4. CASE StartPass \/ CommandComes \/ CommandEnds
  BY <1>1, <1>4 DEF StartPass, CommandComes, CommandEnds
<1>5. ASSUME NEW s \in Derived, Derive(s) \/ Holds(s) PROVE RackInv'
  <2>1. UNCHANGED rackVars /\ ticked' = ticked \cup {s} /\ s # Rebalance
    BY <1>5 DEF Derive, Holds, Rebalance
  <2> QED
    BY <2>1 DEF RackInv, RackTypes, ShareInv, LowFor, Unseen, rackVars
<1>6. CASE TickHolds
  BY <1>6 DEF TickHolds, BeginsTick, RackInv, RackTypes, ShareInv
<1>7. CASE WriteFails
  BY <1>7 DEF WriteFails, RackInv, RackTypes, ShareInv
<1>8. CASE ReachFloor
  <2>1. rack'.low = 0 /\ UNCHANGED <<share, writing, landed, ticked>>
    BY <1>8 DEF ReachFloor, PollInv, PollTypes
  <2>2. Unseen \in Nat
    BY UnseenIsNat
  <2> QED
    BY <2>1, <2>2 DEF RackInv, RackTypes, ShareInv, LowFor, Unseen
<1>9. ASSUME NEW v \in {"ok", "fault", "unlisted"}, StateChanges(v) PROVE RackInv'
  <2>1. rack'.low = rack.low /\ UNCHANGED <<share, writing, landed, ticked>>
    BY <1>9 DEF StateChanges, PollInv, PollTypes
  <2> QED
    BY <2>1 DEF RackInv, RackTypes, ShareInv, LowFor, Unseen
<1>10. CASE UNCHANGED vars
  BY <1>1, <1>10 DEF vars
<1> QED
  BY <1>2, <1>3, <1>4, <1>5, <1>6, <1>7, <1>8, <1>9, <1>10, WritesRack, LandsRack, SecondRack
  DEF Next

\* distribute.rs, rack_limits.rs: a rack is not discharged below its reserve
\* floor for longer than a silence goes unnoticed, the commands queued ahead of
\* its reading hold the forwarder up (mqtt/subscriber.rs), the reading may be
\* old, and two rounds of writes take, as long as the rebalance task's last tick
\* could compute and land its writes.
THEOREM ReserveIsKept == Spec => []ReserveKept
<1>1. Init => PollInv /\ MqttInv /\ SocInv /\ RackInv
  BY PollInit, MqttInit, ReserveInit
<1>2. PollInv /\ MqttInv /\ SocInv /\ RackInv /\ [Next]_vars
        => (PollInv /\ MqttInv /\ SocInv /\ RackInv)'
  BY PollStep, MqttStep, SocStep, RackStep
<1>3. PollInv /\ RackInv => ReserveKept
  <2> SUFFICES ASSUME PollInv, RackInv, share, landed, rack.low # None
               PROVE  rack.low <= Overshoot
    BY DEF ReserveKept
  <2> USE TelemetryAssumptions
  <2>1. Unseen \in Nat /\ rack.low \in Nat /\ Overshoot = Unseen + (MaxWrite + 1 + MaxWrite)
    BY UnseenIsNat, DelayIsNat DEF Unseen, Overshoot, Topics, PollInv, PollTypes
  <2>2. writing # None => writing.spent \in 0..MaxWrite
    BY DEF RackInv, RackTypes
  <2>3. LowFor(Unseen + IF writing # None THEN MaxWrite + 1 + writing.spent
                        ELSE IF Rebalance \in ticked THEN 0 ELSE MaxWrite + 1)
    BY DEF RackInv, ShareInv
  <2> QED
    BY <2>1, <2>2, <2>3 DEF LowFor
<1> QED
  BY <1>1, <1>2, <1>3, PTL DEF Spec

=============================================================================
