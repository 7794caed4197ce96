--------------------------- MODULE RestrictionProofs ---------------------------
(***************************************************************************)
(* What is restricted stays restricted.  The locked set never stays behind *)
(* device-api's lockouts unnoticed (Lockouts), no GPU is left above its    *)
(* operator's cap by the controller that sheds compute (Shed), and no tick *)
(* of an envelope takes the POI further past a limit than its meter was    *)
(* wrong (Envelope), for every set of devices, every site and rating and   *)
(* every number of changes, commands, outages and failures.                *)
(***************************************************************************)
EXTENDS Lockouts, Shed, Envelope, SequenceTheorems, TLAPS

-----------------------------------------------------------------------------
(* Lockouts *)

\* A set that is behind, and an answer that waits to be applied.
IInv == TypeOK /\ StaleIsTemporary /\ AnswerIsCurrent

\* At boot everything has its type ...
LEMMA InitType == Init => TypeOK
<1>1. Init => FlagsOK
  BY DEF Init, FlagsOK
<1>2. Init => CountersOK
  BY LockoutAssumptions DEF Init, CountersOK
<1> QED BY <1>1, <1>2 DEF Init, TypeOK

\* ... and every step keeps the flags',
LEMMA FlagsStep == FlagsOK /\ [Next]_vars => FlagsOK'
<1> SUFFICES ASSUME FlagsOK, [Next]_vars PROVE FlagsOK'
  OBVIOUS
<1> USE DEF FlagsOK, apiVars, bootVars, taskVars, faultVars
<1>1. ASSUME NEW set \in LockSets, ChangeLocks(set) PROVE FlagsOK'
  BY <1>1 DEF ChangeLocks
<1>2. CASE Rebeacon \/ Deliver \/ PublishUnheard
  BY <1>2 DEF Rebeacon, Deliver, PublishUnheard
<1>3. CASE LoseBeacon \/ Overrun
  BY <1>3 DEF LoseBeacon, Overrun
<1>4. CASE Disconnect \/ Reconnect
  BY <1>4 DEF Disconnect, Reconnect
<1>5. CASE BootFetch \/ Subscribe \/ Nudge \/ BootFails
  BY <1>5 DEF BootFetch, Subscribe, Nudge, BootFails
<1>6. CASE Restart
  BY <1>6 DEF Restart
<1>7. CASE Forward \/ Wake
  BY <1>7 DEF Forward, Wake
<1>8. CASE FetchAnswers \/ FetchFails \/ Apply
  BY <1>8 DEF FetchAnswers, FetchFails, Apply
<1>9. CASE UNCHANGED vars
  BY <1>9 DEF vars
<1> QED
  BY <1>1, <1>2, <1>3, <1>4, <1>5, <1>6, <1>7, <1>8, <1>9 DEF Next

\* the counters' (no bound is overrun),
LEMMA CountersStep == CountersOK /\ [Next]_vars => CountersOK'
<1> SUFFICES ASSUME CountersOK, [Next]_vars PROVE CountersOK'
  OBVIOUS
<1> USE LockoutAssumptions DEF CountersOK, apiVars, bootVars, taskVars, faultVars
<1>1. ASSUME NEW set \in LockSets, ChangeLocks(set) PROVE CountersOK'
  BY <1>1 DEF ChangeLocks
<1>2. CASE Rebeacon \/ Deliver \/ PublishUnheard
  BY <1>2 DEF Rebeacon, Deliver, PublishUnheard
<1>3. CASE LoseBeacon \/ Overrun
  BY <1>3 DEF LoseBeacon, Overrun
<1>4. CASE Disconnect \/ Reconnect
  BY <1>4 DEF Disconnect, Reconnect
<1>5. CASE BootFetch \/ Subscribe \/ Nudge \/ BootFails
  BY <1>5 DEF BootFetch, Subscribe, Nudge, BootFails
<1>6. CASE Restart
  BY <1>6 DEF Restart
<1>7. CASE Forward \/ Wake
  BY <1>7 DEF Forward, Wake
<1>8. CASE FetchAnswers \/ FetchFails \/ Apply
  BY <1>8 DEF FetchAnswers, FetchFails, Apply
<1>9. CASE UNCHANGED vars
  BY <1>9 DEF vars
<1> QED
  BY <1>1, <1>2, <1>3, <1>4, <1>5, <1>6, <1>7, <1>8, <1>9 DEF Next

\* and the sets'.
LEMMA NextType == TypeOK /\ [Next]_vars => TypeOK'
<1> SUFFICES ASSUME TypeOK, [Next]_vars PROVE TypeOK'
  OBVIOUS
<1> USE LockoutAssumptions, FlagsStep, CountersStep DEF TypeOK, apiVars, bootVars, taskVars, faultVars
<1>1. ASSUME NEW set \in LockSets, ChangeLocks(set) PROVE TypeOK'
  BY <1>1 DEF ChangeLocks
<1>2. CASE Rebeacon \/ Deliver \/ PublishUnheard
  BY <1>2 DEF Rebeacon, Deliver, PublishUnheard
<1>3. CASE LoseBeacon \/ Overrun
  BY <1>3 DEF LoseBeacon, Overrun
<1>4. CASE Disconnect \/ Reconnect
  BY <1>4 DEF Disconnect, Reconnect
<1>5. CASE BootFetch \/ Subscribe \/ Nudge \/ BootFails
  BY <1>5 DEF BootFetch, Subscribe, Nudge, BootFails
<1>6. CASE Restart
  BY <1>6 DEF Restart
<1>7. CASE Forward \/ Wake
  BY <1>7 DEF Forward, Wake
<1>8. CASE FetchAnswers \/ FetchFails \/ Apply
  BY <1>8 DEF FetchAnswers, FetchFails, Apply
<1>9. CASE UNCHANGED vars
  BY <1>9 DEF vars
<1> QED
  BY <1>1, <1>2, <1>3, <1>4, <1>5, <1>6, <1>7, <1>8, <1>9 DEF Next

\* Every step keeps a stale locked set on its way to being corrected.
LEMMA StaleStep == IInv /\ [Next]_vars => StaleIsTemporary' /\ AnswerIsCurrent'
<1> SUFFICES ASSUME IInv, [Next]_vars PROVE StaleIsTemporary' /\ AnswerIsCurrent'
  OBVIOUS
<1> USE DEF IInv, TypeOK, FlagsOK, CountersOK, StaleIsTemporary, AnswerIsCurrent, Coming,
            apiVars, bootVars, taskVars, faultVars
<1>1. ASSUME NEW set \in LockSets, ChangeLocks(set)
      PROVE  StaleIsTemporary' /\ AnswerIsCurrent'
  BY <1>1 DEF ChangeLocks
<1>2. CASE Rebeacon
  BY <1>2 DEF Rebeacon
<1>3. CASE Deliver
  BY <1>3, LockoutAssumptions DEF Deliver
<1>4. CASE PublishUnheard
  BY <1>4 DEF PublishUnheard
<1>5. CASE LoseBeacon \/ Overrun
  BY <1>5 DEF LoseBeacon, Overrun
<1>6. CASE Disconnect \/ Reconnect
  BY <1>6 DEF Disconnect, Reconnect
<1>7. CASE BootFetch \/ Subscribe \/ BootFails
  BY <1>7 DEF BootFetch, Subscribe, BootFails
<1>8. CASE Nudge
  BY <1>8 DEF Nudge
<1>9. CASE Restart
  BY <1>9 DEF Restart
<1>10. CASE Forward
  BY <1>10 DEF Forward
<1>11. CASE Wake
  BY <1>11 DEF Wake
<1>12. CASE FetchAnswers \/ FetchFails
  BY <1>12 DEF FetchAnswers, FetchFails
<1>13. CASE Apply
  BY <1>13 DEF Apply
<1>14. CASE UNCHANGED vars
  BY <1>14 DEF vars
<1> QED
  BY <1>1, <1>2, <1>3, <1>4, <1>5, <1>6, <1>7, <1>8, <1>9, <1>10, <1>11, <1>12,
     <1>13, <1>14 DEF Next

\* An out-of-date locked set is always about to be corrected, unless a beacon
\* was lost or a fetch given up: the boot fetch, the gateway's own first
\* beacon and the re-fetch after each beacon leave no other gap.
THEOREM StaleSetsAreCorrected == Spec => []StaleIsTemporary
<1>1. Init => IInv
  <2>1. Init => StaleIsTemporary /\ AnswerIsCurrent
    BY DEF Init, StaleIsTemporary, AnswerIsCurrent, Coming
  <2> QED BY <2>1, InitType DEF IInv
<1>2. IInv /\ [Next]_vars => IInv'
  BY NextType, StaleStep DEF IInv
<1>3. IInv => StaleIsTemporary
  BY DEF IInv
<1> QED BY <1>1, <1>2, <1>3, PTL DEF Spec

-----------------------------------------------------------------------------
(* Operators' caps *)

\* Types, and that a command writes a cap it has recorded.
ShedTypes ==
    /\ caps \in [Gpus -> Int]
    /\ percent \in (MinCap..MaxCap) \cup {None}
    /\ requested \in OperatorCaps \cup {None}
    /\ shedTask \in {"idle", "write"}
    /\ todo \subseteq Gpus
    /\ order \in Orders \cup {None}
    /\ order # None => requested # None

\* What a batch writes is under the operator's cap, unless a command met it.
WantInv ==
    shedTask = "write" =>
        /\ target \in MinCap..MaxCap
        /\ want \in Int
        /\ CapAt(want) <= MaxCap
        /\ crossed \/ (order = None /\ CapAt(want) <= OperatorCap)

\* The cap a request means.
CapOf(r) == IF r = None THEN MaxCap ELSE CapAt(r)

\* What a command has written is under its cap, and the rest under the one
\* before, which a failure puts back; it has written all, or failed.
OrderInv ==
    /\ \A g \in order.given : caps[g] <= CapOf(requested)
    /\ \A g \in (Gpus \ order.given) \ strays : caps[g] <= CapOf(order.previous)
    /\ order.failed \/ order.todo \cup order.given = Gpus

\* Between commands each GPU is under the operator's cap, but for the strays.
CapInv ==
    /\ \A g \in Gpus : caps[g] <= MaxCap
    /\ \/ skipped \/ crossed
       \/ IF order = None THEN \A g \in Gpus \ strays : caps[g] <= CapOf(requested)
          ELSE OrderInv

ShedInv == ShedTypes /\ WantInv /\ CapInv

\* Caps are numbers in the GPU's range.
LEMMA CapTypes ==
  ASSUME ShedConstants
  PROVE  /\ MinCap \in Nat /\ MaxCap \in Nat /\ MinCap < MaxCap /\ None \notin Int
         /\ OperatorCaps \subseteq Int
         /\ \A level \in OperatorCaps : level \in Int /\ CapAt(level) \in Int
                                        /\ CapAt(level) <= MaxCap
BY DEF ShedConstants, CapAt, AtLeast

\* A command under way is not the absence of one.
LEMMA OrdersAreNotNone == ASSUME ShedConstants PROVE None \notin Orders
BY DEF ShedConstants

\* Steps that leave the caps and what decides them alone.
LEMMA ShedStutter ==
  ASSUME ShedInv,
         UNCHANGED <<caps, percent, requested, shedTask, target, want, order, strays, skipped, crossed>>,
         todo' \subseteq todo
  PROVE  ShedInv'
<1>1. ShedTypes'
  BY DEF ShedInv, ShedTypes
<1>2. WantInv'
  BY DEF ShedInv, WantInv, CapAt, AtLeast, OperatorCap
<1>3. CapInv'
  BY DEF ShedInv, CapInv, OrderInv, CapOf, CapAt, AtLeast
<1> QED
  BY <1>1, <1>2, <1>3 DEF ShedInv

\* A tick's level is capped by the operator's ...
LEMMA TickWritesStep ==
  ASSUME ShedConstants, ShedInv, TickWrites
  PROVE  ShedInv'
<1>1. PICK next \in (Current - Ramp)..(Current + Ramp) : target' = Clamped(next)
  BY DEF TickWrites
<1>2. /\ UNCHANGED <<caps, percent, requested, order, strays>>
      /\ want' = Capped(target')
      /\ todo' = Gpus \ lockedGpus
      /\ shedTask' = "write"
      /\ skipped' = (skipped \/ lockedGpus # {})
      /\ crossed' = (crossed \/ order # None)
  BY DEF TickWrites, baseVars, operatorVars
<1>3. /\ MinCap \in Nat /\ MaxCap \in Nat /\ MinCap < MaxCap /\ None \notin Int
      /\ Ramp \in Nat /\ OperatorCaps \subseteq 0..MaxCap
  BY DEF ShedConstants
<1>4. next \in Int
  BY <1>1, <1>3
<1>5. target' \in Int /\ MinCap <= target' /\ target' <= MaxCap
  BY <1>1, <1>3, <1>4 DEF Clamped, AtMost, AtLeast
<1>6. requested = None \/ (requested \in Int /\ 0 <= requested /\ requested <= MaxCap)
  BY <1>3 DEF ShedInv, ShedTypes
<1>7. /\ want' \in Int
      /\ CapAt(want') <= MaxCap
      /\ CapAt(want') <= OperatorCap
  <2>1. CASE requested = None
    <3>1. want' = target' /\ OperatorCap = MaxCap
      BY <1>2, <2>1 DEF Capped, OperatorCap
    <3> QED
      BY <1>3, <1>5, <3>1 DEF CapAt, AtLeast
  <2>2. CASE requested # None
    <3>1. want' = AtMost(target', requested) /\ OperatorCap = CapAt(requested)
      BY <1>2, <2>2 DEF Capped, OperatorCap
    <3>2. want' \in Int /\ want' <= target' /\ want' <= requested
      BY <1>5, <1>6, <2>2, <3>1 DEF AtMost
    <3> QED
      BY <1>3, <1>5, <1>6, <2>2, <3>1, <3>2 DEF CapAt, AtLeast
  <2> QED
    BY <2>1, <2>2
<1>8. OperatorCap' = OperatorCap
  BY <1>2 DEF OperatorCap, CapAt, AtLeast
<1>9. ShedTypes'
  BY <1>2 DEF ShedInv, ShedTypes
<1>10. WantInv'
  <2>1. crossed' \/ order' = None
    BY <1>2
  <2>2. CapAt(want)' = CapAt(want')
    BY DEF CapAt, AtLeast
  <2> QED
    BY <1>3, <1>5, <1>7, <1>8, <2>1, <2>2 DEF WantInv
<1>11. CapInv'
  BY <1>2 DEF ShedInv, CapInv, OrderInv, CapOf, CapAt, AtLeast
<1> QED
  BY <1>9, <1>10, <1>11 DEF ShedInv

\* ... and so is each write of it, landed or reported as failed.
LEMMA WriteCapStep ==
  ASSUME ShedConstants, ShedInv, NEW g \in Gpus, shedTask = "write",
         caps' = [caps EXCEPT ![g] = CapAt(want)],
         strays' \in {strays, strays \ {g}}, todo' = todo \ {g},
         UNCHANGED <<percent, requested, shedTask, target, want, order, skipped, crossed>>
  PROVE  ShedInv'
<1>2. /\ want \in Int /\ CapAt(want) <= MaxCap
      /\ crossed \/ (order = None /\ CapAt(want) <= OperatorCap)
  BY DEF ShedInv, WantInv
<1>3. CapAt(want) \in Int
  BY <1>2, CapTypes DEF CapAt, AtLeast
<1>4. /\ OperatorCap' = OperatorCap /\ CapAt(want)' = CapAt(want)
      /\ CapOf(requested)' = CapOf(requested) /\ OperatorCap = CapOf(requested)
  BY DEF OperatorCap, CapOf, CapAt, AtLeast
<1>5. ShedTypes' /\ WantInv'
  BY <1>3, <1>4 DEF ShedInv, ShedTypes, WantInv
<1>6. \A h \in Gpus : caps'[h] = IF h = g THEN CapAt(want) ELSE caps[h]
  BY DEF ShedInv, ShedTypes
<1>7. \A h \in Gpus : caps'[h] <= MaxCap
  BY <1>2, <1>6 DEF ShedInv, CapInv
<1>8. skipped \/ crossed \/ \A h \in Gpus \ strays' : caps'[h] <= CapOf(requested)
  <2> SUFFICES ASSUME ~skipped, ~crossed, NEW h \in Gpus \ strays'
               PROVE  caps'[h] <= CapOf(requested)
    OBVIOUS
  <2>1. h # g => caps[h] <= CapOf(requested)
    BY <1>2 DEF ShedInv, CapInv
  <2> QED
    BY <1>2, <1>4, <1>6, <2>1
<1>9. skipped \/ crossed \/ order = None
  BY <1>2
<1>10. CapInv'
  BY <1>4, <1>7, <1>8, <1>9 DEF CapInv
<1> QED
  BY <1>5, <1>10 DEF ShedInv

\* A level is confirmed inside the range.
LEMMA WriteEndsStep ==
  ASSUME ShedConstants, ShedInv, WriteEnds
  PROVE  ShedInv'
<1>1. /\ shedTask = "write"
      /\ percent' \in {percent, target}
      /\ shedTask' = "idle"
      /\ UNCHANGED <<caps, requested, order, todo, strays, skipped, crossed>>
  BY DEF WriteEnds, operatorVars
<1>2. ShedTypes' /\ WantInv'
  BY <1>1 DEF ShedInv, ShedTypes, WantInv
<1>3. CapInv'
  BY <1>1 DEF ShedInv, CapInv, OrderInv, CapOf, CapAt, AtLeast
<1> QED
  BY <1>2, <1>3 DEF ShedInv

\* A command records its cap and has every GPU to write, or skips one.
LEMMA OperateStep ==
  ASSUME ShedConstants, ShedInv, NEW level \in OperatorCaps, Operate(level)
  PROVE  ShedInv'
<1>1. /\ order = None
      /\ requested' = level
      /\ order' = [previous |-> requested, todo |-> Gpus \ lockedGpus, given |-> {}, failed |-> FALSE]
      /\ skipped' = (skipped \/ lockedGpus # {})
      /\ crossed' = (crossed \/ shedTask = "write" \/ Current # MaxCap)
      /\ UNCHANGED <<caps, percent, shedTask, target, want, todo, strays>>
  BY DEF Operate, controllerVars, writeVars
<1>2. level # None
  BY CapTypes
<1>3. requested \in OperatorCaps \cup {None}
  BY DEF ShedInv, ShedTypes
<1>4. /\ order' \in Orders /\ order' # None
      /\ order'.previous = requested /\ order'.given = {} /\ order'.todo = Gpus \ lockedGpus
  <2>1. order' \in Orders
    BY <1>1, <1>3 DEF Orders
  <2> QED
    BY <1>1, <2>1, OrdersAreNotNone
<1>5. ShedTypes'
  BY <1>1, <1>2, <1>4 DEF ShedInv, ShedTypes
<1>6. WantInv'
  BY <1>1 DEF ShedInv, WantInv, CapAt, AtLeast
<1>7. CapInv'
  <2>1. \A g \in Gpus : caps'[g] <= MaxCap
    BY <1>1 DEF ShedInv, CapInv
  <2>2. CASE skipped' \/ crossed'
    BY <2>1, <2>2 DEF CapInv
  <2>3. CASE ~skipped' /\ ~crossed'
    <3>1. \A g \in Gpus \ strays : caps[g] <= CapOf(requested)
      BY <1>1, <2>3 DEF ShedInv, CapInv
    <3>2. CapOf(order.previous)' = CapOf(requested)
      BY <1>4 DEF CapOf, CapAt, AtLeast
    <3>3. OrderInv'
      BY <1>1, <1>4, <2>3, <3>1, <3>2 DEF OrderInv
    <3> QED
      BY <1>4, <2>1, <3>3 DEF CapInv
  <2> QED
    BY <2>2, <2>3
<1> QED
  BY <1>5, <1>6, <1>7 DEF ShedInv

\* Each of its writes, on its own: it reaches the GPU or not, and fails or not.
LEMMA OrderStep ==
  ASSUME ShedConstants, ShedInv, NEW g \in Gpus, order # None, g \in order.todo,
         NEW landed \in BOOLEAN, NEW fails \in BOOLEAN, landed \/ fails,
         caps' = IF landed THEN [caps EXCEPT ![g] = CapAt(requested)] ELSE caps,
         order' \in Orders, order'.previous = order.previous,
         order'.todo = order.todo \ {g},
         order'.given = IF landed THEN order.given \cup {g} ELSE order.given,
         order'.failed = (order.failed \/ fails),
         UNCHANGED <<percent, requested, shedTask, target, want, todo, strays, skipped, crossed>>
  PROVE  ShedInv'
<1>1. order' # None
  BY OrdersAreNotNone
<1>2. requested # None /\ requested \in OperatorCaps /\ order \in Orders
  BY DEF ShedInv, ShedTypes
<1>3. CapAt(requested) \in Int /\ CapAt(requested) <= MaxCap
  BY <1>2, CapTypes
<1>4. /\ CapOf(requested) = CapAt(requested) /\ CapOf(requested)' = CapOf(requested)
      /\ CapOf(order.previous)' = CapOf(order.previous)
      /\ OperatorCap' = OperatorCap /\ CapAt(want)' = CapAt(want)
  BY <1>2 DEF CapOf, CapAt, AtLeast, OperatorCap
<1>5. /\ caps' \in [Gpus -> Int]
      /\ \A h \in Gpus : caps'[h] = IF landed /\ h = g THEN CapAt(requested) ELSE caps[h]
  BY <1>3 DEF ShedInv, ShedTypes
<1>6. ShedTypes'
  BY <1>1, <1>2, <1>5 DEF ShedInv, ShedTypes
<1>7. WantInv'
  <2>1. shedTask = "write" => crossed
    BY DEF ShedInv, WantInv
  <2> QED
    BY <1>4, <2>1 DEF ShedInv, WantInv
<1>8. \A h \in Gpus : caps'[h] <= MaxCap
  BY <1>3, <1>5 DEF ShedInv, CapInv
<1>9. CASE skipped \/ crossed
  BY <1>6, <1>7, <1>8, <1>9 DEF ShedInv, CapInv
<1>10. CASE ~skipped /\ ~crossed
  <2>1. OrderInv
    BY <1>10 DEF ShedInv, CapInv
  <2>2. order.given \subseteq Gpus /\ order'.given \subseteq order.given \cup {g}
        /\ order.given \subseteq order'.given /\ (landed => g \in order'.given)
    BY <1>2 DEF Orders
  <2>3. ASSUME NEW h \in order'.given PROVE caps'[h] <= CapOf(requested)
    <3>1. h \in Gpus
      BY <2>2, <2>3
    <3>2. CASE landed /\ h = g
      BY <1>3, <1>4, <1>5, <3>1, <3>2
    <3>3. CASE ~(landed /\ h = g)
      <4>1. h \in order.given
        BY <2>3, <3>3
      <4> QED
        BY <1>5, <2>1, <3>1, <3>3, <4>1 DEF OrderInv
    <3> QED
      BY <3>2, <3>3
  <2>4. ASSUME NEW h \in (Gpus \ order'.given) \ strays PROVE caps'[h] <= CapOf(order.previous)
    <3>1. h \in (Gpus \ order.given) \ strays /\ caps'[h] = caps[h]
      BY <1>5, <2>2
    <3> QED
      BY <2>1, <3>1 DEF OrderInv
  <2>5. order'.failed \/ order'.todo \cup order'.given = Gpus
    <3> SUFFICES ASSUME ~order'.failed PROVE order'.todo \cup order'.given = Gpus
      OBVIOUS
    <3>1. ~order.failed /\ ~fails /\ landed
      BY <1>2 DEF Orders
    <3>2. order.todo \cup order.given = Gpus
      BY <2>1, <3>1 DEF OrderInv
    <3> QED
      BY <3>1, <3>2
  <2>6. OrderInv'
    BY <1>4, <2>3, <2>4, <2>5 DEF OrderInv
  <2> QED
    BY <1>1, <1>6, <1>7, <1>8, <2>6 DEF ShedInv, CapInv
<1> QED
  BY <1>9, <1>10

LEMMA OperatorWriteStep ==
  ASSUME ShedConstants, ShedInv, NEW g \in Gpus, OperatorWrite(g) \/ OperatorFails(g)
  PROVE  ShedInv'
<1>1. /\ order # None /\ g \in order.todo /\ order \in Orders
      /\ UNCHANGED <<percent, requested, shedTask, target, want, todo, strays, skipped, crossed>>
  BY DEF OperatorWrite, OperatorFails, controllerVars, writeVars, shedHistory, ShedInv, ShedTypes
<1>2. CASE OperatorWrite(g)
  <2>1. /\ caps' = [caps EXCEPT ![g] = CapAt(requested)]
        /\ order' = [order EXCEPT !.todo = @ \ {g}, !.given = @ \cup {g}]
    BY <1>2 DEF OperatorWrite
  <2>2. /\ order' \in Orders /\ order'.previous = order.previous
        /\ order'.todo = order.todo \ {g} /\ order'.given = order.given \cup {g}
        /\ order'.failed = order.failed
    BY <1>1, <2>1 DEF Orders
  <2>3. order'.failed = (order.failed \/ FALSE)
    BY <1>1, <2>2 DEF Orders
  <2> HIDE DEF ShedInv
  <2> QED
    BY <1>1, <2>1, <2>2, <2>3, OrderStep
<1>3. ASSUME caps' = [caps EXCEPT ![g] = CapAt(requested)],
             order' = [order EXCEPT !.todo = @ \ {g}, !.given = @ \cup {g}, !.failed = TRUE]
      PROVE  ShedInv'
  <2>1. /\ order' \in Orders /\ order'.previous = order.previous
        /\ order'.todo = order.todo \ {g} /\ order'.given = order.given \cup {g}
        /\ order'.failed = (order.failed \/ TRUE)
    BY <1>1, <1>3 DEF Orders
  <2> QED
    BY <1>1, <1>3, <2>1, OrderStep
<1>4. ASSUME UNCHANGED caps, order' = [order EXCEPT !.todo = @ \ {g}, !.failed = TRUE]
      PROVE  ShedInv'
  <2>1. /\ order' \in Orders /\ order'.previous = order.previous
        /\ order'.todo = order.todo \ {g} /\ order'.given = order.given
        /\ order'.failed = (order.failed \/ TRUE)
    BY <1>1, <1>4 DEF Orders
  <2> QED
    BY <1>1, <1>4, <2>1, OrderStep
<1> QED
  BY <1>2, <1>3, <1>4 DEF OperatorFails

\* A command that failed puts the cap before it back, under which the GPUs it did
\* not reach have stayed; one that did not has reached them all.
LEMMA CommandEndsStep ==
  ASSUME ShedConstants, ShedInv, CommandEnds
  PROVE  ShedInv'
<1>1. /\ order # None /\ order.todo = {} /\ order \in Orders
      /\ requested' = IF order.failed THEN order.previous ELSE requested
      /\ strays' = IF order.failed THEN strays \cup order.given ELSE strays \ order.given
      /\ order' = None
      /\ UNCHANGED <<caps, percent, shedTask, target, want, todo, skipped, crossed>>
  BY DEF CommandEnds, controllerVars, writeVars, ShedInv, ShedTypes
<1>2. order.previous \in OperatorCaps \cup {None} /\ order.given \subseteq Gpus
  BY <1>1 DEF Orders
<1>3. ShedTypes'
  BY <1>1, <1>2 DEF ShedInv, ShedTypes
<1>4. WantInv'
  <2>1. shedTask = "write" => crossed
    BY <1>1 DEF ShedInv, WantInv
  <2> QED
    BY <1>1, <2>1 DEF ShedInv, WantInv, CapAt, AtLeast
<1>5. ASSUME ~skipped, ~crossed, NEW g \in Gpus \ strays' PROVE caps[g] <= CapOf(requested')
  <2>1. OrderInv
    BY <1>1, <1>5 DEF ShedInv, CapInv
  <2>2. CASE order.failed
    <3>1. g \in (Gpus \ order.given) \ strays /\ requested' = order.previous
      BY <1>1, <2>2
    <3> QED
      BY <2>1, <3>1 DEF OrderInv
  <2>3. CASE ~order.failed
    <3>1. g \in order.given /\ requested' = requested
      BY <1>1, <2>1, <2>3 DEF OrderInv
    <3> QED
      BY <2>1, <3>1 DEF OrderInv
  <2> QED
    BY <2>2, <2>3
<1>6. CapOf(requested)' = CapOf(requested')
  BY DEF CapOf, CapAt, AtLeast
<1>7. CapInv'
  BY <1>1, <1>5, <1>6 DEF ShedInv, CapInv
<1> QED
  BY <1>3, <1>4, <1>7 DEF ShedInv

\* A new controller has no level yet.
LEMMA RespawnStep ==
  ASSUME ShedConstants, ShedInv, Respawn
  PROVE  ShedInv'
<1>1. /\ percent' = None /\ shedTask = "idle"
      /\ UNCHANGED <<caps, requested, shedTask, todo, order, strays, skipped, crossed>>
  BY DEF Respawn, writeVars, operatorVars
<1>2. ShedTypes' /\ WantInv'
  BY <1>1 DEF ShedInv, ShedTypes, WantInv
<1>3. CapInv'
  BY <1>1 DEF ShedInv, CapInv, OrderInv, CapOf, CapAt, AtLeast
<1> QED
  BY <1>2, <1>3 DEF ShedInv

\* One step per action.
LEMMA ShedStep ==
  ASSUME ShedConstants, ShedInv, [ShedNext]_shedVars
  PROVE  ShedInv'
<1> USE DEF baseVars, readingVars, controllerVars, writeVars, operatorVars,
            shedHistory
<1>1. CASE TickHolds
  <2>1. /\ UNCHANGED <<caps, percent, requested, shedTask, target, want, order, strays, skipped, crossed>>
        /\ todo' = todo
    BY <1>1 DEF TickHolds
  <2> QED
    BY <2>1, ShedStutter
<1>2. CASE TickWrites
  BY <1>2, TickWritesStep
<1>3. CASE WriteEnds
  BY <1>3, WriteEndsStep
<1>4. ASSUME NEW g \in Gpus, WriteCap(g) \/ CapFails(g) PROVE ShedInv'
  <2>1. /\ shedTask = "write" /\ todo' = todo \ {g}
        /\ UNCHANGED <<percent, requested, shedTask, target, want, order, skipped, crossed>>
        /\ \/ caps' = [caps EXCEPT ![g] = CapAt(want)] /\ strays' \in {strays, strays \ {g}}
           \/ UNCHANGED <<caps, strays>>
    BY <1>4 DEF WriteCap, CapFails
  <2>2. CASE UNCHANGED <<caps, strays>>
    BY <2>1, <2>2, ShedStutter
  <2>3. CASE caps' = [caps EXCEPT ![g] = CapAt(want)] /\ strays' \in {strays, strays \ {g}}
    BY <2>1, <2>3, WriteCapStep
  <2> QED
    BY <2>1, <2>2, <2>3
<1>5. ASSUME NEW g \in Gpus, OperatorWrite(g) \/ OperatorFails(g) PROVE ShedInv'
  BY <1>5, OperatorWriteStep
<1>6. CASE CommandEnds
  BY <1>6, CommandEndsStep
<1>7. ASSUME NEW level \in OperatorCaps, Operate(level) PROVE ShedInv'
  BY <1>7, OperateStep
<1>8. CASE PoiReading
  <2>1. /\ UNCHANGED <<caps, percent, requested, shedTask, target, want, order, strays, skipped, crossed>>
        /\ todo' = todo
    BY <1>8 DEF PoiReading
  <2> QED
    BY <2>1, ShedStutter
<1>9. ASSUME NEW b \in Bases, NEW s \in BOOLEAN, MoveBase(b, s) PROVE ShedInv'
  <2>1. /\ UNCHANGED <<caps, percent, requested, shedTask, target, want, order, strays, skipped, crossed>>
        /\ todo' = todo
    BY <1>9 DEF MoveBase
  <2> QED
    BY <2>1, ShedStutter
<1>10. ASSUME NEW set \in SUBSET Lockable, Lock(set) PROVE ShedInv'
  <2>1. /\ UNCHANGED <<caps, percent, requested, shedTask, target, want, order, strays, skipped, crossed>>
        /\ todo' = todo
    BY <1>10 DEF Lock
  <2> QED
    BY <2>1, ShedStutter
<1>12. CASE Respawn
  BY <1>12, RespawnStep
<1>11. CASE UNCHANGED shedVars
  <2>1. /\ UNCHANGED <<caps, percent, requested, shedTask, target, want, order, strays, skipped, crossed>>
        /\ todo' = todo
    BY <1>11 DEF shedVars
  <2> QED
    BY <2>1, ShedStutter
<1> QED
  BY <1>1, <1>2, <1>3, <1>4, <1>5, <1>6, <1>7, <1>8, <1>9, <1>10, <1>11, <1>12 DEF ShedNext

\* Between writes no GPU is above its operator's cap, for any fleet, range of
\* caps, readings, lock changes and reconciles, and through writes and commands
\* that fail: a command acked failed (dispatch/mod.rs) leaves only the GPUs it
\* reached above the cap it puts back.  Commands that meet a shed and GPUs
\* skipped as locked out are excepted.
THEOREM CapsStayUnder == ShedSpec => []UnderOperatorCap
<1> USE ShedAssumptions
<1>1. ShedInit => ShedInv
  <2> SUFFICES ASSUME ShedInit PROVE ShedInv
    OBVIOUS
  <2>1. /\ caps \in [Gpus -> MinCap..MaxCap] /\ requested = None /\ order = None
        /\ percent = None /\ shedTask = "idle" /\ todo = {}
    BY DEF ShedInit, ShedConstants
  <2>2. caps \in [Gpus -> Int] /\ \A g \in Gpus : caps[g] <= MaxCap
    BY <2>1, CapTypes
  <2>3. CapOf(requested) = MaxCap
    BY <2>1 DEF CapOf
  <2> QED
    BY <2>1, <2>2, <2>3 DEF ShedInv, ShedTypes, WantInv, CapInv
<1>2. ShedInv /\ [ShedNext]_shedVars => ShedInv'
  BY ShedStep
<1>3. ShedInv => UnderOperatorCap
  BY DEF ShedInv, CapInv, CapOf, OperatorCap, UnderOperatorCap
<1> QED
  BY <1>1, <1>2, <1>3, PTL DEF ShedSpec

-----------------------------------------------------------------------------
(* The envelope's limits *)

\* Types; without a meter only the battery is behind the POI.
EnvelopeTypes ==
    /\ load \in Loads
    /\ limit \in Limits
    /\ request \in Requests \cup {0}
    /\ capacity \in Capacities
    /\ out \in Int
    /\ meter \in Seq(Int) /\ Len(meter) >= 1
    /\ reading \in Int
    /\ age \in 0..StaleAfter
    /\ output \in Int
    /\ prev \in [import: 0..Far, export: 0..Far]
    /\ jumpHold \in Nat
    /\ since \in 0..Settling
    /\ ~metered => load = 0

\* The output is within the rating it is cut to last, and it is what the
\* children deliver unless the tick before could not deliver it.
DeliveredInv ==
    /\ output <= PowerMax
    /\ ~wound => out = output

\* The constants' types.
LEMMA EnvelopeNumbers ==
  ASSUME EnvelopeConstants
  PROVE  /\ PowerMin \in Int /\ PowerMax \in Nat /\ -PowerMin \in Nat /\ Far \in Nat /\ RechargePower \in Nat
         /\ StaleAfter \in Nat /\ Settling \in Nat /\ MaxLate \in Nat /\ Short \in Nat
         /\ RampPercent \in 1..100
         /\ Loads \subseteq Int /\ Requests \subseteq Int /\ Capacities \subseteq Nat
         /\ ImportLimits \subseteq 0..Far /\ ExportLimits \subseteq 0..Far
         /\ Lags \subseteq Nat \ {0}
         /\ \A l \in Loads, c \in Capacities : l + c <= Far /\ c - l <= Far
BY DEF EnvelopeConstants

\* The readings under way are numbers, however many come in a tick.
LEMMA ShiftedType ==
  ASSUME EnvelopeConstants, EnvelopeTypes, NEW n \in Nat
  PROVE  /\ Shifted(n) \in Seq(Int) /\ Len(Shifted(n)) = Len(meter) /\ Len(Shifted(n)) >= 1
         /\ \A i \in 1..Len(meter) :
              Shifted(n)[i] = IF i + n <= Len(meter) THEN meter[i + n] ELSE Poi
         /\ Reading(n) \in Int
         /\ n > 0 => Reading(n) = IF n <= Len(meter) THEN meter[n] ELSE Poi
<1> DEFINE new == [i \in 1..n |-> Poi]
           all == meter \o new
<1>1. Poi \in Int
  BY EnvelopeNumbers DEF EnvelopeTypes, Poi
<1>2. new \in Seq(Int) /\ Len(new) = n /\ \A i \in 1..n : new[i] = Poi
  BY <1>1
<1>3. /\ all \in Seq(Int) /\ Len(all) = Len(meter) + n
      /\ Len(meter) \in Nat /\ Len(meter) >= 1 /\ meter \in Seq(Int)
      /\ \A i \in 1..(Len(meter) + n) :
           all[i] = IF i <= Len(meter) THEN meter[i] ELSE new[i - Len(meter)]
  <2>1. meter \in Seq(Int) /\ Len(meter) >= 1
    BY DEF EnvelopeTypes
  <2> HIDE DEF new
  <2> QED
    BY <1>2, <2>1
<1> HIDE DEF all
<1>4. \A i \in 1..(Len(meter) + n) : all[i] = IF i <= Len(meter) THEN meter[i] ELSE Poi
  <2> SUFFICES ASSUME NEW i \in 1..(Len(meter) + n)
               PROVE  all[i] = IF i <= Len(meter) THEN meter[i] ELSE Poi
    OBVIOUS
  <2>1. i > Len(meter) => i - Len(meter) \in 1..n
    BY <1>3
  <2> QED
    BY <1>2, <1>3, <2>1
<1> HIDE DEF new
<1>5. /\ SubSeq(all, n + 1, n + Len(meter)) \in Seq(Int)
      /\ Len(SubSeq(all, n + 1, n + Len(meter))) = Len(meter)
      /\ \A i \in 1..Len(meter) : SubSeq(all, n + 1, n + Len(meter))[i] = all[n + i]
  <2>1. \A i \in (n + 1)..(n + Len(meter)) : all[i] \in Int
    BY <1>3
  <2>2. SubSeq(all, n + 1, n + Len(meter)) =
          [i \in 1..Len(meter) |-> all[n + i]]
    BY <1>3
  <2> HIDE DEF all
  <2>3. \A i \in 1..Len(meter) : all[n + i] \in Int
    BY <1>3, <2>1
  <2> QED
    BY <1>3, <2>2, <2>3
<1>6. Shifted(n) = SubSeq(all, n + 1, n + Len(meter))
  BY DEF Shifted, Readings, all, new
<1>7. Reading(n) = IF n = 0 THEN reading ELSE all[n]
  BY DEF Reading, Readings, all, new
<1>8. n > 0 => n \in 1..(Len(meter) + n)
  BY <1>3
<1>9. \A i \in 1..Len(meter) : n + i \in 1..(Len(meter) + n) /\ n + i = i + n
  BY <1>3
<1>10. \A i \in 1..Len(meter) : meter[i] \in Int
  BY <1>3
<1>11. n > 0 => Reading(n) = IF n <= Len(meter) THEN meter[n] ELSE Poi
  BY <1>4, <1>7, <1>8
<1>12. Reading(n) \in Int
  BY <1>1, <1>3, <1>7, <1>10, <1>11 DEF EnvelopeTypes
<1> QED
  BY <1>3, <1>4, <1>5, <1>6, <1>9, <1>11, <1>12

\* A gain's part of x, for the gains and times at hand.
LEMMA PartBounds ==
  ASSUME NEW x \in Nat, NEW tenths \in 1..3, NEW dt \in 0..3
  PROVE  Part(x, tenths, dt) \in Nat /\ Part(x, tenths, dt) <= x
<1>1. tenths * dt \in 0..9
  OBVIOUS
<1>2. PICK k \in 0..9 : x * tenths * dt = x * k
  BY <1>1
<1>3. x * k \in Nat /\ x * k <= 10 * x
  OBVIOUS
<1>4. (x * k) \div 10 \in Nat /\ (x * k) \div 10 <= x
  BY <1>3
<1> QED
  BY <1>2, <1>4 DEF Part

\* The part is a number, however late the tick.
LEMMA PartType ==
  ASSUME NEW x \in Int, NEW tenths \in Int, NEW dt \in Int
  PROVE  Part(x, tenths, dt) \in Int
<1>1. x * tenths * dt \in Int
  OBVIOUS
<1> QED
  BY <1>1 DEF Part

\* So is the step.
LEMMA StepType ==
  ASSUME NEW p \in Int, NEW l \in Int, NEW l0 \in Int, Far \in Int,
         NEW opposite \in Int, NEW dt \in Int
  PROVE  Step(p, l, l0, opposite, dt) \in Int
<1> DEFINE jump == Jump(p, l, l0)
           m == Headroom(p, l) + jump
<1>1. jump \in Int /\ m \in Int
  BY DEF Jump, Headroom, Greater, Lesser
<1>2. Step(p, l, l0, opposite, dt) = IF l = Far THEN Far ELSE Rate(m, opposite, dt) - jump
  BY DEF Step
<1> HIDE DEF m, jump
<1>3. -m \in Int /\ 1 \in Int /\ 3 \in Int
  BY <1>1
<1>4. Part(m, 1, dt) \in Int
  BY ONLY <1>1, <1>3, dt \in Int, PartType
<1>5. Part(-m, 3, dt) \in Int /\ Part(-m, 1, dt) \in Int
  BY ONLY <1>3, dt \in Int, PartType
<1>6. Part(opposite, 1, dt) \in Int
  BY ONLY <1>3, opposite \in Int, dt \in Int, PartType
<1>7. Rate(m, opposite, dt) \in Int
  BY <1>1, <1>4, <1>5, <1>6 DEF Rate, Greater, Lesser
<1> QED
  BY <1>1, <1>2, <1>7

\* A step goes towards its limit by no more than the headroom, and back by no
\* more than the excess.
LEMMA StepBounds ==
  ASSUME NEW p \in Int, NEW l \in Int, NEW l0 \in Int, l # Far, Far \in Nat,
         NEW opposite \in Int, NEW dt \in 0..3
  PROVE  /\ Step(p, l, l0, opposite, dt) \in Int
         /\ p + l >= 0 => 0 <= Step(p, l, l0, opposite, dt)
                          /\ Step(p, l, l0, opposite, dt) <= p + l
         /\ p + l < 0 => p + l <= Step(p, l, l0, opposite, dt)
                         /\ Step(p, l, l0, opposite, dt) <= 0
<1> DEFINE h == p + l
           jump == Jump(p, l, l0)
           m == h + jump
<1>1. /\ jump \in Nat
      /\ h >= 0 => jump = 0
      /\ h < 0 => jump <= -h
  BY DEF Jump, Headroom, Greater, Lesser
<1>2. Step(p, l, l0, opposite, dt) = Rate(m, opposite, dt) - jump
  BY DEF Step, Headroom
<1>3. m \in Int /\ (h >= 0 => m = h) /\ (h < 0 => h <= m /\ m <= 0)
  BY <1>1
<1>5. Part(opposite, 1, dt) \in Int
  BY PartType
<1>6. 1 \in 1..3 /\ 3 \in 1..3
  OBVIOUS
<1> HIDE DEF m, jump
<1>4. /\ m >= 0 => Rate(m, opposite, dt) \in 0..m
      /\ m < 0 => Rate(m, opposite, dt) \in m..0
  <2>1. CASE m >= 0
    <3>0. m \in Nat
      BY <1>3, <2>1
    <3>1. Part(m, 1, dt) \in Nat /\ Part(m, 1, dt) <= m
      BY ONLY <3>0, <1>6, dt \in 0..3, PartBounds
    <3> QED
      BY <3>0, <3>1 DEF Rate
  <2>2. CASE m < 0
    <3>0. -m \in Nat
      BY <1>3, <2>2
    <3>2. Part(-m, 3, dt) \in Nat /\ Part(-m, 3, dt) <= -m
      BY ONLY <3>0, <1>6, dt \in 0..3, PartBounds
    <3>3. Part(-m, 1, dt) \in Nat /\ Part(-m, 1, dt) <= -m
      BY ONLY <3>0, <1>6, dt \in 0..3, PartBounds
    <3>4. ~(m >= 0)
      BY <1>3, <2>2
    <3>5. Rate(m, opposite, dt) =
            -Greater(Lesser(Part(-m, 3, dt), Part(opposite, 1, dt)), Part(-m, 1, dt))
      BY <3>4 DEF Rate
    <3> QED
      BY <1>3, <1>5, <2>2, <3>2, <3>3, <3>5 DEF Greater, Lesser
  <2> QED
    BY <1>3, <2>1, <2>2
<1>7. m = h + jump
  BY DEF m
<1> HIDE DEF h
<1>8. h \in Int /\ h = p + l
  BY DEF h
<1>9. CASE h >= 0
  BY <1>1, <1>2, <1>3, <1>4, <1>7, <1>8, <1>9
<1>10. CASE h < 0
  <2>1. Rate(m, opposite, dt) \in m..0
    BY <1>3, <1>4, <1>8, <1>10
  <2> QED
    BY <1>1, <1>2, <1>3, <1>7, <1>8, <1>10, <2>1
<1> QED
  BY <1>8, <1>9, <1>10

\* What a tick with n new readings may set the output to: not up, or up within
\* the room its reading shows before the export limit; and so for down.
MayRise(n, v) ==
    \/ v <= output
    \/ limit.export = Far
    \/ metered /\ v <= output + Reading(n) + limit.export
    \/ ~metered /\ v <= limit.export
MayFall(n, v) ==
    \/ v >= output
    \/ limit.import = Far
    \/ metered /\ v >= output + Reading(n) - limit.import
    \/ ~metered /\ v >= -limit.import
Reachable(n, v) == v \in Int /\ MayRise(n, v) /\ MayFall(n, v)

\* The published limits are numbers.
LEMMA LimitNumbers ==
  ASSUME EnvelopeConstants, EnvelopeTypes
  PROVE  /\ limit.export \in 0..Far /\ limit.import \in 0..Far
         /\ prev.export \in 0..Far /\ prev.import \in 0..Far
         /\ Far \in Nat /\ output \in Int
BY EnvelopeNumbers DEF EnvelopeTypes, Limits

\* Both bounds of the servo are within reach.  An export limit is never below an
\* import limit's flow, so the bound that gives way to the other stays so.
LEMMA ServoReach ==
  ASSUME EnvelopeConstants, EnvelopeTypes, metered, NEW n \in 0..3
  PROVE  /\ Reachable(n, ServoBounds(n).ceiling)
         /\ Reachable(n, ServoBounds(n).floor)
<1> DEFINE p == Reading(n)
           dt == IF n > 0 /\ jumpHold = 0 THEN n ELSE 0
           export == Headroom(p, limit.export)
           import == Headroom(-p, limit.import)
           rise == Step(p, limit.export, prev.export, import, dt)
           fall == Step(-p, limit.import, prev.import, export, dt)
           up == output + rise
           down == output - fall
<1>1. p \in Int /\ dt \in 0..3
  BY ShiftedType
<1>2. /\ limit.export \in Nat /\ limit.import \in Nat
      /\ prev.export \in Int /\ prev.import \in Int
      /\ Far \in Nat /\ output \in Int
  BY LimitNumbers
<1>3. export \in Int /\ import \in Int
  BY <1>1, <1>2 DEF Headroom
<1>4. ServoBounds(n).ceiling \in {up, down, output}
  BY <1>1, <1>2 DEF ServoBounds, Lesser
<1>5. ServoBounds(n).floor \in {up, down, output}
  BY <1>1, <1>2 DEF ServoBounds, Lesser, Greater
<1> HIDE DEF p, dt, export, import
<1>6. /\ rise \in Int
      /\ limit.export # Far =>
           \/ 0 <= rise /\ rise <= p + limit.export
           \/ p + limit.export <= rise /\ rise <= 0
      /\ limit.export = Far => rise >= 0
  <2>1. CASE limit.export = Far
    BY <1>2, <2>1 DEF Step
  <2>2. CASE limit.export # Far
    <3>1. /\ rise \in Int
          /\ p + limit.export >= 0 => 0 <= rise /\ rise <= p + limit.export
          /\ p + limit.export < 0 => p + limit.export <= rise /\ rise <= 0
      <4>1. limit.export \in Int
        BY <1>2
      <4> QED
        BY ONLY <1>1, <1>2, <1>3, <2>2, <4>1, StepBounds
    <3> QED
      BY <1>1, <1>2, <2>2, <3>1
  <2> QED
    BY <2>1, <2>2
<1>7. /\ fall \in Int
      /\ limit.import # Far =>
           \/ 0 <= fall /\ fall <= -p + limit.import
           \/ -p + limit.import <= fall /\ fall <= 0
      /\ limit.import = Far => fall >= 0
  <2>1. CASE limit.import = Far
    BY <1>2, <2>1 DEF Step
  <2>2. CASE limit.import # Far
    <3>1. -p \in Int
      BY <1>1
    <3>2. /\ fall \in Int
          /\ -p + limit.import >= 0 => 0 <= fall /\ fall <= -p + limit.import
          /\ -p + limit.import < 0 => -p + limit.import <= fall /\ fall <= 0
      <4>1. limit.import \in Int
        BY <1>2
      <4> QED
        BY ONLY <1>1, <1>2, <1>3, <2>2, <3>1, <4>1, StepBounds
    <3> QED
      BY <1>1, <1>2, <2>2, <3>1, <3>2
  <2> QED
    BY <2>1, <2>2
<1> HIDE DEF rise, fall
<1>8. Reachable(n, up)
  BY <1>1, <1>2, <1>6 DEF Reachable, MayRise, MayFall, p
<1>9. Reachable(n, down)
  BY <1>1, <1>2, <1>7 DEF Reachable, MayRise, MayFall, p
<1>10. Reachable(n, output)
  BY <1>2 DEF Reachable, MayRise, MayFall
<1> QED
  BY <1>4, <1>5, <1>8, <1>9, <1>10

\* What the tick aims at is a number within the rating, however late it is.
LEMMA TargetType ==
  ASSUME EnvelopeConstants, EnvelopeTypes, NEW n \in Nat
  PROVE  Target(Bounds(n)) \in Int /\ Target(Bounds(n)) <= PowerMax
<1> DEFINE p == Reading(n)
           dt == IF n > 0 /\ jumpHold = 0 THEN n ELSE 0
           export == Headroom(p, limit.export)
           import == Headroom(-p, limit.import)
           up == output + Step(p, limit.export, prev.export, import, dt)
           down == output - Step(-p, limit.import, prev.import, export, dt)
           b == IF metered THEN ServoBounds(n) ELSE DirectBounds(n)
           c == Lesser(b.ceiling, PowerMax)
           f == Lesser(Greater(b.floor, PowerMin), c)
<1>1. p \in Int /\ dt \in Nat
  BY ShiftedType
<1>2. /\ limit.export \in Int /\ limit.import \in Int
      /\ prev.export \in Int /\ prev.import \in Int
      /\ Far \in Int /\ output \in Int
  BY LimitNumbers
<1>3. export \in Int /\ import \in Int /\ -p \in Int
  BY <1>1, <1>2 DEF Headroom
<1>4. ServoBounds(n).ceiling \in {up, down, output}
  BY <1>1, <1>2 DEF ServoBounds, Lesser
<1>5. ServoBounds(n).floor \in {up, down, output}
  BY <1>1, <1>2 DEF ServoBounds, Lesser, Greater
<1>6. Bounds(n).ceiling = c /\ Bounds(n).floor = f
  BY DEF Bounds, ServoBounds, DirectBounds
<1> HIDE DEF p, dt, export, import
<1>7. up \in Int /\ down \in Int
  <2>1. dt \in Int
    BY <1>1
  <2>2. Step(p, limit.export, prev.export, import, dt) \in Int
    BY ONLY <1>1, <1>2, <1>3, <2>1, StepType
  <2>3. Step(-p, limit.import, prev.import, export, dt) \in Int
    BY ONLY <1>1, <1>2, <1>3, <2>1, StepType
  <2> QED
    BY <1>2, <2>2, <2>3
<1> HIDE DEF up, down
<1>8. b.ceiling \in Int /\ b.floor \in Int
  BY <1>2, <1>4, <1>5, <1>7 DEF DirectBounds
<1> HIDE DEF b
<1>9. c \in Int /\ c <= PowerMax /\ f \in Int /\ f <= c
  BY <1>8, EnvelopeNumbers DEF Lesser, Greater
<1> HIDE DEF c, f
<1>10. Wanted \in Int
  <2>1. RechargePower \in Nat /\ request \in Int
    BY EnvelopeNumbers DEF EnvelopeTypes
  <2> QED
    BY <2>1 DEF Wanted
<1>11. Target(Bounds(n)) = Clamp(Wanted, f, c)
  BY <1>6 DEF Target
<1> QED
  BY <1>9, <1>10, <1>11, EnvelopeNumbers DEF Clamp

\* On time it is also within reach, as the bounds within the ratings are.
LEMMA TargetReach ==
  ASSUME EnvelopeConstants, EnvelopeTypes, DeliveredInv, NEW n \in 0..3
  PROVE  Reachable(n, Target(Bounds(n)))
<1> DEFINE b == IF metered THEN ServoBounds(n) ELSE DirectBounds(n)
           c == Lesser(b.ceiling, PowerMax)
           f == Lesser(Greater(b.floor, PowerMin), c)
<1>1. /\ limit.export \in Nat /\ limit.import \in Nat /\ output \in Int
      /\ PowerMax \in Nat /\ PowerMin \in Int /\ output <= PowerMax
  BY LimitNumbers, EnvelopeNumbers DEF DeliveredInv
<1>2. Reading(n) \in Int
  BY ShiftedType
<1>3. Reachable(n, b.ceiling) /\ Reachable(n, b.floor)
  <2>1. CASE metered
    BY <2>1, ServoReach
  <2>2. CASE ~metered
    BY <1>1, <1>2, <2>2 DEF DirectBounds, Reachable, MayRise, MayFall
  <2> QED
    BY <2>1, <2>2
<1>4. Bounds(n).ceiling = c /\ Bounds(n).floor = f
  BY DEF Bounds, ServoBounds, DirectBounds
<1> HIDE DEF b
<1>5. Reachable(n, c)
  BY <1>1, <1>2, <1>3 DEF Lesser, Reachable, MayRise, MayFall
<1> HIDE DEF c
<1>6. Reachable(n, f) /\ f <= c
  BY <1>1, <1>2, <1>3, <1>5 DEF Lesser, Greater, Reachable, MayRise, MayFall
<1> HIDE DEF f
<1>7. Wanted \in Int
  <2>1. RechargePower \in Nat /\ request \in Int
    BY EnvelopeNumbers DEF EnvelopeTypes
  <2> QED
    BY <2>1 DEF Wanted
<1>8. Target(Bounds(n)) = Clamp(Wanted, f, c)
  BY <1>4 DEF Target
<1> QED
  BY <1>1, <1>2, <1>5, <1>6, <1>7, <1>8 DEF Clamp, Reachable, MayRise, MayFall

\* A ramp's largest step is a whole number of watts.
LEMMA MaxStepType ==
  ASSUME EnvelopeConstants, NEW n \in Nat, NEW delta \in Int
  PROVE  MaxStep(n, delta) \in Nat
<1>1. \A a, b \in Nat : a * b \in Nat
  OBVIOUS
<1>2. \A x \in Nat : x \div 100 \in Nat
  OBVIOUS
<1>3. \A rated \in Int : Share(RampPercent, rated) \in Nat
  <2> SUFFICES ASSUME NEW rated \in Int PROVE Share(RampPercent, rated) \in Nat
    OBVIOUS
  <2>1. Abs(rated) \in Nat /\ RampPercent \in Nat
    BY EnvelopeNumbers DEF Abs
  <2>2. RampPercent * Abs(rated) \in Nat
    BY <1>1, <2>1
  <2> QED
    BY <1>2, <2>2 DEF Share
<1>4. Dt(n) \in Nat
  BY DEF Dt, Greater
<1>5. (IF delta >= 0 THEN PowerMax ELSE PowerMin) \in Int
  BY EnvelopeNumbers
<1> QED
  BY <1>1, <1>3, <1>4, <1>5 DEF MaxStep

\* v is between a and b.
Between(v, a, b) == (a <= v /\ v <= b) \/ (b <= v /\ v <= a)

\* A tick with a reading sets the output, before the children's share, to
\* something on the way to what it aims at.
LEMMA ControlsAim ==
  ASSUME EnvelopeConstants, EnvelopeTypes, NEW n \in Nat, Controls(n)
  PROVE  \E v \in Int : Between(v, output, Target(Bounds(n))) /\ Commands(v)
<1> DEFINE b == Bounds(n)
           t == Target(b)
<1>1. t \in Int /\ output \in Int
  BY TargetType DEF EnvelopeTypes
<1>2. Between(t, output, t) /\ Between(output, output, t)
  BY <1>1 DEF Between
<1>3. Clamps(n, b) \/ Holds(n, b) \/ Ramps(n, b) \/ Tracks(n, b)
  BY DEF Controls
<1>4. CASE Clamps(n, b)
  BY <1>1, <1>2, <1>4 DEF Clamps
<1>5. CASE Holds(n, b)
  BY <1>1, <1>2, <1>5 DEF Holds
<1>6. CASE Tracks(n, b)
  BY <1>1, <1>2, <1>6 DEF Tracks
<1>7. CASE Ramps(n, b)
  <2> DEFINE step == MaxStep(n, t - output)
             v == Ramped(n, t)
  <2>1. Commands(v)
    BY <1>7 DEF Ramps
  <2>2. step \in Nat
    <3>1. t - output \in Int
      BY <1>1
    <3> QED
      BY <3>1, MaxStepType
  <2> HIDE DEF t, b
  <2>3. v = IF Abs(t - output) <= step THEN t
            ELSE IF t - output > 0 THEN output + step ELSE output - step
    BY DEF Ramped
  <2> HIDE DEF step, v
  <2>4. v \in Int /\ Between(v, output, t)
    BY <1>1, <2>2, <2>3 DEF Abs, Between
  <2> QED
    BY <2>1, <2>4 DEF t, b
<1> QED
  BY <1>3, <1>4, <1>5, <1>6, <1>7

\* So what it sets is within the rating,
LEMMA ControlsRange ==
  ASSUME EnvelopeConstants, EnvelopeTypes, DeliveredInv, NEW n \in Nat, Controls(n)
  PROVE  \E v \in Int : v <= PowerMax /\ Commands(v)
<1> DEFINE t == Target(Bounds(n))
<1>1. PICK v \in Int : Between(v, output, t) /\ Commands(v)
  BY ControlsAim
<1>2. t \in Int /\ t <= PowerMax
  BY TargetType
<1>3. output \in Int /\ output <= PowerMax /\ PowerMax \in Nat
  BY EnvelopeNumbers DEF EnvelopeTypes, DeliveredInv
<1> HIDE DEF t
<1>4. v <= PowerMax
  BY <1>1, <1>2, <1>3 DEF Between
<1> QED
  BY <1>1, <1>4

\* and on time within reach.
LEMMA ControlsReach ==
  ASSUME EnvelopeConstants, EnvelopeTypes, DeliveredInv, NEW n \in 0..3, Controls(n)
  PROVE  \E v : Reachable(n, v) /\ v <= PowerMax /\ Commands(v)
<1> DEFINE t == Target(Bounds(n))
<1>1. n \in Nat
  OBVIOUS
<1>2. PICK v \in Int : Between(v, output, t) /\ Commands(v)
  BY <1>1, ControlsAim
<1>3. t \in Int /\ t <= PowerMax
  BY <1>1, TargetType
<1>4. Reachable(n, t)
  BY TargetReach
<1>5. output \in Int /\ output <= PowerMax /\ PowerMax \in Nat
  BY EnvelopeNumbers DEF EnvelopeTypes, DeliveredInv
<1>6. Reading(n) \in Int
  BY <1>1, ShiftedType
<1>7. limit.export \in Int /\ limit.import \in Int
  BY LimitNumbers
<1> HIDE DEF t
<1>8. Reachable(n, v)
  BY <1>2, <1>3, <1>4, <1>5, <1>6, <1>7 DEF Between, Reachable, MayRise, MayFall
<1>9. v <= PowerMax
  BY <1>2, <1>3, <1>5 DEF Between
<1> QED
  BY <1>2, <1>8, <1>9

\* What a tick without one does: some number, no further up than 0 or it was.
LEMMA RampsToZeroRange ==
  ASSUME EnvelopeConstants, EnvelopeTypes, DeliveredInv, NEW n \in Nat, RampsToZero(n)
  PROVE  \E v \in Int : v <= PowerMax /\ Commands(v)
<1> DEFINE step == MaxStep(n, output)
           v == IF Abs(output) <= step THEN 0
                ELSE IF output > 0 THEN output - step ELSE output + step
<1>1. output \in Int /\ output <= PowerMax /\ PowerMax \in Nat
  BY EnvelopeNumbers DEF EnvelopeTypes, DeliveredInv
<1>2. step \in Nat
  BY <1>1, MaxStepType
<1>3. Commands(v)
  BY DEF RampsToZero
<1> HIDE DEF step
<1>4. v \in Int /\ v <= PowerMax
  BY <1>1, <1>2 DEF Abs
<1> QED
  BY <1>3, <1>4

\* What a commanded output is within the children's capacity.
LEMMA CommandsRange ==
  ASSUME EnvelopeConstants, EnvelopeTypes, NEW v \in Int, v <= PowerMax, Commands(v)
  PROVE  /\ output' \in Int /\ output' <= PowerMax
         /\ energized /\ reported => output' = Clamp(v, -capacity, capacity)
                                    /\ output' = Clamp(output', -capacity, capacity)
<1>1. capacity \in Nat /\ PowerMax \in Nat
  BY EnvelopeNumbers DEF EnvelopeTypes
<1> QED
  BY <1>1 DEF Commands, Clamp

\* A tick keeps the types and the rating.
LEMMA ComputesRange ==
  ASSUME EnvelopeConstants, EnvelopeTypes, DeliveredInv, NEW n \in Nat, Computes(n)
  PROVE  /\ output' \in Int /\ output' <= PowerMax
         /\ energized /\ reported => output' = Clamp(output', -capacity, capacity)
         /\ meter' \in Seq(Int) /\ Len(meter') >= 1
         /\ reading' \in Int
         /\ age' \in 0..StaleAfter
         /\ prev' \in [import: 0..Far, export: 0..Far]
         /\ jumpHold' \in Nat
<1>1. PICK v \in Int : v <= PowerMax /\ Commands(v)
  <2>1. CASE Stale(n)
    BY <2>1, RampsToZeroRange DEF Computes
  <2>2. CASE ~Stale(n)
    BY <2>2, ControlsRange DEF Computes
  <2> QED
    BY <2>1, <2>2
<1>2. /\ output' \in Int /\ output' <= PowerMax
      /\ energized /\ reported => output' = Clamp(output', -capacity, capacity)
  BY <1>1, CommandsRange
<1>3. meter' \in Seq(Int) /\ Len(meter') >= 1
  <2>1. Dt(n) \in Nat
    BY DEF Dt, Greater
  <2> QED
    BY <2>1, ShiftedType DEF Computes
<1>4. reading' \in Int
  BY ShiftedType DEF Computes
<1>5. age' \in 0..StaleAfter
  BY EnvelopeNumbers DEF Computes, Lesser, EnvelopeTypes
<1>6. prev' \in [import: 0..Far, export: 0..Far] /\ jumpHold' \in Nat
  <2>1. CASE Stale(n)
    BY <2>1 DEF Computes, RampsToZero, EnvelopeTypes
  <2>2. CASE ~Stale(n)
    <3>1. Controls(n)
      BY <2>2 DEF Computes
    <3>2. limit \in [import: 0..Far, export: 0..Far]
      BY EnvelopeNumbers DEF EnvelopeTypes, Limits
    <3>3. prev' = limit
      BY <3>1 DEF Controls
    <3>4. \/ jumpHold' = JumpHoldReadings
          \/ jumpHold > 0 /\ jumpHold' = jumpHold - 1
          \/ jumpHold' = jumpHold
      <4>1. jumpHold' = IF Bounds(n).jumped THEN JumpHoldReadings
                        ELSE IF jumpHold > 0 /\ n > 0 THEN jumpHold - 1 ELSE jumpHold
        BY <3>1 DEF Controls
      <4> QED
        BY <4>1, Zenon
    <3> QED
      BY <3>2, <3>3, <3>4 DEF EnvelopeTypes, JumpHoldReadings
  <2> QED
    BY <2>1, <2>2
<1> QED
  BY <1>2, <1>3, <1>4, <1>5, <1>6

EnvelopeInv == EnvelopeTypes /\ DeliveredInv

\* It holds of a module at rest,
LEMMA EnvelopeStarts ==
  ASSUME EnvelopeConstants, EnvelopeInit
  PROVE  EnvelopeInv
<1>1. load \in Int /\ Poi \in Int
  BY EnvelopeNumbers DEF EnvelopeInit, Poi
<1>2. PICK lag \in Lags : meter = [i \in 1..lag |-> Poi]
  BY DEF EnvelopeInit
<1>3. meter \in Seq(Int) /\ Len(meter) >= 1
  <2>1. lag \in Nat /\ lag >= 1
    BY EnvelopeNumbers
  <2> QED
    BY <1>1, <1>2, <2>1
<1>4. prev \in [import: 0..Far, export: 0..Far]
  BY EnvelopeNumbers DEF EnvelopeInit
<1>5. EnvelopeTypes
  BY <1>1, <1>3, <1>4, EnvelopeNumbers DEF EnvelopeInit, EnvelopeTypes
<1>6. DeliveredInv
  BY EnvelopeNumbers DEF EnvelopeInit, DeliveredInv
<1> QED
  BY <1>5, <1>6 DEF EnvelopeInv

\* What the children deliver of an output is a number.
LEMMA DeliveredType ==
  ASSUME EnvelopeConstants, EnvelopeTypes, output' \in Int
  PROVE  Delivered \in Int
BY EnvelopeNumbers DEF Delivered, Clamp, EnvelopeTypes

\* A tick that lands.
LEMMA LandsKeeps ==
  ASSUME EnvelopeConstants, EnvelopeInv, NEW n \in Nat,
         Computes(n), Lands(n), since' \in 0..Settling
  PROVE  EnvelopeInv'
<1>0. EnvelopeTypes /\ DeliveredInv
  BY DEF EnvelopeInv
<1>1. /\ output' \in Int /\ output' <= PowerMax
      /\ energized /\ reported => output' = Clamp(output', -capacity, capacity)
      /\ meter' \in Seq(Int) /\ Len(meter') >= 1
      /\ reading' \in Int
      /\ age' \in 0..StaleAfter
      /\ prev' \in [import: 0..Far, export: 0..Far]
      /\ jumpHold' \in Nat
  BY <1>0, ComputesRange
<1>2. UNCHANGED <<load, limit, request, capacity, metered>>
  BY DEF Computes, siteVars, plantVars
<1>3. out' \in Int
  BY <1>0, <1>1, DeliveredType DEF Lands, EnvelopeTypes
<1>4. EnvelopeTypes'
  BY <1>0, <1>1, <1>2, <1>3 DEF EnvelopeTypes, Limits
<1>5. ~wound' => out' = output'
  <2>1. CASE energized /\ reported
    BY <1>1, <2>1 DEF Lands, Delivered
  <2>2. CASE ~(energized /\ reported)
    BY <2>2 DEF Lands
  <2> QED
    BY <2>1, <2>2
<1>6. PowerMax' = PowerMax
  OBVIOUS
<1> QED
  BY <1>1, <1>4, <1>5, <1>6 DEF EnvelopeInv, DeliveredInv

\* A tick whose output is not all delivered.
LEMMA FaultyTickKeeps ==
  ASSUME EnvelopeConstants, EnvelopeInv, NEW n \in Nat,
         Computes(n), out' \in Int, wound', since' \in 0..Settling
  PROVE  EnvelopeInv'
<1>0. EnvelopeTypes /\ DeliveredInv
  BY DEF EnvelopeInv
<1>1. /\ output' \in Int /\ output' <= PowerMax
      /\ meter' \in Seq(Int) /\ Len(meter') >= 1
      /\ reading' \in Int
      /\ age' \in 0..StaleAfter
      /\ prev' \in [import: 0..Far, export: 0..Far]
      /\ jumpHold' \in Nat
  BY <1>0, ComputesRange
<1>2. UNCHANGED <<load, limit, request, capacity, metered>>
  BY DEF Computes, siteVars, plantVars
<1>4. EnvelopeTypes'
  BY <1>0, <1>1, <1>2 DEF EnvelopeTypes, Limits
<1> QED
  BY <1>1, <1>4 DEF EnvelopeInv, DeliveredInv

\* and every step keeps it.
LEMMA EnvelopeStep ==
  ASSUME EnvelopeConstants, EnvelopeInv, [EnvelopeNext]_envelopeVars
  PROVE  EnvelopeInv'
<1>0. EnvelopeTypes /\ DeliveredInv
  BY DEF EnvelopeInv
<1>1. Beat \in Nat
  BY DEF Beat
<1>2. 0 \in 0..Settling /\ Settling \in Nat /\ since \in 0..Settling
      /\ MaxLate \in Nat /\ Short \in Nat
  BY EnvelopeNumbers, <1>0 DEF EnvelopeTypes
<1>3. ASSUME Fault PROVE since' \in 0..Settling
  BY <1>2, <1>3 DEF Fault
<1>4. ASSUME Move PROVE since' \in 0..Settling
  BY <1>2, <1>4 DEF Move
<1>5. CASE Tick
  <2>1. since' \in 0..Settling
    BY <1>2, <1>5 DEF Tick, Lesser
  <2> QED
    BY <1>1, <1>5, <2>1, LandsKeeps DEF Tick
<1>6. CASE OffBeat
  <2>1. PICK n \in 0..MaxLate : TickOffBeat(n)
    BY <1>6 DEF OffBeat
  <2>2. n \in Nat
    BY <1>2, <2>1
  <2> QED
    BY <1>3, <2>1, <2>2, LandsKeeps DEF TickOffBeat
<1>7. CASE TickFails \/ TickHandsOff
  <2>1. Computes(Beat) /\ out' \in {out, Shorted, Delivered} /\ wound'
    BY <1>7 DEF TickFails, TickHandsOff
  <2>2. output' \in Int
    BY <1>0, <1>1, <2>1, ComputesRange
  <2>3. Delivered \in Int
    BY <1>0, <2>2, DeliveredType
  <2>4. out' \in Int
    BY <1>0, <1>2, <2>1, <2>3 DEF Shorted, Greater, Lesser, EnvelopeTypes
  <2>5. since' \in 0..Settling
    BY <1>3, <1>4, <1>7 DEF TickFails, TickHandsOff
  <2> QED
    BY <1>1, <2>1, <2>4, <2>5, FaultyTickKeeps
<1>8. CASE Reseed
  <2>1. since' \in 0..Settling
    BY <1>3, <1>8 DEF Reseed
  <2>2. /\ UNCHANGED <<load, limit, request, capacity, out, meter, reading, age, metered>>
        /\ prev' = [import |-> Far, export |-> Far] /\ jumpHold' = 0
        /\ output' \in Seeds /\ (~wound' => out' = output')
    BY <1>8 DEF Reseed, siteVars, plantVars, meterVars
  <2>3. output' \in Int /\ output' <= PowerMax
    <3>1. load \in Int /\ out \in Int /\ meter \in Seq(Int)
      BY <1>0, EnvelopeNumbers DEF EnvelopeTypes
    <3>2. \A i \in 1..Len(meter) : meter[i] \in Int
      BY <3>1
    <3> QED
      BY <2>2, <3>1, <3>2 DEF Seeds
  <2>4. prev' \in [import: 0..Far, export: 0..Far] /\ jumpHold' \in Nat
    BY <2>2, EnvelopeNumbers
  <2>5. EnvelopeTypes'
    BY <1>0, <2>1, <2>2, <2>3, <2>4 DEF EnvelopeTypes, Limits
  <2> QED
    BY <2>2, <2>3, <2>5 DEF EnvelopeInv, DeliveredInv
<1>9. CASE LoadChanges
  BY <1>0, <1>4, <1>9
     DEF LoadChanges, plantVars, meterVars, controlVars, EnvelopeInv,
         EnvelopeTypes, DeliveredInv, Limits
<1>10. CASE LimitsChange
  BY <1>0, <1>4, <1>10
     DEF LimitsChange, plantVars, meterVars, controlVars, EnvelopeInv,
         EnvelopeTypes, DeliveredInv, Limits
<1>11. CASE Command
  BY <1>0, <1>4, <1>11
     DEF Command, plantVars, meterVars, controlVars, EnvelopeInv,
         EnvelopeTypes, DeliveredInv, Limits
<1>12. CASE ReadinessChanges
  BY <1>0, <1>4, <1>12
     DEF ReadinessChanges, plantVars, meterVars, controlVars, EnvelopeInv,
         EnvelopeTypes, DeliveredInv, Limits
<1>13. CASE Cease
  BY <1>0, <1>3, <1>13
     DEF Cease, siteVars, meterVars, controlVars, EnvelopeInv,
         EnvelopeTypes, DeliveredInv, Limits
<1>14. CASE Energize
  BY <1>0, <1>2, <1>14
     DEF Energize, siteVars, meterVars, controlVars, EnvelopeInv,
         EnvelopeTypes, DeliveredInv, Limits
<1>15. CASE CapacityChanges
  BY <1>0, <1>3, <1>15
     DEF CapacityChanges, siteVars, meterVars, controlVars, EnvelopeInv,
         EnvelopeTypes, DeliveredInv, Limits
<1>16. CASE ChildReports
  BY <1>0, <1>3, <1>16
     DEF ChildReports, siteVars, meterVars, controlVars, EnvelopeInv,
         EnvelopeTypes, DeliveredInv, Limits
<1>17. CASE MeterStops
  BY <1>0, <1>3, <1>17
     DEF MeterStops, siteVars, plantVars, meterVars, controlVars, EnvelopeInv,
         EnvelopeTypes, DeliveredInv, Limits
<1>18. CASE MeterReturns
  BY <1>0, <1>2, <1>18
     DEF MeterReturns, siteVars, plantVars, meterVars, controlVars, EnvelopeInv,
         EnvelopeTypes, DeliveredInv, Limits
<1>19. CASE UNCHANGED envelopeVars
  BY <1>0, <1>19
     DEF envelopeVars, siteVars, plantVars, meterVars, controlVars, historyVars,
         EnvelopeInv, EnvelopeTypes, DeliveredInv, Limits
<1> QED
  BY <1>5, <1>6, <1>7, <1>8, <1>9, <1>10, <1>11, <1>12, <1>13, <1>14, <1>15, <1>16,
     <1>17, <1>18, <1>19 DEF EnvelopeNext, TickStep

\* One tick from what the children deliver.
LEMMA TickWithinMeterError ==
  ASSUME EnvelopeConstants, EnvelopeInv, NEW n \in 0..3, Computes(n), Lands(n),
         ~wound, energized, reported, Abs(out) <= capacity, ~GivesUp
  PROVE  /\ ExportExcess(Poi', limit) <= Greater(ExportExcess(Poi, limit), MeterError)
         /\ ImportExcess(Poi', limit) <= Greater(ImportExcess(Poi, limit), MeterError)
<1>0. EnvelopeTypes /\ DeliveredInv /\ out = output
  BY DEF EnvelopeInv, DeliveredInv
<1>1. ~Stale(n)
  BY EnvelopeNumbers DEF Stale, GivesUp, Computes, Lesser
<1>2. PICK v : Reachable(n, v) /\ v <= PowerMax /\ Commands(v)
  BY <1>0, <1>1, ControlsReach DEF Computes
<1>3. v \in Int
  BY <1>2 DEF Reachable
<1>4. /\ output' = Clamp(v, -capacity, capacity)
      /\ out' = output'
  <2>1. /\ output' = Clamp(v, -capacity, capacity)
        /\ output' = Clamp(output', -capacity, capacity)
    BY <1>0, <1>2, <1>3, CommandsRange
  <2> QED
    BY <2>1 DEF Lands, Delivered
<1>5. reading' = Reading(n) /\ reading' \in Int /\ load' = load
  <2>1. n \in Nat
    OBVIOUS
  <2> QED
    BY <1>0, <2>1, ComputesRange DEF Computes, siteVars
<1>6. /\ load \in Int /\ capacity \in Nat /\ out \in Int /\ Far \in Nat
      /\ limit.export \in Nat /\ limit.import \in Nat
      /\ load + capacity <= Far /\ capacity - load <= Far
      /\ ~metered => load = 0
  <2>1. load \in Loads /\ capacity \in Capacities /\ out \in Int /\ (~metered => load = 0)
    BY <1>0 DEF EnvelopeTypes
  <2>2. limit.export \in Nat /\ limit.import \in Nat
    BY <1>0, LimitNumbers
  <2> QED
    BY <2>1, <2>2, EnvelopeNumbers
<1>7. -capacity <= out /\ out <= capacity
  BY <1>6 DEF Abs
<1> DEFINE x == limit.export
           i == limit.import
           p == reading'
<1>8. \/ out' <= out
      \/ x = Far
      \/ metered /\ out' <= out + p + x
      \/ ~metered /\ out' <= x
  BY <1>0, <1>2, <1>3, <1>4, <1>5, <1>6, <1>7 DEF Reachable, MayRise, Clamp
<1>9. \/ out' >= out
      \/ i = Far
      \/ metered /\ out' >= out + p - i
      \/ ~metered /\ out' >= -i
  BY <1>0, <1>2, <1>3, <1>4, <1>5, <1>6, <1>7 DEF Reachable, MayFall, Clamp
<1>10. out' \in Int /\ -capacity <= out' /\ out' <= capacity
  BY <1>3, <1>4, <1>6 DEF Clamp
<1>11. /\ Poi = load - out
       /\ Poi' = load - out'
       /\ MeterError = Abs(p - (load - out))
  BY <1>5 DEF Poi, MeterError
<1> HIDE DEF p, x, i
<1>12. p \in Int /\ x \in Nat /\ i \in Nat
  BY <1>5, <1>6 DEF p, x, i
<1>13. Abs(p - (load - out)) \in Nat /\ p - (load - out) <= Abs(p - (load - out))
       /\ (load - out) - p <= Abs(p - (load - out))
  BY <1>6, <1>12 DEF Abs
<1>14. -(load - out') - x <= Greater(Greater(0, -(load - out) - x), Abs(p - (load - out)))
  BY <1>6, <1>8, <1>10, <1>12, <1>13 DEF Greater
<1>15. (load - out') - i <= Greater(Greater(0, (load - out) - i), Abs(p - (load - out)))
  BY <1>6, <1>9, <1>10, <1>12, <1>13 DEF Greater
<1>16. ExportExcess(Poi', limit) <= Greater(ExportExcess(Poi, limit), MeterError)
  BY <1>6, <1>10, <1>11, <1>12, <1>13, <1>14 DEF ExportExcess, Greater, x
<1>17. ImportExcess(Poi', limit) <= Greater(ImportExcess(Poi, limit), MeterError)
  BY <1>6, <1>10, <1>11, <1>12, <1>13, <1>15 DEF ImportExcess, Greater, i
<1> QED
  BY <1>16, <1>17

\* poi_servo.rs, "it can't overshoot through the lag", for every site, rating and
\* lag: a tick at most three seconds after the one before takes the POI past a
\* limit by no more than it was, or than the meter was wrong by.  (From four
\* seconds on, a limit tightened in the middle of a violation is overshot: the
\* part of the excess the limit made is taken at once, and the rest of it in
\* three tenths a second.)
THEOREM TicksStayWithinMeterError ==
  ASSUME MaxLate <= 3
  PROVE  EnvelopeSpec => StepWithinMeterError
<1> USE EnvelopeAssumptions
<1>1. EnvelopeInit => EnvelopeInv
  BY EnvelopeStarts
<1>2. EnvelopeInv /\ [EnvelopeNext]_envelopeVars => EnvelopeInv'
  BY EnvelopeStep
<1>3. EnvelopeInv /\ [EnvelopeNext]_envelopeVars =>
        [(Tick \/ OffBeat) /\ ~wound /\ energized /\ reported
           /\ Abs(out) <= capacity /\ ~GivesUp =>
          /\ ExportExcess(Poi', limit) <= Greater(ExportExcess(Poi, limit), MeterError)
          /\ ImportExcess(Poi', limit) <= Greater(ImportExcess(Poi, limit), MeterError)
        ]_envelopeVars
  <2> SUFFICES ASSUME EnvelopeInv, Tick \/ OffBeat, ~wound, energized, reported,
                      Abs(out) <= capacity, ~GivesUp
               PROVE  /\ ExportExcess(Poi', limit) <= Greater(ExportExcess(Poi, limit), MeterError)
                      /\ ImportExcess(Poi', limit) <= Greater(ImportExcess(Poi, limit), MeterError)
    OBVIOUS
  <2>1. PICK n \in 0..3 : Computes(n) /\ Lands(n)
    <3>1. CASE Tick
      <4>1. Beat \in 0..3
        BY DEF Beat
      <4> QED
        BY <3>1, <4>1 DEF Tick
    <3>2. CASE OffBeat
      <4>1. MaxLate \in Nat
        BY EnvelopeNumbers
      <4> QED
        BY <3>2, <4>1 DEF OffBeat, TickOffBeat
    <3> QED
      BY <3>1, <3>2
  <2> QED
    BY <2>1, TickWithinMeterError
<1> QED
  BY <1>1, <1>2, <1>3, PTL DEF EnvelopeSpec, StepWithinMeterError

-----------------------------------------------------------------------------
(* No overshoot *)

\* The readings under way, oldest first, and the POI now; the room in each.
Trail == [i \in 1..(Len(meter) + 1) |-> IF i <= Len(meter) THEN meter[i] ELSE Poi]
ExportRooms == [i \in 1..(Len(meter) + 1) |-> Trail[i] + limit.export]
ImportRooms == [i \in 1..(Len(meter) + 1) |-> limit.import - Trail[i]]

\* From one reading to the next the loop takes no more of its room than a quarter
\* with the longest lag, or half with a shorter one: little enough that the room
\* a lagging reading shows is less than ten times what may be taken of it.
Keeps(lag, a, b) == IF lag = 3 THEN 4 * b >= 3 * a ELSE 2 * b >= a
Kept(lag, rooms) == \A i \in 1..lag : rooms[i] >= 0 /\ Keeps(lag, rooms[i], rooms[i + 1])

\* The lags and the lateness that allows.
TunedTo(lag) == lag <= 3 /\ MaxLate <= (IF lag = 3 THEN 1 ELSE 5)

CalmInv ==
    calm =>
        /\ energized /\ ~quiet /\ jumpHold = 0 /\ gate = 0
        /\ TunedTo(Len(meter))
        /\ -capacity <= out /\ out <= capacity
        /\ reported => out = output
        /\ metered /\ limit.export # Far => Kept(Len(meter), ExportRooms) /\ reading + limit.export >= 0
        /\ metered /\ limit.import # Far => Kept(Len(meter), ImportRooms) /\ limit.import - reading >= 0
        /\ ~metered => -limit.import <= out /\ out <= limit.export

\* A product with a number this small.
LEMMA SmallTimes ==
  ASSUME NEW n \in 0..5, NEW r \in Int
  PROVE  \/ n = 0 /\ n * r = 0
         \/ n = 1 /\ n * r = r
         \/ n = 2 /\ n * r = 2 * r
         \/ n = 3 /\ n * r = 3 * r
         \/ n = 4 /\ n * r = 4 * r
         \/ n = 5 /\ n * r = 5 * r
<1>1. n = 0 \/ n = 1 \/ n = 2 \/ n = 3 \/ n = 4 \/ n = 5
  OBVIOUS
<1>2. 0 * r = 0 /\ 1 * r = r
  OBVIOUS
<1> QED
  BY <1>1, <1>2

\* What n tenths of the room read leave of b, the last of two rooms,
LEMMA TakenOfTwo ==
  ASSUME NEW n \in 0..5, NEW r \in Int, NEW h \in Int,
         NEW a \in Int, NEW b \in Int, a >= 0, 2 * b >= a,
         n = 0 \/ (n = 1 /\ r = a) \/ (n \in 2..5 /\ r = b),
         h >= b \/ 10 * (b - h) <= n * r
  PROVE  (n > 0 => r >= 0) /\ 2 * h >= b
<1> DEFINE m == n * r
<1>1. \/ (n = 0 /\ m = 0) \/ (n = 1 /\ m = r) \/ (n = 2 /\ m = 2 * r)
      \/ (n = 3 /\ m = 3 * r) \/ (n = 4 /\ m = 4 * r) \/ (n = 5 /\ m = 5 * r)
  BY SmallTimes
<1>2. h >= b \/ 10 * (b - h) <= m
  OBVIOUS
<1> HIDE DEF m
<1> QED
  BY <1>1, <1>2

\* of c, the last of three,
LEMMA TakenOfThree ==
  ASSUME NEW n \in 0..5, NEW r \in Int, NEW h \in Int,
         NEW a \in Int, NEW b \in Int, NEW c \in Int, a >= 0, 2 * b >= a, 2 * c >= b,
         n = 0 \/ (n = 1 /\ r = a) \/ (n = 2 /\ r = b) \/ (n \in 3..5 /\ r = c),
         h >= c \/ 10 * (c - h) <= n * r
  PROVE  (n > 0 => r >= 0) /\ 2 * h >= c
<1> DEFINE m == n * r
<1>1. \/ (n = 0 /\ m = 0) \/ (n = 1 /\ m = r) \/ (n = 2 /\ m = 2 * r)
      \/ (n = 3 /\ m = 3 * r) \/ (n = 4 /\ m = 4 * r) \/ (n = 5 /\ m = 5 * r)
  BY SmallTimes
<1>2. h >= c \/ 10 * (c - h) <= m
  OBVIOUS
<1> HIDE DEF m
<1> QED
  BY <1>1, <1>2

\* and of d, the last of four, each of them three quarters of the one before.
LEMMA TakenOfFour ==
  ASSUME NEW n \in 0..1, NEW r \in Int, NEW h \in Int,
         NEW a \in Int, NEW b \in Int, NEW c \in Int, NEW d \in Int,
         a >= 0, 4 * b >= 3 * a, 4 * c >= 3 * b, 4 * d >= 3 * c,
         n = 1 => r = a,
         h >= d \/ 10 * (d - h) <= n * r
  PROVE  (n > 0 => r >= 0) /\ 4 * h >= 3 * d
<1>1. n = 0 \/ n = 1
  OBVIOUS
<1>2. 0 * r = 0 /\ 1 * r = r
  OBVIOUS
<1>3. h >= d \/ 10 * (d - h) <= 0 \/ (n = 1 /\ 10 * (d - h) <= a)
  BY <1>1, <1>2
<1> QED
  BY <1>1, <1>3

\* The rooms after a tick with n readings that took no more than n tenths of the
\* room r it read, when there was any: those of Dt(n) seconds later, and h now.
LEMMA RoomsKept ==
  ASSUME NEW lag \in 1..3, NEW n \in 0..5, lag = 3 => n <= 1,
         NEW rooms \in [1..(lag + 1) -> Int], Kept(lag, rooms),
         NEW r \in Int, n > 0 => r = rooms[Lesser(n, lag + 1)],
         NEW h \in Int, h >= rooms[lag + 1] \/ 10 * (rooms[lag + 1] - h) <= n * r,
         NEW new \in [1..(lag + 1) -> Int], new[lag + 1] = h,
         \A i \in 1..lag : new[i] = rooms[Lesser(i + Dt(n), lag + 1)]
  PROVE  /\ Kept(lag, new)
         /\ n > 0 => r >= 0
<1> DEFINE a == rooms[1]
           b == rooms[2]
           c == rooms[3]
           d == rooms[4]
<1>1. CASE lag = 1
  <2>1. a \in Int /\ b \in Int /\ a >= 0 /\ 2 * b >= a
    <3>1. a \in Int /\ b \in Int /\ a >= 0 /\ Keeps(1, a, b)
      BY <1>1 DEF Kept
    <3> QED
      BY <3>1 DEF Keeps
  <2>2. new[1] = b /\ new[2] = h
    BY <1>1 DEF Dt, Greater, Lesser
  <2>3. n = 0 \/ (n = 1 /\ r = a) \/ (n \in 2..5 /\ r = b)
    BY <1>1 DEF Lesser
  <2>4. h >= b \/ 10 * (b - h) <= n * r
    BY <1>1
  <2> HIDE DEF a, b
  <2>5. (n > 0 => r >= 0) /\ 2 * h >= b
    BY <2>1, <2>3, <2>4, TakenOfTwo
  <2>6. b >= 0 /\ Keeps(1, b, h)
    BY <2>1, <2>5 DEF Keeps
  <2> QED
    BY <1>1, <2>2, <2>5, <2>6 DEF Kept
<1>2. CASE lag = 2
  <2>1. a \in Int /\ b \in Int /\ c \in Int /\ a >= 0 /\ 2 * b >= a /\ 2 * c >= b
    <3>1. /\ a \in Int /\ b \in Int /\ c \in Int
          /\ a >= 0 /\ Keeps(2, a, b) /\ Keeps(2, b, c)
      BY <1>2 DEF Kept
    <3> QED
      BY <3>1 DEF Keeps
  <2>2. new[1] = (IF n <= 1 THEN b ELSE c) /\ new[2] = c /\ new[3] = h
    BY <1>2 DEF Dt, Greater, Lesser
  <2>3. n = 0 \/ (n = 1 /\ r = a) \/ (n = 2 /\ r = b) \/ (n \in 3..5 /\ r = c)
    BY <1>2 DEF Lesser
  <2>4. h >= c \/ 10 * (c - h) <= n * r
    BY <1>2
  <2> HIDE DEF a, b, c
  <2>5. (n > 0 => r >= 0) /\ 2 * h >= c
    BY <2>1, <2>3, <2>4, TakenOfThree
  <2>6. b >= 0 /\ Keeps(2, b, c) /\ c >= 0 /\ Keeps(2, c, c) /\ Keeps(2, c, h)
    BY <2>1, <2>5 DEF Keeps
  <2> QED
    BY <1>2, <2>2, <2>5, <2>6 DEF Kept
<1>3. CASE lag = 3
  <2>1. /\ a \in Int /\ b \in Int /\ c \in Int /\ d \in Int
        /\ a >= 0 /\ 4 * b >= 3 * a /\ 4 * c >= 3 * b /\ 4 * d >= 3 * c
    <3>1. /\ a \in Int /\ b \in Int /\ c \in Int /\ d \in Int
          /\ a >= 0 /\ Keeps(3, a, b) /\ Keeps(3, b, c) /\ Keeps(3, c, d)
      BY <1>3 DEF Kept
    <3> QED
      BY <3>1 DEF Keeps
  <2>2. new[1] = b /\ new[2] = c /\ new[3] = d /\ new[4] = h
    BY <1>3 DEF Dt, Greater, Lesser
  <2>3. n \in 0..1 /\ (n = 1 => r = a)
    BY <1>3 DEF Lesser
  <2>4. h >= d \/ 10 * (d - h) <= n * r
    BY <1>3
  <2> HIDE DEF a, b, c, d
  <2>5. (n > 0 => r >= 0) /\ 4 * h >= 3 * d
    BY <2>1, <2>3, <2>4, TakenOfFour
  <2>6. /\ b >= 0 /\ Keeps(3, b, c) /\ c >= 0 /\ Keeps(3, c, d) /\ d >= 0 /\ Keeps(3, d, h)
    BY <2>1, <2>5 DEF Keeps
  <2> QED
    BY <1>3, <2>2, <2>5, <2>6 DEF Kept
<1> QED
  BY <1>1, <1>2, <1>3

\* What a side with room may move by: a tenth of it a second.
LEMMA ApproachStep ==
  ASSUME NEW p \in Int, NEW l \in 0..Far, NEW l0 \in 0..Far, Far \in Nat,
         NEW opposite \in Int, NEW dt \in 0..5, l # Far => p + l >= 0
  PROVE  /\ Step(p, l, l0, opposite, dt) \in Nat
         /\ l # Far => 10 * Step(p, l, l0, opposite, dt) <= dt * (p + l)
<1>1. CASE l = Far
  BY <1>1 DEF Step
<1>2. CASE l # Far
  <2> DEFINE h == p + l
  <2>1. h \in Nat
    BY <1>2
  <2>2. Jump(p, l, l0) = 0
    BY <1>2 DEF Jump, Headroom, Greater, Lesser
  <2>3. Step(p, l, l0, opposite, dt) = Part(h, 1, dt)
    <3>1. Headroom(p, l) = h
      BY <1>2 DEF Headroom
    <3> HIDE DEF h
    <3>2. h + 0 = h /\ h >= 0
      BY <2>1
    <3>3. Rate(h, opposite, dt) = Part(h, 1, dt)
      BY <3>2 DEF Rate
    <3>4. Part(h, 1, dt) \in Int
      <4>1. dt \in Nat
        OBVIOUS
      <4> QED
        BY <2>1, <4>1, PartType
    <3>5. Step(p, l, l0, opposite, dt) = Rate(Headroom(p, l) + Jump(p, l, l0), opposite, dt) - Jump(p, l, l0)
      BY <1>2 DEF Step
    <3> QED
      BY <2>2, <3>1, <3>2, <3>3, <3>4, <3>5
  <2> HIDE DEF h
  <2>4. Part(h, 1, dt) \in Nat /\ 10 * Part(h, 1, dt) <= dt * h
    <3>1. PICK k \in 0..5 : k = dt
      OBVIOUS
    <3>2. h * 1 * k = k * h /\ k * h \in Nat
      BY <2>1
    <3>3. \A x \in Nat : x \div 10 \in Nat /\ 10 * (x \div 10) <= x
      OBVIOUS
    <3> QED
      BY <3>1, <3>2, <3>3 DEF Part
  <2> QED
    BY <2>3, <2>4, <1>2 DEF h
<1> QED
  BY <1>1, <1>2

\* A tick whose reading shows room on both sides uses no more than that of it.
LEMMA ApproachReach ==
  ASSUME EnvelopeConstants, EnvelopeTypes, DeliveredInv, metered, NEW n \in 0..5,
         Controls(n), jumpHold = 0, Taken(n) = 0,
         limit.export # Far => Reading(n) + limit.export >= 0,
         limit.import # Far => limit.import - Reading(n) >= 0
  PROVE  \E v \in Int :
           /\ v <= PowerMax
           /\ Commands(v)
           /\ limit.export # Far =>
                v <= output \/ 10 * (v - output) <= n * (Reading(n) + limit.export)
           /\ limit.import # Far =>
                v >= output \/ 10 * (output - v) <= n * (limit.import - Reading(n))
           /\ ~Bounds(n).jumped
<1> DEFINE p == Reading(n)
           export == Headroom(p, limit.export)
           import == Headroom(-p, limit.import)
           rise == Step(p, limit.export, prev.export, import, n)
           fall == Step(-p, limit.import, prev.import, export, n)
           up == output + rise
           down == output - fall
           t == Target(Bounds(n))
<1>1. /\ limit.export \in 0..Far /\ limit.import \in 0..Far
      /\ prev.export \in 0..Far /\ prev.import \in 0..Far
      /\ Far \in Nat /\ output \in Int
  BY LimitNumbers
<1>2. p \in Int /\ n \in Nat
  <2>1. n \in Nat
    OBVIOUS
  <2> QED
    BY <2>1, ShiftedType
<1>3. export \in Int /\ import \in Int /\ -p \in Int
  BY <1>1, <1>2 DEF Headroom
<1>4. (IF n > 0 /\ jumpHold = 0 THEN n ELSE 0) = n
  OBVIOUS
<1>5. Jump(p, limit.export, prev.export) = 0 /\ Jump(-p, limit.import, prev.import) = 0
  BY <1>1, <1>2 DEF Jump, Headroom, Greater, Lesser
<1>6. rise \in Nat /\ (limit.export # Far => 10 * rise <= n * (p + limit.export))
  BY ONLY <1>1, <1>2, <1>3, n \in 0..5, limit.export # Far => p + limit.export >= 0,
          ApproachStep
<1>7. fall \in Nat /\ (limit.import # Far => 10 * fall <= n * (limit.import - p))
  <2>1. limit.import # Far => -p + limit.import >= 0
    BY <1>1, <1>2
  <2>2. fall \in Nat /\ (limit.import # Far => 10 * fall <= n * (-p + limit.import))
    BY ONLY <1>1, <1>3, <2>1, n \in 0..5, ApproachStep
  <2>3. -p + limit.import = limit.import - p
    BY <1>1, <1>2
  <2> QED
    BY <2>2, <2>3
<1>8. /\ ServoBounds(n).ceiling = up
      /\ ServoBounds(n).floor = down
      /\ ~ServoBounds(n).jumped
  <2> HIDE DEF rise, fall
  <2>1. ~(down > up)
    BY <1>1, <1>6, <1>7
  <2>2. ServoBounds(n).ceiling = up
    BY <1>4, <2>1 DEF ServoBounds, rise, fall
  <2>3. ServoBounds(n).floor = Lesser(down, up)
    BY <1>4, <2>1 DEF ServoBounds, rise, fall
  <2>4. ~ServoBounds(n).jumped
    <3>1. ServoBounds(n).jumped =
            (Jump(p, limit.export, prev.export) > 0 \/ Jump(-p, limit.import, prev.import) > 0)
      BY DEF ServoBounds
    <3> HIDE DEF p
    <3>2. ~(0 > 0)
      OBVIOUS
    <3> QED
      BY <1>5, <3>1, <3>2, Zenon
  <2> QED
    BY <1>1, <1>6, <1>7, <2>1, <2>2, <2>3, <2>4 DEF Lesser
<1> HIDE DEF rise, fall
<1>9. /\ Bounds(n).ceiling = Lesser(up, PowerMax)
      /\ Bounds(n).floor = Lesser(Greater(down, PowerMin), Lesser(up, PowerMax))
      /\ ~Bounds(n).jumped
  BY <1>8 DEF Bounds, ServoBounds
<1>10. t <= up /\ t >= down /\ t \in Int
  <2>1. t \in Int
    BY <1>2, TargetType
  <2>2. Wanted \in Int
    <3>1. RechargePower \in Nat /\ request \in Int
      BY EnvelopeNumbers DEF EnvelopeTypes
    <3> QED
      BY <3>1 DEF Wanted
  <2>3. output <= PowerMax /\ PowerMax \in Nat /\ PowerMin \in Int
    BY EnvelopeNumbers DEF DeliveredInv
  <2>4. t = Clamp(Wanted, Bounds(n).floor, Bounds(n).ceiling)
    BY DEF Target
  <2> HIDE DEF t
  <2> QED
    BY <1>1, <1>6, <1>7, <1>9, <2>1, <2>2, <2>3, <2>4 DEF Clamp, Lesser, Greater
<1>11. PICK v \in Int : Between(v, output, t) /\ Commands(v)
  BY <1>2, ControlsAim
<1>12. t <= PowerMax /\ output <= PowerMax /\ PowerMax \in Nat
  BY <1>2, TargetType, EnvelopeNumbers DEF DeliveredInv
<1> HIDE DEF t
<1>13. v <= PowerMax /\ v <= up /\ v >= down
  BY <1>1, <1>6, <1>7, <1>10, <1>11, <1>12 DEF Between
<1>14. n * (p + limit.export) \in Int /\ n * (limit.import - p) \in Int
  <2>1. p + limit.export \in Int /\ limit.import - p \in Int
    BY <1>1, <1>2
  <2> QED
    BY <2>1, <1>2
<1> DEFINE x == n * (p + limit.export)
           i == n * (limit.import - p)
<1> HIDE DEF x, i, p
<1>15. /\ limit.export # Far => 10 * (v - output) <= x
       /\ limit.import # Far => 10 * (output - v) <= i
  BY <1>1, <1>6, <1>7, <1>13, <1>14 DEF x, i
<1> QED
  BY <1>9, <1>11, <1>13, <1>15 DEF x, i, p

\* The trail is made of numbers, and a tick moves it on.
LEMMA TrailType ==
  ASSUME EnvelopeConstants, EnvelopeTypes
  PROVE  /\ Len(meter) \in Nat /\ Len(meter) >= 1 /\ Poi \in Int
         /\ Trail \in [1..(Len(meter) + 1) -> Int]
         /\ Trail[Len(meter) + 1] = Poi
<1>1. load \in Int /\ out \in Int /\ meter \in Seq(Int)
  BY EnvelopeNumbers DEF EnvelopeTypes
<1>2. Poi \in Int /\ Len(meter) \in Nat /\ Len(meter) >= 1
  BY <1>1 DEF Poi, EnvelopeTypes
<1>3. \A i \in 1..(Len(meter) + 1) : i <= Len(meter) => meter[i] \in Int
  BY <1>1, <1>2
<1> HIDE DEF Poi
<1>4. \A i \in 1..(Len(meter) + 1) : (IF i <= Len(meter) THEN meter[i] ELSE Poi) \in Int
  BY <1>2, <1>3
<1>5. Trail \in [1..(Len(meter) + 1) -> Int]
  BY <1>4 DEF Trail
<1>6. Len(meter) + 1 \in 1..(Len(meter) + 1) /\ ~(Len(meter) + 1 <= Len(meter))
  BY <1>2
<1> QED
  BY <1>2, <1>5, <1>6 DEF Trail

LEMMA TrailMoves ==
  ASSUME EnvelopeConstants, EnvelopeTypes, EnvelopeTypes', NEW n \in Nat, Computes(n)
  PROVE  /\ Len(meter') = Len(meter)
         /\ Trail' \in [1..(Len(meter) + 1) -> Int]
         /\ Trail'[Len(meter) + 1] = Poi'
         /\ \A i \in 1..Len(meter) : Trail'[i] = Trail[Lesser(i + Dt(n), Len(meter) + 1)]
         /\ n > 0 => Reading(n) = Trail[Lesser(n, Len(meter) + 1)]
<1>1. Dt(n) \in Nat /\ Dt(n) >= 1
  BY DEF Dt, Greater
<1>2. /\ meter' = Shifted(Dt(n))
      /\ Len(meter') = Len(meter)
      /\ \A i \in 1..Len(meter) :
           meter'[i] = IF i + Dt(n) <= Len(meter) THEN meter[i + Dt(n)] ELSE Poi
  BY <1>1, ShiftedType DEF Computes
<1>3. Len(meter) \in Nat /\ Len(meter) >= 1
  BY TrailType
<1>4. Poi' \in Int
  <2>1. load' \in Loads /\ out' \in Int /\ Loads \subseteq Int
    BY EnvelopeNumbers DEF EnvelopeTypes
  <2>2. load' \in Int
    BY <2>1
  <2> QED
    BY <2>1, <2>2 DEF Poi
<1> HIDE DEF Poi
<1>5. \A i \in 1..(Len(meter) + 1) : Trail[i] = IF i <= Len(meter) THEN meter[i] ELSE Poi
  BY DEF Trail
<1>6. Trail' = [i \in 1..(Len(meter) + 1) |-> IF i <= Len(meter) THEN meter'[i] ELSE Poi']
  BY <1>2 DEF Trail
<1>7. Trail'[Len(meter) + 1] = Poi'
  <2>1. Len(meter) + 1 \in 1..(Len(meter) + 1) /\ ~(Len(meter) + 1 <= Len(meter))
    BY <1>3
  <2> QED
    BY <1>6, <2>1
<1>8. \A i \in 1..Len(meter) : meter'[i] \in Int
  <2>1. meter' \in Seq(Int)
    BY DEF EnvelopeTypes
  <2> QED
    BY <1>2, <2>1
<1>9. Trail' \in [1..(Len(meter) + 1) -> Int]
  <2>1. \A i \in 1..(Len(meter) + 1) : (IF i <= Len(meter) THEN meter'[i] ELSE Poi') \in Int
    BY <1>3, <1>4, <1>8
  <2> QED
    BY <1>6, <2>1
<1>10. ASSUME NEW i \in 1..Len(meter)
       PROVE  Trail'[i] = Trail[Lesser(i + Dt(n), Len(meter) + 1)]
  <2>1. Trail'[i] = meter'[i]
    BY <1>3, <1>6
  <2>2. CASE i + Dt(n) <= Len(meter)
    <3>1. Lesser(i + Dt(n), Len(meter) + 1) = i + Dt(n) /\ i + Dt(n) \in 1..(Len(meter) + 1)
      BY <1>1, <1>3, <2>2 DEF Lesser
    <3> QED
      BY <1>2, <1>5, <2>1, <2>2, <3>1
  <2>3. CASE ~(i + Dt(n) <= Len(meter))
    <3>1. /\ Lesser(i + Dt(n), Len(meter) + 1) = Len(meter) + 1
          /\ Len(meter) + 1 \in 1..(Len(meter) + 1) /\ ~(Len(meter) + 1 <= Len(meter))
      BY <1>1, <1>3, <2>3 DEF Lesser
    <3> QED
      BY <1>2, <1>5, <2>1, <2>3, <3>1
  <2> QED
    BY <2>2, <2>3
<1>11. ASSUME n > 0 PROVE Reading(n) = Trail[Lesser(n, Len(meter) + 1)]
  <2>1. Reading(n) = IF n <= Len(meter) THEN meter[n] ELSE Poi
    BY <1>11, ShiftedType
  <2>2. CASE n <= Len(meter)
    <3>1. Lesser(n, Len(meter) + 1) = n /\ n \in 1..(Len(meter) + 1)
      BY <1>3, <1>11, <2>2 DEF Lesser
    <3> QED
      BY <1>5, <2>1, <2>2, <3>1
  <2>3. CASE ~(n <= Len(meter))
    <3>1. /\ Lesser(n, Len(meter) + 1) = Len(meter) + 1
          /\ Len(meter) + 1 \in 1..(Len(meter) + 1) /\ ~(Len(meter) + 1 <= Len(meter))
      BY <1>3, <2>3 DEF Lesser
    <3> QED
      BY <1>5, <2>1, <2>3, <3>1
  <2> QED
    BY <2>2, <2>3
<1> QED
  BY <1>2, <1>7, <1>9, <1>10, <1>11

\* What lands of an output on its way up, or down, from what is delivered.
LEMMA CalmLands ==
  ASSUME EnvelopeConstants, EnvelopeTypes, CalmInv, calm, NEW n \in Nat, Lands(n),
         NEW v \in Int, Commands(v)
  PROVE  /\ -capacity <= out' /\ out' <= capacity
         /\ reported => out' = output'
         /\ out' <= out \/ (out = output /\ out' <= v)
         /\ out' >= out \/ (out = output /\ out' >= v)
         /\ gate' = 0
<1>1. capacity \in Nat /\ out \in Int /\ output \in Int
  BY EnvelopeNumbers DEF EnvelopeTypes
<1>2. energized /\ -capacity <= out /\ out <= capacity /\ (reported => out = output) /\ gate = 0
  BY DEF CalmInv
<1>3. Taken(n) = 0
  BY <1>2 DEF Taken
<1>4. gate' = 0
  BY <1>3 DEF Lands
<1>5. CASE reported
  <2>1. output' = Clamp(v, -capacity, capacity)
    BY <1>2, <1>5 DEF Commands
  <2>2. out' = Clamp(output', -capacity, capacity)
    BY <1>2, <1>5 DEF Lands, Delivered
  <2>3. out' = output'
    BY <1>1, <2>1, <2>2 DEF Clamp
  <2> QED
    BY <1>1, <1>2, <1>4, <1>5, <2>1, <2>3 DEF Clamp
<1>6. CASE ~reported
  BY <1>1, <1>2, <1>4, <1>6 DEF Lands
<1> QED
  BY <1>5, <1>6

\* Without a meter what lands is within the limits.
LEMMA CalmTickDirect ==
  ASSUME EnvelopeConstants, EnvelopeInv, CalmInv, calm, ~metered, NEW n \in Nat,
         Computes(n), Lands(n)
  PROVE  CalmInv'
<1>0. EnvelopeTypes /\ DeliveredInv
  BY DEF EnvelopeInv
<1> DEFINE t == Target(Bounds(n))
           c == Lesser(limit.export, PowerMax)
           f == Lesser(Greater(-limit.import, PowerMin), c)
<1>1. Controls(n)
  BY DEF Computes, Stale
<1>2. limit.export \in Nat /\ limit.import \in Nat
  BY <1>0, LimitNumbers
<1>3. Bounds(n).ceiling = c /\ Bounds(n).floor = f /\ ~Bounds(n).jumped
  BY DEF Bounds, DirectBounds
<1>4. t = Clamp(Wanted, f, c)
  BY <1>3 DEF Target
<1>5. t \in Int
  BY <1>0, TargetType
<1>6. PowerMax \in Nat /\ PowerMin \in Int /\ -PowerMin \in Nat /\ Wanted \in Int
  <2>1. RechargePower \in Nat /\ request \in Int
    BY <1>0, EnvelopeNumbers DEF EnvelopeTypes
  <2> QED
    BY <2>1, EnvelopeNumbers DEF Wanted
<1>7. -limit.import <= t /\ t <= limit.export
  <2> HIDE DEF t
  <2> QED
    BY <1>2, <1>4, <1>5, <1>6 DEF Clamp, Lesser, Greater
<1>8. PICK v \in Int : Between(v, output, t) /\ Commands(v)
  BY <1>0, <1>1, ControlsAim
<1>9. /\ -capacity <= out' /\ out' <= capacity
      /\ reported => out' = output'
      /\ out' <= out \/ (out = output /\ out' <= v)
      /\ out' >= out \/ (out = output /\ out' >= v)
      /\ gate' = 0
  BY <1>0, <1>8, CalmLands
<1>10. -limit.import <= out /\ out <= limit.export
  BY DEF CalmInv
<1>11. out \in Int /\ output \in Int /\ out' \in Int
  <2>1. output' \in Int
    BY <1>0, ComputesRange
  <2> QED
    BY <1>0, <2>1, DeliveredType DEF EnvelopeTypes, Lands
<1> HIDE DEF t
<1>12. -limit.import <= out' /\ out' <= limit.export
  BY <1>2, <1>5, <1>7, <1>8, <1>9, <1>10, <1>11 DEF Between
<1>13. jumpHold' = 0
  <2>1. jumpHold = 0
    BY DEF CalmInv
  <2> QED
    BY <1>1, <1>3, <2>1 DEF Controls
<1>14. UNCHANGED <<limit, energized, capacity, reported, metered, quiet>>
  BY DEF Computes, siteVars, plantVars
<1>15. TunedTo(Len(meter'))
  <2>1. Dt(n) \in Nat
    BY DEF Dt, Greater
  <2>2. Len(meter') = Len(meter)
    BY <1>0, <2>1, ShiftedType DEF Computes
  <2> QED
    BY <2>2 DEF CalmInv
<1>16. energized /\ ~quiet
  BY DEF CalmInv
<1> QED
  BY <1>9, <1>12, <1>13, <1>14, <1>15, <1>16 DEF CalmInv, TunedTo

\* With a meter, the room to the export limit is kept by what lands,
LEMMA ExportKept ==
  ASSUME EnvelopeConstants, EnvelopeTypes, EnvelopeTypes', CalmInv, calm, metered,
         limit.export # Far, NEW n \in 0..5, Len(meter) = 3 => n <= 1, Computes(n),
         out' <= out \/ 10 * (out' - out) <= n * (Reading(n) + limit.export)
  PROVE  Kept(Len(meter), ExportRooms)' /\ (reading + limit.export >= 0)'
<1> DEFINE lag == Len(meter)
           rooms == ExportRooms
           new == ExportRooms'
           r == Reading(n) + limit.export
           h == Poi' + limit.export
<1>1. n \in Nat
  OBVIOUS
<1>2. /\ Len(meter') = lag
      /\ Trail' \in [1..(lag + 1) -> Int]
      /\ Trail'[lag + 1] = Poi'
      /\ \A i \in 1..lag : Trail'[i] = Trail[Lesser(i + Dt(n), lag + 1)]
      /\ n > 0 => Reading(n) = Trail[Lesser(n, lag + 1)]
  BY <1>1, TrailMoves
<1>3. lag \in Nat /\ lag >= 1 /\ Poi \in Int /\ Trail \in [1..(lag + 1) -> Int] /\ Trail[lag + 1] = Poi
  BY TrailType
<1>4. Reading(n) \in Int
  BY <1>1, ShiftedType
<1>5. limit' = limit /\ load' = load /\ limit.export \in Int
  BY LimitNumbers DEF Computes, siteVars
<1>6. lag \in 1..3
  <2>1. TunedTo(lag)
    BY DEF CalmInv
  <2>2. lag <= 3
    BY <2>1 DEF TunedTo
  <2> HIDE DEF lag
  <2> QED
    BY <1>3, <2>2
<1>7. rooms = [i \in 1..(lag + 1) |-> Trail[i] + limit.export]
  BY DEF ExportRooms
<1>8. new = [i \in 1..(lag + 1) |-> Trail'[i] + limit.export]
  BY <1>2, <1>5 DEF ExportRooms
<1>9. out \in Int /\ out' \in Int /\ load \in Int
  BY EnvelopeNumbers DEF EnvelopeTypes
<1>10. Poi' \in Int /\ Poi - Poi' = out' - out
  BY <1>5, <1>9 DEF Poi
<1>11. Kept(lag, rooms) /\ reading + limit.export >= 0
  BY DEF CalmInv
<1>12. r \in Int /\ h \in Int
  BY <1>4, <1>5, <1>10
<1>13. lag + 1 \in 1..(lag + 1) /\ \A k \in Nat : k >= 1 => Lesser(k, lag + 1) \in 1..(lag + 1)
  BY <1>6 DEF Lesser
<1> HIDE DEF lag
<1>14. rooms \in [1..(lag + 1) -> Int] /\ new \in [1..(lag + 1) -> Int]
  <2>1. \A i \in 1..(lag + 1) : Trail[i] + limit.export \in Int /\ Trail'[i] + limit.export \in Int
    BY <1>2, <1>3, <1>5
  <2> HIDE DEF rooms, new
  <2> QED
    BY <1>7, <1>8, <2>1
<1>15. rooms[lag + 1] = Poi + limit.export /\ new[lag + 1] = h
  BY <1>2, <1>3, <1>7, <1>8, <1>13
<1>16. \A i \in 1..lag : new[i] = rooms[Lesser(i + Dt(n), lag + 1)]
  <2> SUFFICES ASSUME NEW i \in 1..lag PROVE new[i] = rooms[Lesser(i + Dt(n), lag + 1)]
    OBVIOUS
  <2>1. i + Dt(n) \in Nat /\ i + Dt(n) >= 1 /\ i \in 1..(lag + 1)
    BY <1>1, <1>6 DEF Dt, Greater
  <2>2. Lesser(i + Dt(n), lag + 1) \in 1..(lag + 1)
    BY <1>13, <2>1
  <2> QED
    BY <1>2, <1>7, <1>8, <2>1, <2>2
<1>17. n > 0 => r = rooms[Lesser(n, lag + 1)]
  <2>1. n > 0 => Lesser(n, lag + 1) \in 1..(lag + 1)
    BY <1>1, <1>13
  <2> QED
    BY <1>2, <1>7, <2>1
<1>18. h >= rooms[lag + 1] \/ 10 * (rooms[lag + 1] - h) <= n * r
  <2>1. rooms[lag + 1] - h = out' - out
    BY <1>5, <1>9, <1>10, <1>12, <1>15, <1>3
  <2>2. out' <= out => h >= rooms[lag + 1]
    BY <1>3, <1>5, <1>9, <1>10, <1>15
  <2> QED
    BY <2>1, <2>2
<1>19. lag = 3 => n <= 1
  BY DEF lag
<1> HIDE DEF rooms, new, r, h
<1>20. Kept(lag, new) /\ (n > 0 => r >= 0)
  BY ONLY <1>6, <1>11, <1>12, <1>14, <1>15, <1>16, <1>17, <1>18, <1>19, n \in 0..5, RoomsKept
<1>21. r >= 0
  <2>1. n = 0 => Reading(n) = reading
    BY DEF Reading
  <2>2. n = 0 => r >= 0
    BY <1>11, <2>1 DEF r
  <2> QED
    BY <1>1, <1>20, <2>2
<1>22. reading' = Reading(n)
  BY DEF Computes
<1> QED
  BY <1>2, <1>5, <1>20, <1>21, <1>22 DEF new, lag, r, Kept

\* and so is the room to the import limit.
LEMMA ImportKept ==
  ASSUME EnvelopeConstants, EnvelopeTypes, EnvelopeTypes', CalmInv, calm, metered,
         limit.import # Far, NEW n \in 0..5, Len(meter) = 3 => n <= 1, Computes(n),
         out' >= out \/ 10 * (out - out') <= n * (limit.import - Reading(n))
  PROVE  Kept(Len(meter), ImportRooms)' /\ (limit.import - reading >= 0)'
<1> DEFINE lag == Len(meter)
           rooms == ImportRooms
           new == ImportRooms'
           r == limit.import - Reading(n)
           h == limit.import - Poi'
<1>1. n \in Nat
  OBVIOUS
<1>2. /\ Len(meter') = lag
      /\ Trail' \in [1..(lag + 1) -> Int]
      /\ Trail'[lag + 1] = Poi'
      /\ \A i \in 1..lag : Trail'[i] = Trail[Lesser(i + Dt(n), lag + 1)]
      /\ n > 0 => Reading(n) = Trail[Lesser(n, lag + 1)]
  BY <1>1, TrailMoves
<1>3. lag \in Nat /\ lag >= 1 /\ Poi \in Int /\ Trail \in [1..(lag + 1) -> Int] /\ Trail[lag + 1] = Poi
  BY TrailType
<1>4. Reading(n) \in Int
  BY <1>1, ShiftedType
<1>5. limit' = limit /\ load' = load /\ limit.import \in Int
  BY LimitNumbers DEF Computes, siteVars
<1>6. lag \in 1..3
  <2>1. TunedTo(lag)
    BY DEF CalmInv
  <2>2. lag <= 3
    BY <2>1 DEF TunedTo
  <2> HIDE DEF lag
  <2> QED
    BY <1>3, <2>2
<1>7. rooms = [i \in 1..(lag + 1) |-> limit.import - Trail[i]]
  BY DEF ImportRooms
<1>8. new = [i \in 1..(lag + 1) |-> limit.import - Trail'[i]]
  BY <1>2, <1>5 DEF ImportRooms
<1>9. out \in Int /\ out' \in Int /\ load \in Int
  BY EnvelopeNumbers DEF EnvelopeTypes
<1>10. Poi' \in Int /\ Poi - Poi' = out' - out
  BY <1>5, <1>9 DEF Poi
<1>11. Kept(lag, rooms) /\ limit.import - reading >= 0
  BY DEF CalmInv
<1>12. r \in Int /\ h \in Int
  BY <1>4, <1>5, <1>10
<1>13. lag + 1 \in 1..(lag + 1) /\ \A k \in Nat : k >= 1 => Lesser(k, lag + 1) \in 1..(lag + 1)
  BY <1>6 DEF Lesser
<1> HIDE DEF lag
<1>14. rooms \in [1..(lag + 1) -> Int] /\ new \in [1..(lag + 1) -> Int]
  <2>1. \A i \in 1..(lag + 1) : limit.import - Trail[i] \in Int /\ limit.import - Trail'[i] \in Int
    BY <1>2, <1>3, <1>5
  <2> HIDE DEF rooms, new
  <2> QED
    BY <1>7, <1>8, <2>1
<1>15. rooms[lag + 1] = limit.import - Poi /\ new[lag + 1] = h
  BY <1>2, <1>3, <1>7, <1>8, <1>13
<1>16. \A i \in 1..lag : new[i] = rooms[Lesser(i + Dt(n), lag + 1)]
  <2> SUFFICES ASSUME NEW i \in 1..lag PROVE new[i] = rooms[Lesser(i + Dt(n), lag + 1)]
    OBVIOUS
  <2>1. i + Dt(n) \in Nat /\ i + Dt(n) >= 1 /\ i \in 1..(lag + 1)
    BY <1>1, <1>6 DEF Dt, Greater
  <2>2. Lesser(i + Dt(n), lag + 1) \in 1..(lag + 1)
    BY <1>13, <2>1
  <2> QED
    BY <1>2, <1>7, <1>8, <2>1, <2>2
<1>17. n > 0 => r = rooms[Lesser(n, lag + 1)]
  <2>1. n > 0 => Lesser(n, lag + 1) \in 1..(lag + 1)
    BY <1>1, <1>13
  <2> QED
    BY <1>2, <1>7, <2>1
<1>18. h >= rooms[lag + 1] \/ 10 * (rooms[lag + 1] - h) <= n * r
  <2>1. rooms[lag + 1] - h = out - out'
    <3>1. rooms[lag + 1] = limit.import - Poi
      BY <1>15
    <3>2. \A l, a, b \in Int : (l - a) - (l - b) = b - a
      OBVIOUS
    <3>3. Poi' - Poi = out - out'
      BY <1>3, <1>9, <1>10
    <3> HIDE DEF rooms
    <3> QED
      BY ONLY <1>3, <1>5, <1>10, <3>1, <3>2, <3>3 DEF h
  <2>2. out' >= out => h >= rooms[lag + 1]
    BY <1>3, <1>5, <1>9, <1>10, <1>15
  <2> QED
    BY <2>1, <2>2
<1>19. lag = 3 => n <= 1
  BY DEF lag
<1> HIDE DEF rooms, new, r, h
<1>20. Kept(lag, new) /\ (n > 0 => r >= 0)
  BY ONLY <1>6, <1>11, <1>12, <1>14, <1>15, <1>16, <1>17, <1>18, <1>19, n \in 0..5, RoomsKept
<1>21. r >= 0
  <2>1. n = 0 => Reading(n) = reading
    BY DEF Reading
  <2>2. n = 0 => r >= 0
    BY <1>11, <2>1 DEF r
  <2> QED
    BY <1>1, <1>20, <2>2
<1>22. reading' = Reading(n)
  BY DEF Computes
<1> QED
  BY <1>2, <1>5, <1>20, <1>21, <1>22 DEF new, lag, r, Kept

\* None of the rooms is used up.
LEMMA RoomsLeft ==
  ASSUME NEW lag \in 1..3, NEW rooms \in [1..(lag + 1) -> Int], Kept(lag, rooms)
  PROVE  \A i \in 1..(lag + 1) : rooms[i] >= 0
<1>1. \A i \in 1..lag : rooms[i] >= 0
  BY DEF Kept
<1>2. rooms[lag] >= 0 /\ Keeps(lag, rooms[lag], rooms[lag + 1])
  BY DEF Kept
<1>3. rooms[lag] \in Int /\ rooms[lag + 1] \in Int
  OBVIOUS
<1> DEFINE a == rooms[lag]
           b == rooms[lag + 1]
<1> HIDE DEF a, b
<1>4. b >= 0
  <2>1. a \in Int /\ b \in Int /\ a >= 0 /\ (4 * b >= 3 * a \/ 2 * b >= a)
    BY <1>2, <1>3 DEF Keeps, a, b
  <2> QED
    BY <2>1
<1>5. \A i \in 1..(lag + 1) : i \in 1..lag \/ i = lag + 1
  OBVIOUS
<1> QED
  BY <1>1, <1>4, <1>5 DEF b

\* There is room in what the tick reads, and in what there is.
LEMMA ReadingRoom ==
  ASSUME EnvelopeConstants, EnvelopeTypes, CalmInv, calm, metered, NEW n \in Nat
  PROVE  /\ limit.export # Far => Reading(n) + limit.export >= 0 /\ Poi + limit.export >= 0
         /\ limit.import # Far => limit.import - Reading(n) >= 0 /\ limit.import - Poi >= 0
<1> DEFINE lag == Len(meter)
<1>1. lag \in Nat /\ lag >= 1 /\ Poi \in Int /\ Trail \in [1..(lag + 1) -> Int] /\ Trail[lag + 1] = Poi
  BY TrailType
<1>2. lag \in 1..3
  <2>1. TunedTo(lag)
    BY DEF CalmInv
  <2>2. lag <= 3
    BY <2>1 DEF TunedTo
  <2> HIDE DEF lag
  <2> QED
    BY <1>1, <2>2
<1>3. limit.export \in Int /\ limit.import \in Int
  BY LimitNumbers
<1>4. \A i \in 1..(lag + 1) : Trail[i] + limit.export \in Int /\ limit.import - Trail[i] \in Int
  BY <1>1, <1>3
<1>5. /\ ExportRooms = [i \in 1..(lag + 1) |-> Trail[i] + limit.export]
      /\ ImportRooms = [i \in 1..(lag + 1) |-> limit.import - Trail[i]]
  BY DEF ExportRooms, ImportRooms
<1>6. /\ limit.export # Far => Kept(lag, ExportRooms) /\ reading + limit.export >= 0
      /\ limit.import # Far => Kept(lag, ImportRooms) /\ limit.import - reading >= 0
  BY DEF CalmInv
<1>7. Reading(n) = reading \/ \E i \in 1..(lag + 1) : Reading(n) = Trail[i]
  <2>1. CASE n = 0
    BY <2>1 DEF Reading
  <2>2. CASE n > 0 /\ n <= lag
    <3>1. Reading(n) = meter[n]
      BY <2>2, ShiftedType
    <3>2. n \in 1..(lag + 1) /\ n <= lag
      BY <1>1, <2>2
    <3>3. Trail[n] = meter[n]
      BY <3>2 DEF Trail
    <3> QED
      BY <3>1, <3>2, <3>3
  <2>3. CASE n > 0 /\ ~(n <= lag)
    <3>1. Reading(n) = Poi
      BY <2>3, ShiftedType
    <3>2. lag + 1 \in 1..(lag + 1)
      BY <1>1
    <3> QED
      BY <1>1, <3>1, <3>2
  <2> QED
    BY <2>1, <2>2, <2>3
<1> HIDE DEF lag
<1>8. ExportRooms \in [1..(lag + 1) -> Int] /\ ImportRooms \in [1..(lag + 1) -> Int]
  BY <1>4, <1>5
<1>9. limit.export # Far => \A i \in 1..(lag + 1) : Trail[i] + limit.export >= 0
  <2>1. limit.export # Far => \A i \in 1..(lag + 1) : ExportRooms[i] >= 0
    BY ONLY <1>2, <1>6, <1>8, RoomsLeft
  <2> QED
    BY <1>5, <2>1
<1>10. limit.import # Far => \A i \in 1..(lag + 1) : limit.import - Trail[i] >= 0
  <2>1. limit.import # Far => \A i \in 1..(lag + 1) : ImportRooms[i] >= 0
    BY ONLY <1>2, <1>6, <1>8, RoomsLeft
  <2> QED
    BY <1>5, <2>1
<1>11. lag + 1 \in 1..(lag + 1)
  BY <1>2
<1> QED
  BY <1>1, <1>6, <1>7, <1>9, <1>10, <1>11

\* What lands takes no more room than what was set, either way.
LEMMA LandedTakes ==
  ASSUME NEW a \in Int, NEW b \in Int, NEW o \in Int, NEW v \in Int, NEW x \in Int
  PROVE  /\ /\ v <= o \/ 10 * (v - o) <= x
            /\ b <= a \/ (a = o /\ b <= v)
            => b <= a \/ 10 * (b - a) <= x
         /\ /\ v >= o \/ 10 * (o - v) <= x
            /\ b >= a \/ (a = o /\ b >= v)
            => b >= a \/ 10 * (a - b) <= x
OBVIOUS

\* With a meter, a tick keeps to the room it read.
LEMMA CalmTickMetered ==
  ASSUME EnvelopeConstants, EnvelopeInv, EnvelopeInv', CalmInv, calm, metered,
         NEW n \in 0..5, Len(meter) = 3 => n <= 1, Computes(n), Lands(n), ~Stale(n)
  PROVE  CalmInv'
<1>0. EnvelopeTypes /\ DeliveredInv /\ EnvelopeTypes' /\ n \in Nat
  BY DEF EnvelopeInv
<1>1. Controls(n)
  BY DEF Computes
<1>2. jumpHold = 0 /\ Taken(n) = 0 /\ energized /\ ~quiet /\ TunedTo(Len(meter))
  BY DEF CalmInv, Taken
<1>3. /\ limit.export # Far => Reading(n) + limit.export >= 0
      /\ limit.import # Far => limit.import - Reading(n) >= 0
  BY <1>0, ReadingRoom
<1>4. PICK v \in Int :
           /\ Commands(v)
           /\ limit.export # Far =>
                v <= output \/ 10 * (v - output) <= n * (Reading(n) + limit.export)
           /\ limit.import # Far =>
                v >= output \/ 10 * (output - v) <= n * (limit.import - Reading(n))
           /\ ~Bounds(n).jumped
  BY <1>0, <1>1, <1>2, <1>3, ApproachReach
<1>5. /\ -capacity <= out' /\ out' <= capacity
      /\ reported => out' = output'
      /\ out' <= out \/ (out = output /\ out' <= v)
      /\ out' >= out \/ (out = output /\ out' >= v)
      /\ gate' = 0
  BY <1>0, <1>4, CalmLands
<1>6. out \in Int /\ output \in Int /\ out' \in Int
  BY <1>0 DEF EnvelopeTypes
<1>7. n * (Reading(n) + limit.export) \in Int /\ n * (limit.import - Reading(n)) \in Int
  <2>1. Reading(n) \in Int
    BY <1>0, ShiftedType
  <2>0. limit.export \in Int /\ limit.import \in Int
    BY <1>0, LimitNumbers
  <2>2. Reading(n) + limit.export \in Int /\ limit.import - Reading(n) \in Int
    BY <2>0, <2>1
  <2> QED
    BY <1>0, <2>2
<1>8. limit.export # Far =>
        out' <= out \/ 10 * (out' - out) <= n * (Reading(n) + limit.export)
  <2> DEFINE x == n * (Reading(n) + limit.export)
  <2> HIDE DEF x
  <2>1. x \in Int /\ (limit.export # Far => v <= output \/ 10 * (v - output) <= x)
    BY <1>4, <1>7 DEF x
  <2>2. ASSUME limit.export # Far PROVE out' <= out \/ 10 * (out' - out) <= x
    <3>1. v <= output \/ 10 * (v - output) <= x
      BY <2>1, <2>2
    <3>2. out' <= out \/ (out = output /\ out' <= v)
      BY <1>5
    <3> QED
      BY ONLY <1>6, <2>1, <3>1, <3>2, v \in Int, LandedTakes
  <2> QED
    BY <2>2 DEF x
<1>9. limit.import # Far =>
        out' >= out \/ 10 * (out - out') <= n * (limit.import - Reading(n))
  <2> DEFINE x == n * (limit.import - Reading(n))
  <2> HIDE DEF x
  <2>1. x \in Int /\ (limit.import # Far => v >= output \/ 10 * (output - v) <= x)
    BY <1>4, <1>7 DEF x
  <2>2. ASSUME limit.import # Far PROVE out' >= out \/ 10 * (out - out') <= x
    <3>1. v >= output \/ 10 * (output - v) <= x
      BY <2>1, <2>2
    <3>2. out' >= out \/ (out = output /\ out' >= v)
      BY <1>5
    <3> QED
      BY ONLY <1>6, <2>1, <3>1, <3>2, v \in Int, LandedTakes
  <2> QED
    BY <2>2 DEF x
<1>10. limit.export # Far => Kept(Len(meter), ExportRooms)' /\ (reading + limit.export >= 0)'
  BY <1>0, <1>8, ExportKept
<1>11. limit.import # Far => Kept(Len(meter), ImportRooms)' /\ (limit.import - reading >= 0)'
  BY <1>0, <1>9, ImportKept
<1>12. jumpHold' = 0
  BY <1>1, <1>2, <1>4 DEF Controls
<1>13. UNCHANGED <<limit, energized, capacity, reported, metered, quiet>>
  BY DEF Computes, siteVars, plantVars
<1>14. TunedTo(Len(meter'))
  <2>1. Len(meter') = Len(meter)
    BY <1>0, TrailMoves
  <2> QED
    BY <1>2, <2>1
<1> QED
  BY <1>2, <1>5, <1>10, <1>11, <1>12, <1>13, <1>14 DEF CalmInv, TunedTo

\* At rest the trail is all one reading, and within the limits.
LEMMA CalmStarts ==
  ASSUME EnvelopeConstants, EnvelopeInit, \A lag \in Lags : TunedTo(lag)
  PROVE  CalmInv
<1>0. EnvelopeTypes
  BY EnvelopeStarts DEF EnvelopeInv
<1>1. PICK lag \in Lags : meter = [i \in 1..lag |-> Poi]
  BY DEF EnvelopeInit
<1>2. lag \in Nat /\ lag >= 1 /\ TunedTo(lag)
  BY EnvelopeNumbers
<1>3. Len(meter) = lag /\ \A i \in 1..lag : meter[i] = Poi
  BY <1>1, <1>2
<1>4. Poi \in Int /\ reading = Poi /\ out = 0 /\ output = 0 /\ capacity \in Nat
  BY <1>0, TrailType, EnvelopeNumbers DEF EnvelopeInit
<1>5. limit.export \in Nat /\ limit.import \in Nat
  BY <1>0, LimitNumbers
<1>6. Poi + limit.export >= 0 /\ limit.import - Poi >= 0
  <2>1. ImportExcess(Poi, limit) = 0 /\ ExportExcess(Poi, limit) = 0
    BY DEF EnvelopeInit
  <2> HIDE DEF Poi
  <2> QED
    BY <1>4, <1>5, <2>1 DEF ImportExcess, ExportExcess, Greater
<1> HIDE DEF Poi
<1>7. \A i \in 1..(lag + 1) : Trail[i] = Poi
  BY <1>2, <1>3 DEF Trail
<1>8. /\ \A i \in 1..(lag + 1) : ExportRooms[i] = Poi + limit.export
      /\ \A i \in 1..(lag + 1) : ImportRooms[i] = limit.import - Poi
  BY <1>3, <1>7 DEF ExportRooms, ImportRooms
<1>9. \A x \in Int : x >= 0 => Keeps(lag, x, x)
  BY DEF Keeps
<1>10. Kept(lag, ExportRooms) /\ Kept(lag, ImportRooms)
  <2>1. Poi + limit.export \in Int /\ limit.import - Poi \in Int
    BY <1>4, <1>5
  <2>2. \A i \in 1..lag : i \in 1..(lag + 1) /\ i + 1 \in 1..(lag + 1)
    BY <1>2
  <2> QED
    BY <1>6, <1>8, <1>9, <2>1, <2>2 DEF Kept
<1>11. energized /\ ~quiet /\ jumpHold = 0 /\ gate = 0
  BY DEF EnvelopeInit
<1>12. -capacity <= out /\ out <= capacity /\ -limit.import <= out /\ out <= limit.export
  BY <1>4, <1>5
<1> QED
  BY <1>2, <1>3, <1>4, <1>6, <1>10, <1>11, <1>12 DEF CalmInv

\* What a step that only changes requests leaves of it.
LEMMA CalmStutter ==
  ASSUME CalmInv,
         UNCHANGED <<load, limit, plantVars, out, metered, meterVars, quiet, jumpHold, gate, calm>>,
         output' = output \/ output' = out
  PROVE  CalmInv'
<1>1. UNCHANGED <<load, limit, energized, capacity, reported, out, metered, meter, reading,
                  quiet, jumpHold, gate, calm>>
  BY DEF plantVars, meterVars
<1>2. Trail' = Trail
  BY <1>1 DEF Trail, Poi
<1>3. ExportRooms' = ExportRooms /\ ImportRooms' = ImportRooms
  BY <1>1, <1>2 DEF ExportRooms, ImportRooms
<1>4. Kept(Len(meter), ExportRooms)' = Kept(Len(meter), ExportRooms)
      /\ Kept(Len(meter), ImportRooms)' = Kept(Len(meter), ImportRooms)
  BY <1>1, <1>3 DEF Kept, Keeps
<1>5. TunedTo(Len(meter))' = TunedTo(Len(meter))
  BY <1>1 DEF TunedTo
<1> HIDE DEF Kept, TunedTo
<1> QED
  BY <1>1, <1>4, <1>5 DEF CalmInv

\* Every step keeps it: the others end the calm.
LEMMA CalmStep ==
  ASSUME EnvelopeConstants, EnvelopeInv, CalmInv, [EnvelopeNext]_envelopeVars
  PROVE  CalmInv'
<1>0. EnvelopeInv'
  BY EnvelopeStep
<1>1. ASSUME ~calm' PROVE CalmInv'
  BY <1>1 DEF CalmInv
<1>2. ASSUME calm, NEW n \in 0..5, Len(meter) = 3 => n <= 1, Computes(n), Lands(n), ~Stale(n)
      PROVE  CalmInv'
  <2>1. CASE metered
    BY <1>0, <1>2, <2>1, CalmTickMetered
  <2>2. CASE ~metered
    <3>1. n \in Nat
      BY <1>2
    <3> QED
      BY <1>2, <2>2, <3>1, CalmTickDirect
  <2> QED
    BY <2>1, <2>2
<1>3. calm => ~quiet /\ energized /\ TunedTo(Len(meter))
  BY DEF CalmInv
<1>4. CASE Tick
  <2>1. CASE ~calm
    BY <1>1, <1>4, <2>1 DEF Tick
  <2>2. CASE calm
    <3>1. Beat = 1 /\ ~Stale(1)
      BY <1>3, <2>2 DEF Beat, Stale
    <3>2. 1 \in 0..5 /\ 1 <= 1
      OBVIOUS
    <3> QED
      BY <1>2, <1>4, <2>2, <3>1, <3>2 DEF Tick
  <2> QED
    BY <2>1, <2>2
<1>5. CASE OffBeat
  <2>1. PICK n \in 0..MaxLate : TickOffBeat(n)
    BY <1>5 DEF OffBeat
  <2>2. CASE ~(calm /\ ~Stale(n))
    BY <1>1, <2>1, <2>2 DEF TickOffBeat
  <2>3. CASE calm /\ ~Stale(n)
    <3>1. n \in 0..5 /\ (Len(meter) = 3 => n <= 1)
      <4>1. MaxLate \in Nat /\ MaxLate <= (IF Len(meter) = 3 THEN 1 ELSE 5)
        BY <1>3, <2>3, EnvelopeNumbers DEF TunedTo
      <4> QED
        BY <4>1
    <3> QED
      BY <1>2, <2>1, <2>3, <3>1 DEF TickOffBeat
  <2> QED
    BY <2>2, <2>3
<1>6. CASE TickFails \/ TickHandsOff
  BY <1>1, <1>6 DEF TickFails, TickHandsOff
<1>7. CASE LoadChanges \/ LimitsChange
  BY <1>1, <1>7 DEF LoadChanges, LimitsChange
<1>8. CASE Command \/ ReadinessChanges
  BY <1>8, CalmStutter DEF Command, ReadinessChanges, controlVars
<1>9. CASE Cease \/ CapacityChanges \/ ChildReports \/ MeterStops
  BY <1>1, <1>9 DEF Cease, CapacityChanges, ChildReports, MeterStops
<1>10. CASE Energize \/ MeterReturns
  BY <1>1, <1>3, <1>10 DEF Energize, MeterReturns
<1>11. CASE UNCHANGED envelopeVars
  BY <1>11, CalmStutter DEF envelopeVars, siteVars, historyVars, controlVars
<1>12. CASE Reseed
  <2>1. CASE ~calm'
    BY <1>1, <2>1
  <2>2. CASE calm'
    <3>1. calm /\ output' = out /\ calm' = calm
      BY <1>12, <2>2 DEF Reseed
    <3>2. jumpHold = 0 /\ gate = 0
      BY <3>1 DEF CalmInv
    <3> QED
      BY <1>12, <3>1, <3>2, CalmStutter DEF Reseed, siteVars
  <2> QED
    BY <2>1, <2>2
<1> QED
  BY <1>4, <1>5, <1>6, <1>7, <1>8, <1>9, <1>10, <1>11, <1>12 DEF EnvelopeNext, TickStep

\* poi_servo.rs, "zero overshoot up to a 3 s lag", for every site, rating, ramp and
\* margin: as long as load, limits and plant stand still, requests and recharges
\* never take the POI past a limit, however often a tick comes before its reading
\* and, with a lag of two readings or less, up to five seconds late.  (With three,
\* ticks that keep coming three seconds apart overshoot.)
THEOREM NothingOvershootsWhenCalm ==
  ASSUME \A lag \in Lags : TunedTo(lag)
  PROVE  EnvelopeSpec => []NoOvershootWhenCalm
<1> USE EnvelopeAssumptions
<1>1. EnvelopeInit => EnvelopeInv /\ CalmInv
  BY EnvelopeStarts, CalmStarts
<1>2. EnvelopeInv /\ CalmInv /\ [EnvelopeNext]_envelopeVars => (EnvelopeInv /\ CalmInv)'
  BY EnvelopeStep, CalmStep
<1>3. EnvelopeInv /\ CalmInv => NoOvershootWhenCalm
  <2> SUFFICES ASSUME EnvelopeInv, CalmInv, calm
               PROVE  ExportExcess(Poi, limit) = 0 /\ ImportExcess(Poi, limit) = 0
    BY DEF NoOvershootWhenCalm
  <2>0. EnvelopeTypes
    BY DEF EnvelopeInv
  <2>1. /\ load \in Int /\ out \in Int /\ capacity \in Nat /\ Far \in Nat
        /\ load + capacity <= Far /\ capacity - load <= Far
    BY <2>0, EnvelopeNumbers DEF EnvelopeTypes
  <2>2. limit.export \in Nat /\ limit.import \in Nat
    BY <2>0, LimitNumbers
  <2>3. -capacity <= out /\ out <= capacity
    BY DEF CalmInv
  <2>4. Poi = load - out
    BY DEF Poi
  <2>5. -Far <= Poi /\ Poi <= Far /\ Poi \in Int
    BY <2>1, <2>3, <2>4
  <2>6. Poi + limit.export >= 0 /\ limit.import - Poi >= 0
    <3>1. CASE metered
      <4>1. 0 \in Nat
        OBVIOUS
      <4>2. /\ limit.export # Far => Poi + limit.export >= 0
            /\ limit.import # Far => limit.import - Poi >= 0
        BY <2>0, <3>1, <4>1, ReadingRoom
      <4> HIDE DEF Poi
      <4> QED
        BY <2>1, <2>2, <2>5, <4>2
    <3>2. CASE ~metered
      <4>1. load = 0 /\ -limit.import <= out /\ out <= limit.export
        BY <2>0, <3>2 DEF CalmInv, EnvelopeTypes
      <4> QED
        BY <2>1, <2>2, <2>4, <4>1
    <3> QED
      BY <3>1, <3>2
  <2> HIDE DEF Poi
  <2> QED
    BY <2>2, <2>5, <2>6 DEF ExportExcess, ImportExcess, Greater
<1> QED
  BY <1>1, <1>2, <1>3, PTL DEF EnvelopeSpec

-----------------------------------------------------------------------------
(* Settling *)

\* What the servo moves the output by, for one reading: up to a tenth of the
\* room, and a tenth of the excess back at least.
LEMMA RateBounds ==
  ASSUME NEW h \in Int, NEW opposite \in Int, NEW dt \in 0..1
  PROVE  /\ Rate(h, opposite, dt) \in Int
         /\ h >= 0 => Rate(h, opposite, dt) >= 0 /\ 10 * Rate(h, opposite, dt) <= h
         /\ h >= 0 /\ dt = 1 => Rate(h, opposite, dt) = h \div 10
         /\ h < 0 => Rate(h, opposite, dt) <= 0
         /\ h < 0 /\ dt = 1 => Rate(h, opposite, dt) <= -((-h) \div 10)
         /\ h < 0 /\ opposite >= -h => 10 * Rate(h, opposite, dt) >= -opposite
<1>1. \A x \in Int : Part(x, 1, 0) = 0 /\ Part(x, 3, 0) = 0 /\ Part(x, 1, 1) = x \div 10
                     /\ Part(x, 3, 1) = (3 * x) \div 10
  BY DEF Part
<1>2. \A x \in Int : /\ x \div 10 \in Int
                     /\ 10 * (x \div 10) <= x
                     /\ x >= 0 => x \div 10 >= 0
  OBVIOUS
<1>3. CASE dt = 0
  <2>1. Rate(h, opposite, dt) = 0
    <3>1. Part(h, 1, 0) = 0 /\ Part(-h, 3, 0) = 0 /\ Part(opposite, 1, 0) = 0 /\ Part(-h, 1, 0) = 0
      BY <1>1
    <3> QED
      BY <1>3, <3>1 DEF Rate, Greater, Lesser
  <2> QED
    BY <1>3, <2>1
<1>4. CASE dt = 1
  <2> DEFINE a == (3 * (-h)) \div 10
             b == opposite \div 10
             c == (-h) \div 10
             d == h \div 10
  <2>1. Rate(h, opposite, dt) = IF h >= 0 THEN d ELSE -Greater(Lesser(a, b), c)
    <3>1. Part(h, 1, 1) = d /\ Part(-h, 3, 1) = a /\ Part(opposite, 1, 1) = b /\ Part(-h, 1, 1) = c
      BY <1>1
    <3> QED
      BY <1>4, <3>1 DEF Rate
  <2>2. /\ a \in Int /\ b \in Int /\ c \in Int /\ d \in Int
        /\ 10 * b <= opposite /\ 10 * c <= -h /\ 10 * d <= h
        /\ h >= 0 => d >= 0
        /\ h < 0 => c >= 0
    BY <1>2
  <2> HIDE DEF a, b, c, d
  <2>3. h < 0 => /\ Greater(Lesser(a, b), c) \in Int
                 /\ Greater(Lesser(a, b), c) >= c
                 /\ (Greater(Lesser(a, b), c) <= b \/ Greater(Lesser(a, b), c) = c)
    BY <2>2 DEF Greater, Lesser
  <2>4. CASE h >= 0
    BY <2>1, <2>2, <2>4 DEF d
  <2>5. CASE h < 0
    <3> DEFINE g == Greater(Lesser(a, b), c)
    <3>1. g \in Int /\ g >= c /\ (g <= b \/ g = c)
      BY <2>3, <2>5
    <3>2. Rate(h, opposite, dt) = -g
      BY <2>1, <2>5
    <3> HIDE DEF g
    <3>3. opposite >= -h => 10 * g <= opposite
      BY <2>2, <3>1
    <3>4. -g \in Int /\ -g <= 0 /\ -g <= -c /\ (opposite >= -h => 10 * (-g) >= -opposite)
      BY <2>2, <2>5, <3>1, <3>3
    <3> QED
      BY <2>5, <3>2, <3>4 DEF c
  <2> QED
    BY <2>4, <2>5
<1> QED
  BY <1>3, <1>4

\* What a tick sets once the limits have stood still for a tick: no nearer to a
\* limit than a tenth of the room it read; and from past it a tenth of the excess
\* back, unless a jump's readings are awaited, the import side is at the rating,
\* or a handoff's growth is held back.
Recedes(v, e) == v <= output - (e \div 10)
Advances(v, e) == v >= output + (e \div 10)
LEMMA SettlingReach ==
  ASSUME EnvelopeConstants, EnvelopeTypes, DeliveredInv, metered, Controls(1), prev = limit,
         Reading(1) <= Far
  PROVE  \E v \in Int :
           /\ v <= PowerMax
           /\ Commands(v)
           /\ ~Bounds(1).jumped
           /\ limit.export # Far =>
                /\ v <= output \/ 10 * (v - output) <= Reading(1) + limit.export
                /\ Reading(1) + limit.export < 0 /\ jumpHold = 0 =>
                     Recedes(v, -(Reading(1) + limit.export))
           /\ limit.import # Far =>
                /\ v >= output \/ 10 * (output - v) <= limit.import - Reading(1)
                /\ limit.import - Reading(1) < 0 /\ jumpHold = 0 =>
                     \/ Advances(v, -(limit.import - Reading(1)))
                     \/ v = PowerMax
                     \/ Taken(1) # 0 /\ output >= 0 /\ v >= output
<1> DEFINE p == Reading(1)
           dt == IF jumpHold = 0 THEN 1 ELSE 0
           export == Headroom(p, limit.export)
           import == Headroom(-p, limit.import)
           rise == IF limit.export = Far THEN Far ELSE Rate(export, import, dt)
           fall == IF limit.import = Far THEN Far ELSE Rate(import, export, dt)
           up == output + rise
           down == output - fall
           floor == Lesser(down, up)
           held == Taken(1) # 0
           heldCeiling == IF held /\ output >= 0 THEN Lesser(up, output) ELSE up
           heldFloor == IF held /\ output < 0 THEN Greater(floor, output) ELSE floor
           c == Lesser(heldCeiling, PowerMax)
           f == Lesser(Greater(Lesser(heldFloor, heldCeiling), PowerMin), c)
           t == Target(Bounds(1))
<1>0. 1 \in Nat /\ 1 > 0
  OBVIOUS
<1>1. /\ limit.export \in 0..Far /\ limit.import \in 0..Far
      /\ Far \in Nat /\ output \in Int
  BY LimitNumbers
<1>2. p \in Int /\ dt \in 0..1 /\ -p \in Int
  BY <1>0, ShiftedType
<1>3. export \in Int /\ import \in Int
  BY <1>1, <1>2 DEF Headroom
<1>4. /\ limit.export # Far => export = p + limit.export
      /\ limit.import # Far => import = limit.import - p
  BY <1>1, <1>2 DEF Headroom
<1>a. Rate(export, import, dt) \in Int /\ Rate(import, export, dt) \in Int
  BY ONLY <1>2, <1>3, RateBounds
<1>5. /\ Jump(p, limit.export, prev.export) = 0
      /\ Jump(-p, limit.import, prev.import) = 0
  <2>1. \A x \in Int : Greater(0, x - x) = 0
    BY DEF Greater
  <2>2. Lesser(export, 0) \in Int /\ Lesser(import, 0) \in Int
    BY <1>3 DEF Lesser
  <2> QED
    BY <2>1, <2>2 DEF Jump
<1>6. /\ Step(p, limit.export, prev.export, import, dt) = rise
      /\ Step(-p, limit.import, prev.import, export, dt) = fall
  <2>1. export + 0 = export /\ import + 0 = import
    BY <1>3
  <2>2. Rate(export, import, dt) - 0 = Rate(export, import, dt)
        /\ Rate(import, export, dt) - 0 = Rate(import, export, dt)
    BY <1>a
  <2> QED
    BY <1>5, <2>1, <2>2 DEF Step
<1>7. (IF 1 > 0 /\ jumpHold = 0 THEN 1 ELSE 0) = dt
  OBVIOUS
<1> HIDE DEF dt
<1>8. /\ ServoBounds(1).jumped = FALSE
      /\ ServoBounds(1).ceiling = heldCeiling
      /\ ServoBounds(1).floor = Lesser(heldFloor, heldCeiling)
      /\ ServoBounds(1).export = export
      /\ ServoBounds(1).import = import
  <2>1. ServoBounds(1).jumped =
          (Jump(p, limit.export, prev.export) > 0 \/ Jump(-p, limit.import, prev.import) > 0)
    BY DEF ServoBounds
  <2>2. ~(0 > 0)
    OBVIOUS
  <2>3. ServoBounds(1).jumped = FALSE
    BY <1>5, <2>1, <2>2, Zenon
  <2>4. up \in Int /\ down \in Int
    <3>1. rise \in Int /\ fall \in Int
      BY <1>1, <1>a
    <3> QED
      BY <1>1, <3>1
  <2>5. floor = IF down > up THEN up ELSE down
    <3> HIDE DEF up, down
    <3> QED
      BY <2>4 DEF Lesser
  <2> HIDE DEF rise, fall
  <2>6. ServoBounds(1).ceiling = heldCeiling
    BY <1>5, <1>6, <1>7, <2>2 DEF ServoBounds
  <2>7. ServoBounds(1).floor = Lesser(heldFloor, heldCeiling)
    BY <1>5, <1>6, <1>7, <2>2, <2>5 DEF ServoBounds
  <2>8. ServoBounds(1).export = export /\ ServoBounds(1).import = import
    BY DEF ServoBounds
  <2> QED
    BY <2>3, <2>6, <2>7, <2>8
<1>9. /\ Bounds(1).ceiling = c /\ Bounds(1).floor = f
      /\ Bounds(1).export = export /\ Bounds(1).import = import
      /\ ~Bounds(1).jumped
  BY <1>8 DEF Bounds, ServoBounds
<1>10. /\ rise \in Int /\ fall \in Int
       /\ limit.export = Far => rise = Far
       /\ limit.import = Far => fall = Far
       /\ limit.export # Far =>
            /\ export >= 0 => rise >= 0 /\ 10 * rise <= export
            /\ export >= 0 /\ dt = 1 => rise = export \div 10
            /\ export < 0 => rise <= 0
            /\ export < 0 /\ dt = 1 => rise <= -((-export) \div 10)
            /\ export < 0 /\ import >= -export => 10 * rise >= -import
       /\ limit.import # Far =>
            /\ import >= 0 => fall >= 0 /\ 10 * fall <= import
            /\ import < 0 => fall <= 0
            /\ import < 0 /\ dt = 1 => fall <= -((-import) \div 10)
  <2>1. limit.export # Far => rise = Rate(export, import, dt)
    OBVIOUS
  <2>2. limit.import # Far => fall = Rate(import, export, dt)
    OBVIOUS
  <2>3. rise \in Int /\ fall \in Int /\ (limit.export = Far => rise = Far)
        /\ (limit.import = Far => fall = Far)
    BY <1>1, <1>a
  <2> HIDE DEF rise, fall, export, import
  <2>4. limit.export # Far =>
            /\ export >= 0 => rise >= 0 /\ 10 * rise <= export
            /\ export >= 0 /\ dt = 1 => rise = export \div 10
            /\ export < 0 => rise <= 0
            /\ export < 0 /\ dt = 1 => rise <= -((-export) \div 10)
            /\ export < 0 /\ import >= -export => 10 * rise >= -import
    BY ONLY <1>2, <1>3, <2>1, RateBounds
  <2>5. limit.import # Far =>
            /\ import >= 0 => fall >= 0 /\ 10 * fall <= import
            /\ import < 0 => fall <= 0
            /\ import < 0 /\ dt = 1 => fall <= -((-import) \div 10)
    BY ONLY <1>2, <1>3, <2>2, RateBounds
  <2> QED
    BY <2>3, <2>4, <2>5
\* The limits are not past each other, so room on one side makes up for the other's.
<1>11. limit.export # Far /\ limit.import # Far => export + import >= 0
  BY <1>1, <1>2, <1>4
<1>12. limit.export = Far => export = Far
  BY DEF Headroom
<1>13. limit.import # Far => -import <= Far
  BY <1>1, <1>2, <1>4
<1> HIDE DEF rise, fall, export, import
<1>14. /\ PowerMax \in Nat /\ PowerMin \in Int /\ PowerMin <= 0 /\ output <= PowerMax
       /\ Wanted \in Int
  <2>1. RechargePower \in Nat /\ request \in Int
    BY EnvelopeNumbers DEF EnvelopeTypes
  <2> QED
    BY <2>1, EnvelopeNumbers DEF Wanted, DeliveredInv
<1>15. t = Clamp(Wanted, f, c)
  BY <1>9 DEF Target
<1>16. c \in Int /\ f \in Int /\ f <= c /\ c <= up /\ c <= PowerMax
  BY <1>1, <1>10, <1>14 DEF Lesser, Greater
<1>17. t \in Int /\ f <= t /\ t <= c
  <2> HIDE DEF f, c, t
  <2> QED
    BY <1>14, <1>15, <1>16 DEF Clamp
<1>18. PICK v \in Int : /\ Between(v, output, t) /\ Commands(v)
                        /\ Violating(Bounds(1)) => v = t
  <2>1. CASE Violating(Bounds(1))
    <3>1. Clamps(1, Bounds(1))
      BY <2>1 DEF Controls, Holds, Ramps, Tracks
    <3>2. Commands(t)
      BY <3>1 DEF Clamps
    <3>3. Between(t, output, t)
      BY <1>1, <1>17 DEF Between
    <3> QED
      BY <1>17, <3>2, <3>3
  <2>2. CASE ~Violating(Bounds(1))
    BY <1>0, <2>2, ControlsAim
  <2> QED
    BY <2>1, <2>2
<1>19. /\ export <= 0 => v = t
       /\ import <= 0 => v = t
  BY <1>9, <1>18 DEF Violating
<1> HIDE DEF t
<1>20. v <= PowerMax /\ (v <= output \/ v <= up)
  <2> HIDE DEF c, up, f
  <2>1. up \in Int
    BY <1>1, <1>10 DEF up
  <2> QED
    BY <1>1, <1>14, <1>16, <1>17, <1>18, <2>1 DEF Between
<1>21. limit.export # Far =>
          /\ v <= output \/ 10 * (v - output) <= export
          /\ export < 0 /\ dt = 1 => v <= output - ((-export) \div 10)
  <2> SUFFICES ASSUME limit.export # Far
               PROVE  /\ v <= output \/ 10 * (v - output) <= export
                      /\ export < 0 /\ dt = 1 => v <= output - ((-export) \div 10)
    OBVIOUS
  <2>1. CASE export >= 0
    BY <1>1, <1>3, <1>10, <1>20, <2>1
  <2>2. CASE export < 0
    <3>1. v <= up
      <4> HIDE DEF c, up, f
      <4>1. up \in Int
        BY <1>1, <1>10 DEF up
      <4> QED
        BY <1>3, <1>16, <1>17, <1>19, <2>2, <4>1
    <3>2. (-export) \div 10 \in Int
      BY <1>3
    <3> QED
      BY <1>1, <1>3, <1>10, <2>2, <3>1, <3>2
  <2> QED
    BY <1>3, <2>1, <2>2
\* The floor is no lower than what both sides, or the output, allow.
<1>22. up \in Int /\ down \in Int /\ floor \in Int /\ heldFloor \in Int /\ heldCeiling \in Int
       /\ floor <= up /\ floor <= down /\ (floor = up \/ floor = down)
       /\ heldFloor >= floor
       /\ (heldCeiling = up \/ (held /\ output >= 0 /\ heldCeiling \in {up, output}))
  BY <1>1, <1>10 DEF Lesser, Greater
<1>23. ASSUME NEW low \in Int, floor >= low, heldCeiling >= low, PowerMax >= low
       PROVE  f >= low
  <2> HIDE DEF heldFloor, heldCeiling, floor
  <2> QED
    BY <1>14, <1>22, <1>23 DEF Lesser, Greater
<1>24. ASSUME limit.import # Far, import >= 0
       PROVE  v >= output \/ 10 * (output - v) <= import
  <2>1. up >= output \/ 10 * (output - up) <= import
    <3>1. CASE limit.export = Far
      BY <1>1, <1>10, <3>1
    <3>2. CASE limit.export # Far
      BY <1>1, <1>3, <1>10, <1>11, <1>24, <3>2
    <3> QED
      BY <3>1, <3>2
  <2>2. down >= output \/ 10 * (output - down) <= import
    BY <1>1, <1>3, <1>10, <1>24
  <2> DEFINE low == Lesser(floor, Lesser(heldCeiling, output))
  <2> HIDE DEF up, down, floor, heldFloor, heldCeiling, f, c
  <2>3. low \in Int /\ low <= floor /\ low <= heldCeiling /\ low <= output
        /\ low \in {up, down, output}
    BY <1>1, <1>22 DEF Lesser
  <2>4. low <= PowerMax
    BY <1>1, <1>14, <2>3
  <2> HIDE DEF low
  <2>5. f >= low
    BY <1>23, <2>3, <2>4
  <2>6. v >= low
    BY <1>1, <1>16, <1>17, <1>18, <2>3, <2>5 DEF Between
  <2>7. low >= output \/ 10 * (output - low) <= import
    BY <1>1, <2>1, <2>2, <2>3
  <2> QED
    BY <1>1, <1>3, <2>3, <2>6, <2>7
<1>25. ASSUME limit.import # Far, import < 0
       PROVE  /\ v >= output
              /\ dt = 1 => \/ v >= output + ((-import) \div 10)
                           \/ v = PowerMax
                           \/ held /\ output >= 0
  <2> DEFINE q == (-import) \div 10
  <2>1. q \in Int /\ q >= 0 /\ q <= -import
    BY <1>3, <1>25
  <2>2. up >= output /\ (dt = 1 => up >= output + q)
    <3>1. CASE limit.export = Far
      <4>1. q <= Far
        BY <1>1, <1>3, <1>13, <1>25, <2>1
      <4> HIDE DEF q
      <4> QED
        BY <1>1, <1>10, <2>1, <3>1, <4>1
    <3>2. CASE limit.export # Far
      <4>1. export >= -import /\ export >= 0
        BY <1>3, <1>11, <1>25, <3>2
      <4>2. export \div 10 >= q /\ export \div 10 \in Int
        BY <1>3, <4>1
      <4> HIDE DEF q
      <4>3. rise >= 0 /\ (dt = 1 => rise = export \div 10)
        BY <1>10, <3>2, <4>1
      <4> QED
        BY <1>1, <1>10, <2>1, <4>2, <4>3
    <3> QED
      BY <3>1, <3>2
  <2>3. down >= output /\ (dt = 1 => down >= output + q)
    <3>1. fall <= 0 /\ (dt = 1 => fall <= -q) /\ fall \in Int
      BY <1>10, <1>25
    <3> HIDE DEF q
    <3> QED
      BY <1>1, <2>1, <3>1
  <2>4. v = t
    BY <1>3, <1>19, <1>25
  <2> HIDE DEF up, down, floor, heldFloor, heldCeiling, f, c, q
  <2>5. v >= output
    <3>1. floor >= output /\ heldCeiling >= output
      BY <1>1, <1>22, <2>2, <2>3
    <3>2. f >= output
      BY <1>1, <1>14, <1>23, <3>1
    <3> QED
      BY <1>1, <1>16, <1>17, <2>4, <3>2
  <2>6. ASSUME dt = 1, ~(held /\ output >= 0)
        PROVE  v >= output + q \/ v = PowerMax
    <3> DEFINE low == Lesser(output + q, PowerMax)
    <3>1. low \in Int /\ low <= output + q /\ low <= PowerMax /\ low \in {output + q, PowerMax}
      BY <1>1, <1>14, <2>1 DEF Lesser
    <3> HIDE DEF low
    <3>2. floor >= low /\ heldCeiling >= low
      BY <1>1, <1>22, <2>1, <2>2, <2>3, <2>6, <3>1
    <3>3. f >= low
      BY <1>23, <3>1, <3>2
    <3> QED
      BY <1>1, <1>14, <1>16, <1>17, <1>20, <2>1, <2>4, <3>1, <3>3
  <2> QED
    BY <2>5, <2>6 DEF q
<1>26. jumpHold = 0 => dt = 1
  BY DEF dt
<1>27. limit.export # Far =>
                /\ v <= output \/ 10 * (v - output) <= p + limit.export
                /\ p + limit.export < 0 /\ jumpHold = 0 => Recedes(v, -(p + limit.export))
  <2> HIDE DEF p
  <2> QED
    BY <1>4, <1>21, <1>26 DEF Recedes
<1>28. limit.import # Far =>
                /\ v >= output \/ 10 * (output - v) <= limit.import - p
                /\ limit.import - p < 0 /\ jumpHold = 0 =>
                     \/ Advances(v, -(limit.import - p))
                     \/ v = PowerMax
                     \/ held /\ output >= 0 /\ v >= output
  <2> HIDE DEF p, held
  <2>1. import \in Int
    BY <1>3
  <2> QED
    BY <1>4, <1>24, <1>25, <1>26, <2>1 DEF Advances
<1> QED
  BY <1>9, <1>18, <1>20, <1>27, <1>28

\* Four times the room a loop without lag keeps of a.
Low(a) == IF a >= 0 THEN 3 * a ELSE 4 * a

\* The rooms on the trail after s undisturbed ticks: each keeps what it should of
\* the one before, but for a defect the later ticks have less and less of.
Damped(lag, rooms, s, damp) ==
    \A i \in 1..lag : 4 * rooms[i + 1] >= Low(rooms[i]) - damp[Greater(0, s - (lag - i))]

\* With a lag of one reading a defect of d is followed by one of three fifths of
\* it at most,
LEMMA DampedOne ==
  ASSUME NEW a \in Int, NEW b \in Int, NEW h \in Int, NEW d \in Nat,
         4 * b >= Low(a) - d,
         h >= b \/ 10 * (b - h) <= a
  PROVE  5 * (4 * h) >= 5 * Low(b) - 3 * d
BY DEF Low

\* with a lag of two,
LEMMA DampedTwo ==
  ASSUME NEW a \in Int, NEW b \in Int, NEW c \in Int, NEW h \in Int, NEW d \in Nat,
         4 * b >= Low(a) - d, 4 * c >= Low(b) - d,
         h >= c \/ 10 * (c - h) <= a
  PROVE  5 * (4 * h) >= 5 * Low(c) - 3 * d
BY DEF Low

\* and with a lag of three.
LEMMA DampedThree ==
  ASSUME NEW a \in Int, NEW b \in Int, NEW c \in Int, NEW e \in Int, NEW h \in Int, NEW d \in Nat,
         4 * b >= Low(a) - d, 4 * c >= Low(b) - d, 4 * e >= Low(c) - d,
         h >= e \/ 10 * (e - h) <= a
  PROVE  5 * (4 * h) >= 5 * Low(e) - 3 * d
BY DEF Low

\* Whatever the lag, then.
LEMMA PairDamped ==
  ASSUME NEW lag \in 1..3, NEW rooms \in [1..(lag + 1) -> Int], NEW h \in Int, NEW d \in Nat,
         \A i \in 1..lag : 4 * rooms[i + 1] >= Low(rooms[i]) - d,
         h >= rooms[lag + 1] \/ 10 * (rooms[lag + 1] - h) <= rooms[1]
  PROVE  5 * (4 * h) >= 5 * Low(rooms[lag + 1]) - 3 * d
<1>1. CASE lag = 1
  <2>1. /\ rooms[1] \in Int /\ rooms[2] \in Int
        /\ 4 * rooms[2] >= Low(rooms[1]) - d
        /\ h >= rooms[2] \/ 10 * (rooms[2] - h) <= rooms[1]
    BY <1>1
  <2> QED
    BY ONLY <1>1, <2>1, h \in Int, d \in Nat, DampedOne
<1>2. CASE lag = 2
  <2>1. /\ rooms[1] \in Int /\ rooms[2] \in Int /\ rooms[3] \in Int
        /\ 4 * rooms[2] >= Low(rooms[1]) - d
        /\ 4 * rooms[3] >= Low(rooms[2]) - d
        /\ h >= rooms[3] \/ 10 * (rooms[3] - h) <= rooms[1]
    BY <1>2
  <2> QED
    BY ONLY <1>2, <2>1, h \in Int, d \in Nat, DampedTwo
<1>3. CASE lag = 3
  <2>1. /\ rooms[1] \in Int /\ rooms[2] \in Int /\ rooms[3] \in Int /\ rooms[4] \in Int
        /\ 4 * rooms[2] >= Low(rooms[1]) - d
        /\ 4 * rooms[3] >= Low(rooms[2]) - d
        /\ 4 * rooms[4] >= Low(rooms[3]) - d
        /\ h >= rooms[4] \/ 10 * (rooms[4] - h) <= rooms[1]
    BY <1>3
  <2> QED
    BY ONLY <1>3, <2>1, h \in Int, d \in Nat, DampedThree
<1> QED
  BY <1>1, <1>2, <1>3

\* Counting undisturbed ticks, and the defects on the trail by them.
LEMMA NextTick ==
  ASSUME Settling \in Nat, NEW s \in 0..Settling
  PROVE  /\ Lesser(s + 1, Settling) \in 0..Settling
         /\ Lesser(s + 1, Settling) = s + 1 \/ (Lesser(s + 1, Settling) = s /\ s = Settling)
BY DEF Lesser

LEMMA TrailCount ==
  ASSUME Settling \in Nat, NEW s \in 0..Settling, NEW u \in 0..Settling, u = s + 1 \/ u = s,
         NEW lag \in 1..3, NEW i \in 1..lag
  PROVE  /\ Greater(0, s - (lag - i)) \in 0..Settling
         /\ Greater(0, s - 2) \in 0..Settling
         /\ Greater(0, s - 2) <= Greater(0, s - (lag - i))
         /\ Greater(0, u - (lag - i)) \in 0..Settling
         /\ Greater(0, u - (lag - i)) <= Greater(0, s - (lag - (i + 1)))
         /\ i # lag => Greater(0, s - (lag - (i + 1))) \in 0..Settling
BY DEF Greater

\* A larger defect is allowed where a smaller one is.
LEMMA LowWeakens ==
  ASSUME NEW a \in Int, NEW b \in Int, NEW d \in Nat, NEW e \in Nat, d <= e,
         4 * b >= Low(a) - d
  PROVE  4 * b >= Low(a) - e
BY DEF Low

\* The first defect may be as large as any; the others are whole.
LEMMA LowAtFirst ==
  ASSUME Far \in Nat, NEW a \in Int, NEW b \in Int, NEW d \in Nat, d >= 10 * Far,
         b >= -Far, a >= -Far, a <= 2 * Far
  PROVE  4 * b >= Low(a) - d
BY DEF Low

LEMMA LowWhole ==
  ASSUME NEW a \in Int, NEW b \in Int, NEW d \in Nat, NEW e \in Nat,
         5 * (4 * b) >= 5 * Low(a) - 3 * d, 5 * e + 4 >= 3 * d
  PROVE  4 * b >= Low(a) - e
BY DEF Low

\* The tick after s undisturbed ones keeps one side's rooms damped.
LEMMA SideDamps ==
  ASSUME Settling \in Nat, Far \in Nat,
         NEW damp \in [0..Settling -> Nat], NEW excess \in [0..Settling -> Nat],
         SettlesBy(Settling, Far, damp, excess),
         NEW lag \in 1..3, NEW s \in 0..Settling,
         NEW rooms \in [1..(lag + 1) -> Int], NEW new \in [1..(lag + 1) -> Int],
         \A i \in 1..(lag + 1) : new[i] >= -Far /\ new[i] <= 2 * Far,
         \A i \in 1..lag : new[i] = rooms[i + 1],
         Damped(lag, rooms, s, damp),
         s >= 1 => \/ new[lag + 1] >= rooms[lag + 1]
                   \/ 10 * (rooms[lag + 1] - new[lag + 1]) <= rooms[1]
  PROVE  Damped(lag, new, Lesser(s + 1, Settling), damp)
<1> DEFINE u == Lesser(s + 1, Settling)
           h == new[lag + 1]
           now == rooms[lag + 1]
<1>1. u \in 0..Settling /\ Settling >= 5 /\ (u = s + 1 \/ (u = s /\ s = Settling))
  BY NextTick DEF SettlesBy
<1>2. \A x, y \in 0..Settling : x <= y => damp[y] <= damp[x]
  BY DEF SettlesBy
<1>3. \A x \in 0..Settling : damp[x] \in Nat
  OBVIOUS
<1>4. h \in Int /\ now \in Int /\ h >= -Far /\ now >= -Far /\ now <= 2 * Far
  <2>1. lag \in 1..lag /\ lag \in 1..(lag + 1) /\ lag + 1 \in 1..(lag + 1)
    OBVIOUS
  <2>2. now = new[lag]
    BY <2>1
  <2> QED
    BY <2>1, <2>2
<1>5. ASSUME NEW i \in 1..lag, i # lag
      PROVE  4 * new[i + 1] >= Low(new[i]) - damp[Greater(0, u - (lag - i))]
  <2> DEFINE j == i + 1
             x == Greater(0, u - (lag - i))
             y == Greater(0, s - (lag - j))
  <2>1. j \in 1..lag /\ j \in 1..(lag + 1) /\ j + 1 \in 1..(lag + 1)
    BY <1>5
  <2>2. x \in 0..Settling /\ y \in 0..Settling /\ x <= y
    <3> HIDE DEF u
    <3> QED
      BY ONLY <1>1, <1>5, Settling \in Nat, s \in 0..Settling, lag \in 1..3, i \in 1..lag, TrailCount
  <2>3. 4 * rooms[j + 1] >= Low(rooms[j]) - damp[y]
    BY <2>1 DEF Damped
  <2> HIDE DEF x, y, j
  <2>4. damp[y] <= damp[x] /\ damp[x] \in Nat /\ damp[y] \in Nat
    BY <1>2, <1>3, <2>2
  <2>5. new[i] = rooms[j] /\ new[j] = rooms[j + 1] /\ rooms[j] \in Int /\ rooms[j + 1] \in Int
    BY <2>1 DEF j
  <2>7. 4 * rooms[j + 1] >= Low(rooms[j]) - damp[x]
    BY ONLY <2>3, <2>4, <2>5, LowWeakens
  <2> QED
    BY <2>5, <2>7 DEF x, j
<1>6. 4 * h >= Low(now) - damp[u]
  <2>1. CASE s = 0
    <3>1. u = 1
      BY <1>1, <2>1 DEF Lesser
    <3>2. damp[1] >= 10 * Far /\ damp[1] \in Nat
      BY <1>1 DEF SettlesBy
    <3> HIDE DEF h, now, u
    <3> QED
      BY ONLY <1>4, <3>1, <3>2, Far \in Nat, LowAtFirst
  <2>2. CASE s # 0
    <3> DEFINE o == Greater(0, s - 2)
               d == damp[o]
    <3>1. o \in 0..Settling
      BY ONLY s \in 0..Settling, Settling \in Nat DEF Greater
    <3>2. d \in Nat
      BY <1>3, <3>1
    <3>3. ASSUME NEW i \in 1..lag PROVE 4 * rooms[i + 1] >= Low(rooms[i]) - d
      <4> DEFINE y == Greater(0, s - (lag - i))
      <4>1. y \in 0..Settling /\ o <= y
        BY ONLY Settling \in Nat, s \in 0..Settling, lag \in 1..3, i \in 1..lag, TrailCount
      <4>2. 4 * rooms[i + 1] >= Low(rooms[i]) - damp[y]
        BY DEF Damped
      <4> HIDE DEF y, o
      <4>3. damp[y] <= damp[o] /\ damp[y] \in Nat
        BY <1>2, <1>3, <3>1, <4>1
      <4>4. rooms[i] \in Int /\ rooms[i + 1] \in Int
        <5>1. i \in 1..(lag + 1) /\ i + 1 \in 1..(lag + 1)
          BY ONLY lag \in 1..3, i \in 1..lag
        <5> QED
          BY <5>1
      <4> QED
        BY ONLY <3>2, <4>2, <4>3, <4>4, LowWeakens DEF d
    <3>4. h >= now \/ 10 * (now - h) <= rooms[1]
      BY <2>2
    <3>5. 5 * damp[u] + 4 >= 3 * d
      <4>1. s \in 1..Settling
        BY ONLY <2>2, s \in 0..Settling, Settling \in Nat
      <4> HIDE DEF Lesser, Greater
      <4> QED
        BY <4>1 DEF SettlesBy
    <3> HIDE DEF h, d, o
    <3>6. 5 * (4 * h) >= 5 * Low(now) - 3 * d
      BY <1>4, <3>2, <3>3, <3>4, PairDamped
    <3> HIDE DEF now, u
    <3>7. damp[u] \in Nat
      BY <1>1, <1>3
    <3> QED
      BY ONLY <1>4, <3>2, <3>5, <3>6, <3>7, LowWhole
  <2> QED
    BY <2>1, <2>2
<1>7. Greater(0, u - (lag - lag)) = u /\ new[lag] = now
  <2>1. lag \in 1..lag
    OBVIOUS
  <2>2. u - (lag - lag) = u /\ u >= 0
    <3> HIDE DEF u
    <3> QED
      BY ONLY <1>1, lag \in 1..3, Settling \in Nat
  <2> QED
    BY <1>1, <2>1, <2>2 DEF Greater
<1> HIDE DEF u
<1>8. ASSUME NEW i \in 1..lag
      PROVE  4 * new[i + 1] >= Low(new[i]) - damp[Greater(0, u - (lag - i))]
  <2>1. CASE i = lag
    BY <1>6, <1>7, <2>1
  <2> QED
    BY <1>5, <2>1 DEF u
<1> QED
  BY <1>8 DEF Damped, u

\* Once the defects are gone, what is past the limit now was so, and more, on the
\* whole trail.
LEMMA ExcessWas ==
  ASSUME NEW lag \in 1..3, NEW rooms \in [1..(lag + 1) -> Int],
         \A i \in 1..lag : 4 * rooms[i + 1] >= Low(rooms[i]),
         rooms[lag + 1] < 0
  PROVE  rooms[1] < 0 /\ rooms[1] <= rooms[lag + 1]
<1>1. \A a, b \in Int : 4 * b >= Low(a) /\ b < 0 => a < 0 /\ a <= b
  BY DEF Low
<1>2. CASE lag = 1
  <2>1. rooms[1] \in Int /\ rooms[2] \in Int /\ 4 * rooms[2] >= Low(rooms[1])
    BY <1>2
  <2> QED
    BY <1>1, <1>2, <2>1
<1>3. CASE lag = 2
  <2>1. rooms[1] \in Int /\ rooms[2] \in Int /\ rooms[3] \in Int
        /\ 4 * rooms[2] >= Low(rooms[1]) /\ 4 * rooms[3] >= Low(rooms[2])
    BY <1>3
  <2>2. rooms[2] < 0 /\ rooms[2] <= rooms[3]
    BY <1>1, <1>3, <2>1
  <2>3. rooms[1] < 0 /\ rooms[1] <= rooms[2]
    BY <1>1, <2>1, <2>2
  <2> QED
    BY <1>3, <2>1, <2>2, <2>3
<1>4. CASE lag = 3
  <2>1. rooms[1] \in Int /\ rooms[2] \in Int /\ rooms[3] \in Int /\ rooms[4] \in Int
        /\ 4 * rooms[2] >= Low(rooms[1]) /\ 4 * rooms[3] >= Low(rooms[2])
        /\ 4 * rooms[4] >= Low(rooms[3])
    BY <1>4
  <2>2. rooms[3] < 0 /\ rooms[3] <= rooms[4]
    BY <1>1, <1>4, <2>1
  <2>3. rooms[2] < 0 /\ rooms[2] <= rooms[3]
    BY <1>1, <2>1, <2>2
  <2>4. rooms[1] < 0 /\ rooms[1] <= rooms[2]
    BY <1>1, <2>1, <2>3
  <2> QED
    BY <1>4, <2>1, <2>2, <2>3, <2>4
<1> QED
  BY <1>2, <1>3, <1>4

\* A tick then takes nothing of room there is, and what is past the limit back.
LEMMA ExcessShrinks ==
  ASSUME NEW lag \in 1..3, NEW rooms \in [1..(lag + 1) -> Int], NEW h \in Int,
         \A i \in 1..lag : 4 * rooms[i + 1] >= Low(rooms[i]),
         h >= rooms[lag + 1] \/ 10 * (rooms[lag + 1] - h) <= rooms[1]
  PROVE  \/ h >= 0
         \/ /\ rooms[1] < 0
            /\ h >= rooms[lag + 1]
            /\ \A e, x \in Nat : /\ x >= e - (e \div 10)
                                 /\ rooms[lag + 1] >= -e
                                 /\ h >= rooms[lag + 1] + ((-rooms[1]) \div 10)
                                 => h >= -x
<1> DEFINE now == rooms[lag + 1]
           r == rooms[1]
<1>1. now \in Int /\ r \in Int
  <2>1. 1 \in 1..(lag + 1) /\ lag + 1 \in 1..(lag + 1)
    BY ONLY lag \in 1..3
  <2> QED
    BY <2>1
<1>2. CASE now < 0
  <2>1. r < 0 /\ r <= now
    BY <1>2, ExcessWas
  <2>2. h >= now
    <3>1. h >= now \/ 10 * (now - h) <= r
      OBVIOUS
    <3> HIDE DEF now, r
    <3> QED
      BY ONLY <1>1, <2>1, <3>1, h \in Int
  <2> HIDE DEF now, r
  <2>3. \A e, x \in Nat : x >= e - (e \div 10) /\ now >= -e /\ h >= now + ((-r) \div 10) => h >= -x
    <3> SUFFICES ASSUME NEW e \in Nat, NEW x \in Nat, x >= e - (e \div 10), now >= -e,
                        h >= now + ((-r) \div 10)
                 PROVE  h >= -x
      OBVIOUS
    <3>1. \A a, b \in Nat : a <= b => a \div 10 <= b \div 10 /\ a - (a \div 10) <= b - (b \div 10)
      OBVIOUS
    <3>2. -now \in Nat /\ -r \in Nat /\ -now <= -r /\ -now <= e
      BY <1>1, <1>2, <2>1
    <3>3. (-now) \div 10 <= (-r) \div 10 /\ (-now) - ((-now) \div 10) <= e - (e \div 10)
      BY <3>1, <3>2
    <3>4. (-now) \div 10 \in Int /\ (-r) \div 10 \in Int /\ e \div 10 \in Int
      BY <3>2
    <3> QED
      BY <1>1, <3>3, <3>4
  <2> QED
    BY <2>1, <2>2, <2>3 DEF now, r
<1>3. CASE now >= 0
  <2>1. \A i \in 1..lag : 4 * rooms[i + 1] >= Low(rooms[i]) - 0
    <3> SUFFICES ASSUME NEW i \in 1..lag PROVE 4 * rooms[i + 1] >= Low(rooms[i]) - 0
      OBVIOUS
    <3>1. rooms[i] \in Int
      <4>1. i \in 1..(lag + 1)
        BY ONLY lag \in 1..3, i \in 1..lag
      <4> QED
        BY <4>1
    <3>2. \A a \in Int : Low(a) - 0 = Low(a)
      BY DEF Low
    <3> QED
      BY <3>1, <3>2
  <2>2. 5 * (4 * h) >= 5 * Low(now) - 3 * 0
    <3>1. 0 \in Nat
      OBVIOUS
    <3> QED
      BY <2>1, <3>1, PairDamped
  <2> HIDE DEF now
  <2> QED
    BY ONLY <1>1, <1>3, <2>2, h \in Int DEF Low
<1> QED
  BY <1>1, <1>2, <1>3

-----------------------------------------------------------------------------
(* What the site can do *)

\* What flows is what some load and some capacity allow, now and on the trail.
BoundedInv ==
    /\ \E c \in Capacities : -c <= out /\ out <= c
    /\ Len(meter) <= 3
    /\ \A i \in 1..Len(meter) : -Far <= meter[i] /\ meter[i] <= Far
    /\ jumpHold <= 3
    /\ gate \in 0..4

LEMMA BoundedPoi ==
  ASSUME EnvelopeConstants, EnvelopeTypes, \E c \in Capacities : -c <= out /\ out <= c
  PROVE  -Far <= Poi /\ Poi <= Far /\ Poi \in Int
<1>1. PICK c \in Capacities : -c <= out /\ out <= c
  OBVIOUS
<1>2. /\ load \in Int /\ out \in Int /\ c \in Nat /\ Far \in Nat
      /\ load + c <= Far /\ c - load <= Far
  BY EnvelopeNumbers DEF EnvelopeTypes
<1> QED
  BY <1>1, <1>2 DEF Poi

\* A tick keeps it, whatever becomes of its output.
LEMMA ComputesBounded ==
  ASSUME EnvelopeConstants, EnvelopeTypes, BoundedInv, NEW n \in Nat, Computes(n)
  PROVE  /\ Len(meter') <= 3
         /\ \A i \in 1..Len(meter') : -Far <= meter'[i] /\ meter'[i] <= Far
         /\ jumpHold' <= 3
         /\ Taken(n) \in 0..4
<1>1. Dt(n) \in Nat
  BY DEF Dt, Greater
<1>2. /\ Len(meter') = Len(meter)
      /\ \A i \in 1..Len(meter) :
           meter'[i] = IF i + Dt(n) <= Len(meter) THEN meter[i + Dt(n)] ELSE Poi
  BY <1>1, ShiftedType DEF Computes
<1>3. -Far <= Poi /\ Poi <= Far
  BY BoundedPoi DEF BoundedInv
<1>4. Len(meter) \in Nat /\ Len(meter) <= 3
  BY TrailType DEF BoundedInv
<1>5. ASSUME NEW i \in 1..Len(meter) PROVE -Far <= meter'[i] /\ meter'[i] <= Far
  <2>1. CASE i + Dt(n) <= Len(meter)
    <3>1. i + Dt(n) \in 1..Len(meter)
      BY <1>1, <1>4, <2>1
    <3> QED
      BY <1>2, <2>1, <3>1 DEF BoundedInv
  <2>2. CASE ~(i + Dt(n) <= Len(meter))
    BY <1>2, <1>3, <2>2
  <2> QED
    BY <2>1, <2>2
<1>6. jumpHold' <= 3
  <2>0. jumpHold \in Nat /\ jumpHold <= 3
    BY DEF BoundedInv, EnvelopeTypes
  <2>1. CASE Stale(n)
    BY <2>0, <2>1 DEF Computes, RampsToZero
  <2>2. CASE ~Stale(n)
    <3>1. jumpHold' = IF Bounds(n).jumped THEN JumpHoldReadings
                      ELSE IF jumpHold > 0 /\ n > 0 THEN jumpHold - 1 ELSE jumpHold
      BY <2>2 DEF Computes, Controls
    <3>2. jumpHold' = JumpHoldReadings \/ jumpHold' = jumpHold - 1 \/ jumpHold' = jumpHold
      BY <3>1, Zenon
    <3> QED
      BY <2>0, <3>2 DEF JumpHoldReadings
  <2> QED
    BY <2>1, <2>2
<1>7. Taken(n) \in 0..4
  BY DEF Taken, BoundedInv
<1> QED
  BY <1>2, <1>4, <1>5, <1>6, <1>7

\* What is delivered is within the capacity, if less lands as well.
LEMMA DeliveredBounded ==
  ASSUME EnvelopeConstants, EnvelopeTypes, output' \in Int
  PROVE  /\ -capacity <= Delivered /\ Delivered <= capacity /\ Delivered \in Int
         /\ -capacity <= Lesser(Delivered + Short, 0)
         /\ Greater(Delivered - Short, 0) <= capacity
<1>1. capacity \in Nat /\ Short \in Nat
  BY EnvelopeNumbers DEF EnvelopeTypes
<1>2. -capacity <= Delivered /\ Delivered <= capacity /\ Delivered \in Int
  BY <1>1 DEF Delivered, Clamp
<1> HIDE DEF Delivered
<1> QED
  BY <1>1, <1>2 DEF Lesser, Greater

LEMMA BoundedStep ==
  ASSUME EnvelopeConstants, EnvelopeInv, BoundedInv, [EnvelopeNext]_envelopeVars
  PROVE  BoundedInv'
<1>0. EnvelopeTypes /\ DeliveredInv
  BY DEF EnvelopeInv
<1>1. capacity \in Capacities /\ capacity \in Nat /\ Beat \in Nat
  BY <1>0, EnvelopeNumbers DEF EnvelopeTypes, Beat
<1>2. ASSUME NEW n \in Nat, Computes(n),
             out' = out \/ (-capacity <= out' /\ out' <= capacity), gate' \in 0..4
      PROVE  BoundedInv'
  <2>1. /\ Len(meter') <= 3
        /\ \A i \in 1..Len(meter') : -Far <= meter'[i] /\ meter'[i] <= Far
        /\ jumpHold' <= 3
    BY <1>0, <1>2, ComputesBounded
  <2>2. \E c \in Capacities : -c <= out' /\ out' <= c
    BY <1>1, <1>2 DEF BoundedInv
  <2> QED
    BY <1>2, <2>1, <2>2 DEF BoundedInv
<1>3. ASSUME NEW n \in Nat, Computes(n), Lands(n) PROVE BoundedInv'
  <2>1. output' \in Int
    BY <1>0, <1>3, ComputesRange
  <2>2. -capacity <= Delivered /\ Delivered <= capacity
    BY <1>0, <2>1, DeliveredBounded
  <2>3. Taken(n) \in 0..4
    BY <1>0, <1>3, ComputesBounded
  <2>4. gate' \in 0..4
    BY <1>3, <2>3 DEF Lands
  <2>5. out' = out \/ out' = Delivered
    BY <1>3 DEF Lands
  <2> QED
    BY <1>2, <1>3, <2>2, <2>4, <2>5
<1>4. ASSUME UNCHANGED <<out, meter, jumpHold, gate>> PROVE BoundedInv'
  BY <1>4 DEF BoundedInv
<1>5. CASE Tick
  BY <1>1, <1>3, <1>5 DEF Tick
<1>6. CASE OffBeat
  <2>1. PICK n \in 0..MaxLate : TickOffBeat(n)
    BY <1>6 DEF OffBeat
  <2>2. n \in Nat
    BY <2>1, EnvelopeNumbers
  <2> QED
    BY <1>3, <2>1, <2>2 DEF TickOffBeat
<1>7. CASE TickFails \/ TickHandsOff
  <2>1. Computes(Beat) /\ out' \in {out, Shorted, Delivered}
    BY <1>7 DEF TickFails, TickHandsOff
  <2>2. output' \in Int
    BY <1>0, <1>1, <2>1, ComputesRange
  <2>3. /\ -capacity <= Delivered /\ Delivered <= capacity /\ Delivered \in Int
        /\ -capacity <= Lesser(Delivered + Short, 0)
        /\ Greater(Delivered - Short, 0) <= capacity
    BY <1>0, <2>2, DeliveredBounded
  <2>4. Short \in Nat
    BY EnvelopeNumbers
  <2>5. Taken(Beat) \in 0..4
    BY <1>0, <1>1, <2>1, ComputesBounded
  <2>6. gate' \in 0..4
    BY <1>7, <2>5 DEF TickFails, TickHandsOff
  <2>7. out' = out \/ (-capacity <= out' /\ out' <= capacity)
    <3>1. \/ out' = out \/ out' = Delivered
          \/ out' = IF Delivered >= 0 THEN Greater(Delivered - Short, 0)
                    ELSE Lesser(Delivered + Short, 0)
      BY <2>1 DEF Shorted
    <3> HIDE DEF Delivered
    <3> QED
      BY <1>1, <2>3, <2>4, <3>1 DEF Greater, Lesser
  <2> QED
    BY <1>1, <1>2, <2>1, <2>6, <2>7
<1>8. CASE Reseed
  <2>1. UNCHANGED <<out, meter>> /\ jumpHold' = 0 /\ gate' = 0
    BY <1>8 DEF Reseed, meterVars
  <2> QED
    BY <2>1 DEF BoundedInv
<1>9. CASE LoadChanges \/ LimitsChange \/ Command \/ ReadinessChanges
  BY <1>4, <1>9 DEF LoadChanges, LimitsChange, Command, ReadinessChanges, meterVars, controlVars
<1>10. CASE Cease \/ Energize \/ CapacityChanges \/ ChildReports
  BY <1>4, <1>10 DEF Cease, Energize, CapacityChanges, ChildReports, meterVars, controlVars
<1>11. CASE MeterStops \/ MeterReturns
  BY <1>4, <1>11 DEF MeterStops, MeterReturns, meterVars, controlVars
<1>12. CASE UNCHANGED envelopeVars
  BY <1>4, <1>12 DEF envelopeVars, meterVars, controlVars
<1> QED
  BY <1>5, <1>6, <1>7, <1>8, <1>9, <1>10, <1>11, <1>12 DEF EnvelopeNext, TickStep

-----------------------------------------------------------------------------
(* The limits are held *)

\* All the module has, against either limit.
ExportGiven == out <= -MostCharge
ImportGiven == out = MostDischarge \/ (gate = 4 /\ out >= 0)

\* After so many undisturbed ticks the loop's own waits are over, its rooms are
\* damped that far and its excess has shrunk that far.
SettleInv(damp, excess) ==
    Steered /\ metered =>
        /\ since >= 1 => prev = limit /\ out = output /\ -capacity <= out /\ out <= capacity
        /\ jumpHold <= Greater(0, 4 - since)
        /\ gate # 4 => gate <= Greater(0, 3 - since)
        /\ limit.export # Far =>
             /\ Damped(Len(meter), ExportRooms, since, damp)
             /\ Poi + limit.export >= -excess[since] \/ ExportGiven
        /\ limit.import # Far =>
             /\ Damped(Len(meter), ImportRooms, since, damp)
             /\ limit.import - Poi >= -excess[since] \/ ImportGiven

\* The rooms are bounded now,
LEMMA RoomsNow ==
  ASSUME EnvelopeConstants, EnvelopeTypes, BoundedInv
  PROVE  /\ Len(meter) \in 1..3
         /\ ExportRooms \in [1..(Len(meter) + 1) -> Int]
         /\ ImportRooms \in [1..(Len(meter) + 1) -> Int]
         /\ \A i \in 1..(Len(meter) + 1) : /\ ExportRooms[i] >= -Far /\ ExportRooms[i] <= 2 * Far
                                       /\ ImportRooms[i] >= -Far /\ ImportRooms[i] <= 2 * Far
         /\ ExportRooms[Len(meter) + 1] = Poi + limit.export
         /\ ImportRooms[Len(meter) + 1] = limit.import - Poi
         /\ ExportRooms[1] = meter[1] + limit.export
         /\ ImportRooms[1] = limit.import - meter[1]
         /\ -Far <= Poi /\ Poi <= Far /\ Poi \in Int
         /\ limit.export \in 0..Far /\ limit.import \in 0..Far
<1>1. -Far <= Poi /\ Poi <= Far /\ Poi \in Int
  BY BoundedPoi DEF BoundedInv
<1>2. limit.export \in 0..Far /\ limit.import \in 0..Far /\ Far \in Nat
  BY LimitNumbers
<1>3. meter \in Seq(Int) /\ Len(meter) >= 1 /\ Len(meter) <= 3
      /\ \A i \in 1..Len(meter) : -Far <= meter[i] /\ meter[i] <= Far
  BY DEF EnvelopeTypes, BoundedInv
<1> HIDE DEF Poi
<1> DEFINE lag == Len(meter)
           export == limit.export
           import == limit.import
<1>4. lag \in 1..3 /\ \A i \in 1..lag : meter[i] \in Int
  <2>1. Len(meter) \in Nat
    BY ONLY <1>3
  <2>2. \A i \in 1..Len(meter) : meter[i] \in Int
    BY ONLY <1>3
  <2>3. \A k \in Nat : k >= 1 /\ k <= 3 => k \in 1..3
    OBVIOUS
  <2> QED
    BY <1>3, <2>1, <2>2, <2>3
<1>5. /\ Trail = [i \in 1..(lag + 1) |-> IF i <= lag THEN meter[i] ELSE Poi]
      /\ ExportRooms = [i \in 1..(lag + 1) |-> Trail[i] + export]
      /\ ImportRooms = [i \in 1..(lag + 1) |-> import - Trail[i]]
  BY DEF Trail, ExportRooms, ImportRooms
<1>6. \A i \in 1..lag : -Far <= meter[i] /\ meter[i] <= Far
  BY <1>3
<1>7. export \in 0..Far /\ import \in 0..Far /\ Far \in Nat
  BY <1>2
<1> HIDE DEF lag, export, import
<1>8. \A i \in 1..(lag + 1) : Trail[i] = IF i <= lag THEN meter[i] ELSE Poi
  BY ONLY <1>5
<1>9. 1 \in 1..(lag + 1) /\ 1 <= lag /\ lag + 1 \in 1..(lag + 1) /\ ~(lag + 1 <= lag)
  BY ONLY <1>4
<1>10. Trail[1] = meter[1] /\ Trail[lag + 1] = Poi
  BY ONLY <1>8, <1>9
<1>11. ASSUME NEW i \in 1..(lag + 1)
       PROVE  /\ ExportRooms[i] = Trail[i] + export /\ ImportRooms[i] = import - Trail[i]
              /\ Trail[i] + export \in Int /\ import - Trail[i] \in Int
              /\ Trail[i] + export >= -Far /\ Trail[i] + export <= 2 * Far
              /\ import - Trail[i] >= -Far /\ import - Trail[i] <= 2 * Far
  <2>1. Trail[i] \in Int /\ -Far <= Trail[i] /\ Trail[i] <= Far
    <3>1. CASE i <= lag
      <4>1. i \in 1..lag
        BY ONLY <1>4, <3>1, i \in 1..(lag + 1)
      <4> QED
        BY ONLY <1>4, <1>6, <1>8, <3>1, <4>1, i \in 1..(lag + 1)
    <3>2. CASE ~(i <= lag)
      BY ONLY <1>1, <1>8, <3>2, i \in 1..(lag + 1)
    <3> QED
      BY <3>1, <3>2
  <2>2. ExportRooms[i] = Trail[i] + export /\ ImportRooms[i] = import - Trail[i]
    BY ONLY <1>5, i \in 1..(lag + 1)
  <2> QED
    BY ONLY <1>7, <2>1, <2>2
<1>12. ExportRooms \in [1..(lag + 1) -> Int] /\ ImportRooms \in [1..(lag + 1) -> Int]
  <2>1. \A i \in 1..(lag + 1) : Trail[i] + export \in Int /\ import - Trail[i] \in Int
    BY <1>11
  <2> QED
    BY ONLY <1>5, <2>1
<1>13. \A i \in 1..(lag + 1) : /\ ExportRooms[i] >= -Far /\ ExportRooms[i] <= 2 * Far
                               /\ ImportRooms[i] >= -Far /\ ImportRooms[i] <= 2 * Far
  BY <1>11
<1>14. /\ ExportRooms[lag + 1] = Poi + export /\ ImportRooms[lag + 1] = import - Poi
       /\ ExportRooms[1] = meter[1] + export /\ ImportRooms[1] = import - meter[1]
  BY ONLY <1>5, <1>9, <1>10
<1> QED
  BY <1>1, <1>4, <1>7, <1>12, <1>13, <1>14 DEF lag, export, import

\* and after a step.
LEMMA RoomsNext ==
  ASSUME EnvelopeConstants, EnvelopeTypes', BoundedInv'
  PROVE  /\ Len(meter') \in 1..3
         /\ ExportRooms' \in [1..(Len(meter') + 1) -> Int]
         /\ ImportRooms' \in [1..(Len(meter') + 1) -> Int]
         /\ \A i \in 1..(Len(meter') + 1) : /\ ExportRooms'[i] >= -Far /\ ExportRooms'[i] <= 2 * Far
                                       /\ ImportRooms'[i] >= -Far /\ ImportRooms'[i] <= 2 * Far
         /\ ExportRooms'[Len(meter') + 1] = Poi' + limit'.export
         /\ ImportRooms'[Len(meter') + 1] = limit'.import - Poi'
         /\ ExportRooms'[1] = meter'[1] + limit'.export
         /\ ImportRooms'[1] = limit'.import - meter'[1]
         /\ -Far <= Poi' /\ Poi' <= Far /\ Poi' \in Int
         /\ limit'.export \in 0..Far /\ limit'.import \in 0..Far
<1>1. -Far <= Poi' /\ Poi' <= Far /\ Poi' \in Int
  <2>1. PICK c \in Capacities : -c <= out' /\ out' <= c
    BY DEF BoundedInv
  <2>2. load' \in Loads /\ out' \in Int
    BY DEF EnvelopeTypes
  <2>3. /\ load' \in Int /\ c \in Nat /\ Far \in Nat
        /\ load' + c <= Far /\ c - load' <= Far
    BY <2>2, EnvelopeNumbers
  <2>4. Poi' = load' - out'
    BY DEF Poi
  <2>5. \A l, o, d, x \in Int :
           -d <= o /\ o <= d /\ l + d <= x /\ d - l <= x => -x <= l - o /\ l - o <= x /\ l - o \in Int
    OBVIOUS
  <2> HIDE DEF Poi
  <2>6. c \in Int /\ Far \in Int
    BY <2>3
  <2> QED
    BY ONLY <2>1, <2>2, <2>3, <2>4, <2>5, <2>6
<1>2. limit'.export \in 0..Far /\ limit'.import \in 0..Far /\ Far \in Nat
  <2>1. limit' \in Limits
    BY DEF EnvelopeTypes, Limits
  <2> QED
    BY <2>1, EnvelopeNumbers DEF Limits
<1>3. meter' \in Seq(Int) /\ Len(meter') >= 1 /\ Len(meter') <= 3
      /\ \A i \in 1..Len(meter') : -Far <= meter'[i] /\ meter'[i] <= Far
  BY DEF EnvelopeTypes, BoundedInv
<1> HIDE DEF Poi
<1> DEFINE lag == Len(meter')
           export == limit'.export
           import == limit'.import
<1>4. lag \in 1..3 /\ \A i \in 1..lag : meter'[i] \in Int
  <2>1. Len(meter') \in Nat
    BY ONLY <1>3
  <2>2. \A i \in 1..Len(meter') : meter'[i] \in Int
    BY ONLY <1>3
  <2>3. \A k \in Nat : k >= 1 /\ k <= 3 => k \in 1..3
    OBVIOUS
  <2> QED
    BY <1>3, <2>1, <2>2, <2>3
<1>5. /\ Trail' = [i \in 1..(lag + 1) |-> IF i <= lag THEN meter'[i] ELSE Poi']
      /\ ExportRooms' = [i \in 1..(lag + 1) |-> Trail'[i] + export]
      /\ ImportRooms' = [i \in 1..(lag + 1) |-> import - Trail'[i]]
  BY DEF Trail, ExportRooms, ImportRooms
<1>6. \A i \in 1..lag : -Far <= meter'[i] /\ meter'[i] <= Far
  BY <1>3
<1>7. export \in 0..Far /\ import \in 0..Far /\ Far \in Nat
  BY <1>2
<1> HIDE DEF lag, export, import
<1>8. \A i \in 1..(lag + 1) : Trail'[i] = IF i <= lag THEN meter'[i] ELSE Poi'
  BY ONLY <1>5
<1>9. 1 \in 1..(lag + 1) /\ 1 <= lag /\ lag + 1 \in 1..(lag + 1) /\ ~(lag + 1 <= lag)
  BY ONLY <1>4
<1>10. Trail'[1] = meter'[1] /\ Trail'[lag + 1] = Poi'
  BY ONLY <1>8, <1>9
<1>11. ASSUME NEW i \in 1..(lag + 1)
       PROVE  /\ ExportRooms'[i] = Trail'[i] + export /\ ImportRooms'[i] = import - Trail'[i]
              /\ Trail'[i] + export \in Int /\ import - Trail'[i] \in Int
              /\ Trail'[i] + export >= -Far /\ Trail'[i] + export <= 2 * Far
              /\ import - Trail'[i] >= -Far /\ import - Trail'[i] <= 2 * Far
  <2>1. Trail'[i] \in Int /\ -Far <= Trail'[i] /\ Trail'[i] <= Far
    <3>1. CASE i <= lag
      <4>1. i \in 1..lag
        BY ONLY <1>4, <3>1, i \in 1..(lag + 1)
      <4> QED
        BY ONLY <1>4, <1>6, <1>8, <3>1, <4>1, i \in 1..(lag + 1)
    <3>2. CASE ~(i <= lag)
      BY ONLY <1>1, <1>8, <3>2, i \in 1..(lag + 1)
    <3> QED
      BY <3>1, <3>2
  <2>2. ExportRooms'[i] = Trail'[i] + export /\ ImportRooms'[i] = import - Trail'[i]
    BY ONLY <1>5, i \in 1..(lag + 1)
  <2> QED
    BY ONLY <1>7, <2>1, <2>2
<1>12. ExportRooms' \in [1..(lag + 1) -> Int] /\ ImportRooms' \in [1..(lag + 1) -> Int]
  <2>1. \A i \in 1..(lag + 1) : Trail'[i] + export \in Int /\ import - Trail'[i] \in Int
    BY <1>11
  <2> QED
    BY ONLY <1>5, <2>1
<1>13. \A i \in 1..(lag + 1) : /\ ExportRooms'[i] >= -Far /\ ExportRooms'[i] <= 2 * Far
                               /\ ImportRooms'[i] >= -Far /\ ImportRooms'[i] <= 2 * Far
  BY <1>11
<1>14. /\ ExportRooms'[lag + 1] = Poi' + export /\ ImportRooms'[lag + 1] = import - Poi'
       /\ ExportRooms'[1] = meter'[1] + export /\ ImportRooms'[1] = import - meter'[1]
  BY ONLY <1>5, <1>9, <1>10
<1> QED
  BY <1>1, <1>4, <1>7, <1>12, <1>13, <1>14 DEF lag, export, import

\* Before the first undisturbed tick any defect is allowed.
LEMMA DampedAtFirst ==
  ASSUME Settling \in Nat, Far \in Nat,
         NEW damp \in [0..Settling -> Nat], NEW excess \in [0..Settling -> Nat],
         SettlesBy(Settling, Far, damp, excess),
         NEW lag \in 1..3, NEW rooms \in [1..(lag + 1) -> Int],
         \A i \in 1..(lag + 1) : rooms[i] >= -Far /\ rooms[i] <= 2 * Far
  PROVE  Damped(lag, rooms, 0, damp)
<1>1. damp[0] \in Nat /\ damp[0] >= 10 * Far
  <2>1. 0 \in 0..Settling /\ 1 \in 0..Settling /\ 0 <= 1 /\ damp[1] >= 10 * Far
    BY DEF SettlesBy
  <2>2. damp[1] <= damp[0] /\ damp[0] \in Nat /\ damp[1] \in Nat
    BY <2>1 DEF SettlesBy
  <2> QED
    BY <2>1, <2>2
<1>2. ASSUME NEW i \in 1..lag
      PROVE  4 * rooms[i + 1] >= Low(rooms[i]) - damp[Greater(0, 0 - (lag - i))]
  <2>1. i \in 1..(lag + 1) /\ i + 1 \in 1..(lag + 1) /\ Greater(0, 0 - (lag - i)) = 0
    BY ONLY lag \in 1..3, i \in 1..lag DEF Greater
  <2>2. /\ rooms[i] \in Int /\ rooms[i] >= -Far /\ rooms[i] <= 2 * Far
        /\ rooms[i + 1] \in Int /\ rooms[i + 1] >= -Far
    BY <2>1
  <2>3. 4 * rooms[i + 1] >= Low(rooms[i]) - damp[0]
    BY ONLY <1>1, <2>2, Far \in Nat, LowAtFirst
  <2> QED
    BY <2>1, <2>3
<1> QED
  BY <1>2 DEF Damped

\* A change starts the count again.
LEMMA SettleResets ==
  ASSUME EnvelopeConstants, EnvelopeTypes', BoundedInv', since' = 0,
         NEW damp \in [0..Settling -> Nat], NEW excess \in [0..Settling -> Nat],
         SettlesBy(Settling, Far, damp, excess)
  PROVE  SettleInv(damp, excess)'
<1>1. Settling \in Nat /\ Far \in Nat
  BY EnvelopeNumbers
<1>2. Damped(Len(meter'), ExportRooms', 0, damp) /\ Damped(Len(meter'), ImportRooms', 0, damp)
  <2>1. /\ Len(meter') \in 1..3
        /\ ExportRooms' \in [1..(Len(meter') + 1) -> Int]
        /\ ImportRooms' \in [1..(Len(meter') + 1) -> Int]
        /\ \A i \in 1..(Len(meter') + 1) : ExportRooms'[i] >= -Far /\ ExportRooms'[i] <= 2 * Far
        /\ \A i \in 1..(Len(meter') + 1) : ImportRooms'[i] >= -Far /\ ImportRooms'[i] <= 2 * Far
    BY RoomsNext
  <2> QED
    BY <1>1, <2>1, DampedAtFirst
<1>3. excess[0] \in Nat /\ excess[0] >= Far
  BY <1>1 DEF SettlesBy
<1>4. Poi' + limit'.export >= -excess[0] /\ limit'.import - Poi' >= -excess[0]
  <2>1. -Far <= Poi' /\ Poi' <= Far /\ Poi' \in Int
        /\ limit'.export \in 0..Far /\ limit'.import \in 0..Far
    BY RoomsNext
  <2>2. \A q, x, f, e, i \in Int :
          -f <= q /\ q <= f /\ x >= f /\ e >= 0 /\ i >= 0 => q + e >= -x /\ i - q >= -x
    OBVIOUS
  <2>3. /\ limit'.export \in Int /\ limit'.export >= 0
        /\ limit'.import \in Int /\ limit'.import >= 0
        /\ Far \in Int /\ excess[0] \in Int
    BY <1>1, <1>3, <2>1
  <2> HIDE DEF Poi
  <2> QED
    BY ONLY <1>3, <2>1, <2>2, <2>3
<1>5. jumpHold' <= 3 /\ jumpHold' \in Nat /\ gate' \in 0..4
  BY DEF BoundedInv, EnvelopeTypes
<1>6. jumpHold' <= Greater(0, 4 - 0) /\ (gate' # 4 => gate' <= Greater(0, 3 - 0))
  BY ONLY <1>5 DEF Greater
<1>7. ~(0 >= 1)
  OBVIOUS
<1> HIDE DEF Poi, Trail, ExportRooms, ImportRooms, Damped
<1> QED
  BY <1>2, <1>4, <1>6, <1>7 DEF SettleInv

LEMMA SettleStarts ==
  ASSUME EnvelopeConstants, EnvelopeTypes, BoundedInv, since = 0,
         NEW damp \in [0..Settling -> Nat], NEW excess \in [0..Settling -> Nat],
         SettlesBy(Settling, Far, damp, excess)
  PROVE  SettleInv(damp, excess)
<1>1. Settling \in Nat /\ Far \in Nat
  BY EnvelopeNumbers
<1>2. Damped(Len(meter), ExportRooms, 0, damp) /\ Damped(Len(meter), ImportRooms, 0, damp)
  <2>1. /\ Len(meter) \in 1..3
        /\ ExportRooms \in [1..(Len(meter) + 1) -> Int]
        /\ ImportRooms \in [1..(Len(meter) + 1) -> Int]
        /\ \A i \in 1..(Len(meter) + 1) : ExportRooms[i] >= -Far /\ ExportRooms[i] <= 2 * Far
        /\ \A i \in 1..(Len(meter) + 1) : ImportRooms[i] >= -Far /\ ImportRooms[i] <= 2 * Far
    BY RoomsNow
  <2> QED
    BY <1>1, <2>1, DampedAtFirst
<1>3. excess[0] \in Nat /\ excess[0] >= Far
  BY <1>1 DEF SettlesBy
<1>4. Poi + limit.export >= -excess[0] /\ limit.import - Poi >= -excess[0]
  <2>1. -Far <= Poi /\ Poi <= Far /\ Poi \in Int
        /\ limit.export \in 0..Far /\ limit.import \in 0..Far
    BY RoomsNow
  <2> HIDE DEF Poi
  <2> QED
    BY ONLY <1>1, <1>3, <2>1
<1>5. jumpHold <= 3 /\ jumpHold \in Nat /\ gate \in 0..4
  BY DEF BoundedInv, EnvelopeTypes
<1>6. jumpHold <= Greater(0, 4 - 0) /\ (gate # 4 => gate <= Greater(0, 3 - 0))
  BY ONLY <1>5 DEF Greater
<1>7. ~(0 >= 1)
  OBVIOUS
<1> HIDE DEF Poi, Trail, ExportRooms, ImportRooms, Damped
<1> QED
  BY <1>2, <1>4, <1>6, <1>7 DEF SettleInv

\* What lands of v when o was delivered before.
LEMMA LandedWithin ==
  ASSUME NEW cap \in Nat, NEW o \in Int, -cap <= o, o <= cap, NEW v \in Int
  PROVE  LET b == Clamp(v, -cap, cap)
         IN  /\ b \in Int /\ -cap <= b /\ b <= cap
             /\ b <= o \/ b <= v
             /\ b >= o \/ b >= v
             /\ b <= v \/ b = -cap
             /\ b >= v \/ b = cap
             /\ v >= o /\ o >= 0 => b >= 0
BY DEF Clamp

\* The loop's waits run out.
LEMMA SettleWaits ==
  ASSUME EnvelopeConstants, EnvelopeInv, BoundedInv, Steered, metered, Tick,
         NEW damp \in [0..Settling -> Nat], NEW excess \in [0..Settling -> Nat],
         SettlesBy(Settling, Far, damp, excess), SettleInv(damp, excess)
  PROVE  /\ jumpHold' <= Greater(0, 4 - since')
         /\ gate' # 4 => gate' <= Greater(0, 3 - since')
         /\ gate = 4 => gate' = 4
<1>0. EnvelopeTypes /\ DeliveredInv
  BY DEF EnvelopeInv
<1>1. Beat = 1 /\ reported /\ 1 \in Nat
  BY DEF Steered, Beat
<1>2. Computes(1) /\ Lands(1) /\ since' = Lesser(since + 1, Settling)
  BY <1>1 DEF Tick
<1>3. Controls(1)
  BY <1>2 DEF Computes, Stale
<1>4. since \in 0..Settling /\ Settling \in Nat /\ Settling >= 5
  BY <1>0, EnvelopeNumbers DEF EnvelopeTypes, SettlesBy
<1>5. since' = since + 1 \/ (since' = since /\ since >= 5)
  BY ONLY <1>2, <1>4 DEF Lesser
<1>6. /\ jumpHold \in Nat /\ jumpHold <= 3 /\ jumpHold <= Greater(0, 4 - since)
      /\ gate \in 0..4 /\ (gate # 4 => gate <= Greater(0, 3 - since))
  BY <1>0 DEF BoundedInv, EnvelopeTypes, SettleInv
<1>7. jumpHold' = IF Bounds(1).jumped THEN JumpHoldReadings
                  ELSE IF jumpHold > 0 /\ 1 > 0 THEN jumpHold - 1 ELSE jumpHold
  BY <1>3 DEF Controls
<1>8. jumpHold' <= Greater(0, 4 - since')
  <2>1. CASE since = 0
    <3>1. jumpHold' = 3 \/ jumpHold' = jumpHold - 1 \/ jumpHold' = jumpHold
      BY <1>7, Zenon DEF JumpHoldReadings
    <3>2. since' = 1
      BY ONLY <1>4, <1>5, <2>1
    <3> QED
      BY ONLY <1>6, <3>1, <3>2 DEF Greater
  <2>2. CASE since # 0
    <3>1. prev = limit
      <4>1. since >= 1
        BY ONLY <1>4, <2>2
      <4> QED
        BY <4>1 DEF SettleInv
    <3>2. Reading(1) <= Far
      <4>1. Reading(1) = meter[1]
        <5>1. Reading(1) = IF 1 <= Len(meter) THEN meter[1] ELSE Poi
          BY <1>0, <1>1, ShiftedType
        <5> QED
          BY <1>0, <5>1 DEF EnvelopeTypes
      <4>2. Len(meter) \in 1..3
        BY <1>0, RoomsNow
      <4> QED
        BY <4>1, <4>2 DEF BoundedInv
    <3>3. ~Bounds(1).jumped
      BY <1>0, <1>3, <3>1, <3>2, SettlingReach
    <3>4. jumpHold' = IF jumpHold > 0 THEN jumpHold - 1 ELSE jumpHold
      BY <1>7, <3>3
    <3> QED
      BY ONLY <1>4, <1>5, <1>6, <3>4 DEF Greater
  <2> QED
    BY <2>1, <2>2
<1>9. gate' = IF Taken(1) = 3 THEN 2 ELSE Taken(1)
  BY <1>1, <1>2 DEF Lands
<1>10. Taken(1) = IF gate \in 1..2 THEN gate - 1 ELSE gate
  BY DEF Taken
<1>11. /\ gate' # 4 => gate' <= Greater(0, 3 - since')
       /\ gate = 4 => gate' = 4
  <2>1. \/ gate = 0 /\ gate' = 0
        \/ gate = 1 /\ gate' = 0
        \/ gate = 2 /\ gate' = 1
        \/ gate = 3 /\ gate' = 2
        \/ gate = 4 /\ gate' = 4
    <3>1. gate = 0 \/ gate = 1 \/ gate = 2 \/ gate = 3 \/ gate = 4
      BY <1>6
    <3> QED
      BY ONLY <1>9, <1>10, <3>1
  <2>2. \A g, h, x, y \in Int :
          /\ g <= Greater(0, 3 - x) /\ x >= 0 /\ (y = x + 1 \/ (y = x /\ x >= 5))
          /\ (h = 0 \/ (h = g - 1 /\ g >= 1))
          => h <= Greater(0, 3 - y)
    BY DEF Greater
  <2>3. since \in Int /\ since' \in Int /\ since >= 0
    BY ONLY <1>4, <1>5
  <2>4. gate # 4 => gate <= Greater(0, 3 - since)
    BY <1>6
  <2> QED
    BY ONLY <1>5, <2>1, <2>2, <2>3, <2>4
<1> QED
  BY <1>8, <1>11

\* Against the export limit the excess shrinks with every such tick, or all has
\* been given: rooms are those before it, o what was delivered, v what is set, b
\* what lands of it, and e and x what the excess may be before and after.
ExportShrinks(lag, rooms, cap, most, o, v, b, e, x) ==
    /\ \A i \in 1..lag : 4 * rooms[i + 1] >= Low(rooms[i])
    /\ most <= cap
    /\ -cap <= o /\ o <= cap
    /\ b = Clamp(v, -cap, cap)
    /\ v <= o \/ 10 * (v - o) <= rooms[1]
    /\ rooms[1] < 0 => v <= o - ((-rooms[1]) \div 10)
    /\ x >= e - (e \div 10)
    /\ rooms[lag + 1] >= -e \/ o <= -most
    => rooms[lag + 1] + o - b >= -x \/ b <= -most

LEMMA ExportSettles ==
  ASSUME NEW lag \in 1..3, NEW rooms \in [1..(lag + 1) -> Int],
         NEW cap \in Nat, NEW most \in Nat,
         NEW o \in Int, NEW v \in Int, NEW b \in Int, NEW e \in Nat, NEW x \in Nat
  PROVE  ExportShrinks(lag, rooms, cap, most, o, v, b, e, x)
<1> SUFFICES ASSUME \A i \in 1..lag : 4 * rooms[i + 1] >= Low(rooms[i]),
                    most <= cap, -cap <= o, o <= cap,
                    b = Clamp(v, -cap, cap),
                    v <= o \/ 10 * (v - o) <= rooms[1],
                    rooms[1] < 0 => v <= o - ((-rooms[1]) \div 10),
                    x >= e - (e \div 10),
                    rooms[lag + 1] >= -e \/ o <= -most
             PROVE  rooms[lag + 1] + o - b >= -x \/ b <= -most
  BY DEF ExportShrinks
<1> DEFINE h == rooms[lag + 1] + o - b
           now == rooms[lag + 1]
           r == rooms[1]
           q == (-r) \div 10
<1>1. now \in Int /\ r \in Int
  <2>1. 1 \in 1..(lag + 1) /\ lag + 1 \in 1..(lag + 1)
    BY ONLY lag \in 1..3
  <2> QED
    BY <2>1
<1>a. h \in Int /\ h = now + o - b
  BY <1>1
<1> SUFFICES h >= -x \/ b <= -most
  OBVIOUS
<1> HIDE DEF h
<1>2. /\ b <= o \/ b <= v
      /\ b <= v \/ b = -cap
  BY LandedWithin
<1>3. b <= o \/ 10 * (b - o) <= r
  <2>1. v <= o \/ 10 * (v - o) <= r
    OBVIOUS
  <2> HIDE DEF r
  <2> QED
    BY ONLY <1>1, <1>2, <2>1, b \in Int, o \in Int, v \in Int
<1>4. h >= now \/ 10 * (now - h) <= r
  <2> HIDE DEF r, now
  <2> QED
    BY ONLY <1>1, <1>3, b \in Int, o \in Int, <1>a
<1>5. \/ h >= 0
      \/ /\ r < 0
         /\ h >= now
         /\ now >= -e /\ h >= now + q => h >= -x
  BY <1>4, <1>a, ExcessShrinks
<1>6. r < 0 => v <= o - q
  OBVIOUS
<1>7. (now >= -e \/ o <= -most) /\ q \in Int
  BY <1>1
<1> HIDE DEF now, r, q
<1>8. CASE h >= 0
  BY ONLY <1>8, <1>a, x \in Nat
<1>9. CASE r < 0 /\ h >= now /\ (now >= -e /\ h >= now + q => h >= -x)
  BY ONLY <1>1, <1>2, <1>6, <1>7, <1>9, b \in Int, o \in Int, v \in Int, <1>a, x \in Nat,
          e \in Nat, cap \in Nat, most \in Nat, most <= cap
<1> QED
  BY <1>5, <1>8, <1>9

\* and against the import limit, unless a lost handoff holds the approach for good.
ImportShrinks(lag, rooms, cap, rated, g, o, v, b, e, x) ==
    /\ \A i \in 1..lag : 4 * rooms[i + 1] >= Low(rooms[i])
    /\ -cap <= o /\ o <= cap
    /\ v <= rated
    /\ b = Clamp(v, -cap, cap)
    /\ v >= o \/ 10 * (o - v) <= rooms[1]
    /\ rooms[1] < 0 => \/ v >= o + ((-rooms[1]) \div 10)
                       \/ v = rated
                       \/ g = 4 /\ o >= 0 /\ v >= o
    /\ x >= e - (e \div 10)
    /\ rooms[lag + 1] >= -e \/ o = Lesser(cap, rated) \/ (g = 4 /\ o >= 0)
    => rooms[lag + 1] + b - o >= -x \/ b = Lesser(cap, rated) \/ (g = 4 /\ b >= 0)

LEMMA ImportSettles ==
  ASSUME NEW lag \in 1..3, NEW rooms \in [1..(lag + 1) -> Int],
         NEW cap \in Nat, NEW rated \in Nat, NEW g \in Int,
         NEW o \in Int, NEW v \in Int, NEW b \in Int, NEW e \in Nat, NEW x \in Nat
  PROVE  ImportShrinks(lag, rooms, cap, rated, g, o, v, b, e, x)
<1> SUFFICES ASSUME \A i \in 1..lag : 4 * rooms[i + 1] >= Low(rooms[i]),
                    -cap <= o, o <= cap, v <= rated,
                    b = Clamp(v, -cap, cap),
                    v >= o \/ 10 * (o - v) <= rooms[1],
                    rooms[1] < 0 => \/ v >= o + ((-rooms[1]) \div 10)
                                    \/ v = rated
                                    \/ g = 4 /\ o >= 0 /\ v >= o,
                    x >= e - (e \div 10),
                    rooms[lag + 1] >= -e \/ o = Lesser(cap, rated) \/ (g = 4 /\ o >= 0)
             PROVE  rooms[lag + 1] + b - o >= -x \/ b = Lesser(cap, rated) \/ (g = 4 /\ b >= 0)
  BY DEF ImportShrinks
<1> DEFINE h == rooms[lag + 1] + b - o
           now == rooms[lag + 1]
           r == rooms[1]
           q == (-r) \div 10
           most == Lesser(cap, rated)
<1>1. now \in Int /\ r \in Int
  <2>1. 1 \in 1..(lag + 1) /\ lag + 1 \in 1..(lag + 1)
    BY ONLY lag \in 1..3
  <2> QED
    BY <2>1
<1>a. h \in Int /\ h = now + b - o
  BY <1>1
<1> SUFFICES h >= -x \/ b = most \/ (g = 4 /\ b >= 0)
  OBVIOUS
<1> HIDE DEF h
<1>2. /\ b >= o \/ b >= v
      /\ b >= v \/ b = cap
      /\ v >= o /\ o >= 0 => b >= 0
  BY LandedWithin
<1>3. /\ most \in Int /\ b <= most
      /\ v = rated => b = most
      /\ b = cap => b = most
  BY ONLY cap \in Nat, rated \in Nat, v \in Int, v <= rated, b = Clamp(v, -cap, cap)
     DEF Clamp, Lesser
<1>4. b >= o \/ 10 * (o - b) <= r
  <2>1. v >= o \/ 10 * (o - v) <= r
    OBVIOUS
  <2> HIDE DEF r
  <2> QED
    BY ONLY <1>1, <1>2, <2>1, b \in Int, o \in Int, v \in Int
<1>5. h >= now \/ 10 * (now - h) <= r
  <2> HIDE DEF r, now
  <2> QED
    BY ONLY <1>1, <1>4, b \in Int, o \in Int, <1>a
<1>6. \/ h >= 0
      \/ /\ r < 0
         /\ h >= now
         /\ now >= -e /\ h >= now + q => h >= -x
  BY <1>5, <1>a, ExcessShrinks
<1>7. r < 0 => v >= o + q \/ v = rated \/ (g = 4 /\ o >= 0 /\ v >= o)
  OBVIOUS
<1>8. (now >= -e \/ o = most \/ (g = 4 /\ o >= 0)) /\ q \in Int
  BY <1>1
<1> HIDE DEF now, r, q, most
<1>9. CASE h >= 0
  BY ONLY <1>9, <1>a, x \in Nat
<1>10. CASE r < 0 /\ h >= now /\ (now >= -e /\ h >= now + q => h >= -x)
  <2>1. b >= o
    BY ONLY <1>1, <1>8, <1>10, b \in Int, o \in Int, <1>a
  <2>2. CASE o = most
    BY ONLY <1>3, <2>1, <2>2, b \in Int, o \in Int
  <2>3. CASE g = 4 /\ o >= 0
    BY ONLY <2>1, <2>3, b \in Int, o \in Int
  <2>4. CASE now >= -e /\ v >= o + q
    BY ONLY <1>1, <1>2, <1>3, <1>8, <1>10, <2>4, b \in Int, o \in Int, v \in Int, <1>a
  <2>5. CASE v = rated
    BY <1>3, <2>5
  <2> QED
    BY <1>7, <1>8, <1>10, <2>2, <2>3, <2>4, <2>5
<1> QED
  BY <1>6, <1>9, <1>10

\* A tick a second on moves the rooms up the trail by one.
LEMMA RoomsMove ==
  ASSUME EnvelopeConstants, EnvelopeTypes, EnvelopeTypes', BoundedInv, BoundedInv', Computes(1)
  PROVE  /\ Len(meter') = Len(meter)
         /\ \A i \in 1..Len(meter) : /\ ExportRooms'[i] = ExportRooms[i + 1]
                                     /\ ImportRooms'[i] = ImportRooms[i + 1]
         /\ ExportRooms'[Len(meter) + 1] = ExportRooms[Len(meter) + 1] + out - out'
         /\ ImportRooms'[Len(meter) + 1] = ImportRooms[Len(meter) + 1] + out' - out
         /\ Reading(1) = meter[1]
<1> DEFINE lag == Len(meter)
<1>1. 1 \in Nat /\ 1 > 0 /\ Dt(1) = 1
  BY DEF Dt, Greater
<1>2. lag \in 1..3 /\ Poi \in Int
  BY RoomsNow
<1>3. /\ Len(meter') = lag
      /\ \A i \in 1..lag : Trail'[i] = Trail[Lesser(i + 1, lag + 1)]
      /\ Reading(1) = Trail[Lesser(1, lag + 1)]
  BY <1>1, TrailMoves
<1>4. UNCHANGED <<load, limit>>
  BY DEF Computes, siteVars
<1>5. /\ ExportRooms = [i \in 1..(lag + 1) |-> Trail[i] + limit.export]
      /\ ImportRooms = [i \in 1..(lag + 1) |-> limit.import - Trail[i]]
      /\ ExportRooms' = [i \in 1..(lag + 1) |-> Trail'[i] + limit.export]
      /\ ImportRooms' = [i \in 1..(lag + 1) |-> limit.import - Trail'[i]]
  BY <1>3, <1>4 DEF ExportRooms, ImportRooms
<1>6. /\ ExportRooms[lag + 1] = Poi + limit.export
      /\ ImportRooms[lag + 1] = limit.import - Poi
      /\ ExportRooms'[lag + 1] = Poi' + limit.export
      /\ ImportRooms'[lag + 1] = limit.import - Poi'
  BY <1>3, <1>4, RoomsNow, RoomsNext
<1>7. Trail[1] = meter[1]
  <2>1. 1 \in 1..(lag + 1) /\ 1 <= lag
    <3> HIDE DEF lag
    <3> QED
      BY ONLY <1>2
  <2> QED
    BY <2>1 DEF Trail
<1>8. load \in Int /\ out \in Int /\ out' \in Int /\ limit.export \in Int /\ limit.import \in Int
  <2>1. load \in Int /\ out \in Int /\ out' \in Int
    BY EnvelopeNumbers DEF EnvelopeTypes
  <2> QED
    BY <2>1, LimitNumbers
<1>9. Poi = load - out /\ Poi' = load - out'
  BY <1>4 DEF Poi
<1> HIDE DEF lag, Poi
<1>10. ASSUME NEW i \in 1..lag
       PROVE  ExportRooms'[i] = ExportRooms[i + 1] /\ ImportRooms'[i] = ImportRooms[i + 1]
  <2>1. i \in 1..(lag + 1) /\ i + 1 \in 1..(lag + 1) /\ Lesser(i + 1, lag + 1) = i + 1
    BY ONLY <1>2, i \in 1..lag DEF Lesser
  <2> QED
    BY ONLY <1>3, <1>5, <2>1, i \in 1..lag
<1>11. Lesser(1, lag + 1) = 1
  BY ONLY <1>2 DEF Lesser
<1>12. /\ ExportRooms'[lag + 1] = ExportRooms[lag + 1] + out - out'
       /\ ImportRooms'[lag + 1] = ImportRooms[lag + 1] + out' - out
  BY ONLY <1>6, <1>8, <1>9
<1> QED
  BY <1>3, <1>7, <1>10, <1>11, <1>12 DEF lag

\* What an undisturbed tick of a steered module sets is what lands.
LEMMA SteeredLands ==
  ASSUME EnvelopeConstants, EnvelopeTypes, EnvelopeTypes', Steered, Lands(1),
         NEW v \in Int, Commands(v)
  PROVE  /\ out' = Clamp(v, -capacity, capacity) /\ output' = out'
         /\ -capacity <= out' /\ out' <= capacity
<1>1. capacity \in Nat
  BY EnvelopeNumbers DEF EnvelopeTypes
<1>2. output' = Clamp(v, -capacity, capacity)
  BY DEF Commands, Steered
<1>3. out' = Clamp(output', -capacity, capacity)
  BY DEF Lands, Delivered, Steered
<1> QED
  BY <1>1, <1>2, <1>3 DEF Clamp

\* Once the defects before the last three ticks are gone, none is on the trail.
LEMMA DefectsGone ==
  ASSUME Settling \in Nat,
         NEW damp \in [0..Settling -> Nat],
         \A s, t \in 0..Settling : s <= t => damp[t] <= damp[s],
         NEW lag \in 1..3, NEW s \in 0..Settling, s >= 4, damp[s - 2] = 0,
         NEW rooms \in [1..(lag + 1) -> Int], Damped(lag, rooms, s, damp)
  PROVE  \A i \in 1..lag : 4 * rooms[i + 1] >= Low(rooms[i])
<1> SUFFICES ASSUME NEW i \in 1..lag PROVE 4 * rooms[i + 1] >= Low(rooms[i])
  OBVIOUS
<1> DEFINE y == Greater(0, s - (lag - i))
<1>1. y \in 0..Settling /\ s - 2 \in 0..Settling /\ s - 2 <= y
  BY ONLY Settling \in Nat, lag \in 1..3, i \in 1..lag, s \in 0..Settling, s >= 4 DEF Greater
<1>2. 4 * rooms[i + 1] >= Low(rooms[i]) - damp[y]
  BY DEF Damped
<1> HIDE DEF y
<1>3. damp[y] = 0
  <2>1. damp[y] <= damp[s - 2] /\ damp[y] \in Nat
    BY <1>1
  <2> QED
    BY <2>1
<1>4. rooms[i] \in Int
  <2>1. i \in 1..(lag + 1)
    BY ONLY lag \in 1..3, i \in 1..lag
  <2> QED
    BY <2>1
<1>5. \A a \in Int : Low(a) - 0 = Low(a)
  BY DEF Low
<1> QED
  BY <1>2, <1>3, <1>4, <1>5

\* An undisturbed tick takes the loop one further on its way.
LEMMA SettleTick ==
  ASSUME EnvelopeConstants, EnvelopeInv, EnvelopeInv', BoundedInv, BoundedInv', Steered, metered, Tick,
         NEW damp \in [0..Settling -> Nat], NEW excess \in [0..Settling -> Nat],
         SettlesBy(Settling, Far, damp, excess), SettleInv(damp, excess)
  PROVE  SettleInv(damp, excess)'
<1>0. EnvelopeTypes /\ DeliveredInv /\ EnvelopeTypes'
  BY DEF EnvelopeInv
<1>1. Beat = 1 /\ 1 \in Nat
  BY DEF Steered, Beat
<1>2. Computes(1) /\ Lands(1) /\ since' = Lesser(since + 1, Settling)
  BY <1>1 DEF Tick
<1>3. Controls(1) /\ prev' = limit
  BY <1>2 DEF Computes, Stale, Controls
<1>4. since \in 0..Settling /\ Settling \in Nat /\ Far \in Nat /\ capacity \in Nat
      /\ PowerMax \in Nat /\ -PowerMin \in Nat /\ out \in Int /\ out' \in Int
  BY <1>0, EnvelopeNumbers DEF EnvelopeTypes
<1>5. UNCHANGED <<limit, capacity, metered>> /\ Steered'
  BY <1>2 DEF Computes, siteVars, plantVars, Steered
<1> DEFINE lag == Len(meter)
           E == ExportRooms
           I == ImportRooms
           F == ExportRooms'
           J == ImportRooms'
           u == Lesser(since + 1, Settling)
           h == F[lag + 1]
           k == J[lag + 1]
<1>6. /\ lag \in 1..3
      /\ E \in [1..(lag + 1) -> Int] /\ I \in [1..(lag + 1) -> Int]
      /\ E[lag + 1] = Poi + limit.export /\ I[lag + 1] = limit.import - Poi
      /\ E[1] = meter[1] + limit.export /\ I[1] = limit.import - meter[1]
  BY <1>0, RoomsNow
<1>7. /\ Len(meter') = lag
      /\ \A i \in 1..lag : F[i] = E[i + 1] /\ J[i] = I[i + 1]
      /\ h = E[lag + 1] + out - out'
      /\ k = I[lag + 1] + out' - out
      /\ Reading(1) = meter[1]
  BY <1>0, <1>2, RoomsMove
<1>8. /\ F \in [1..(lag + 1) -> Int] /\ J \in [1..(lag + 1) -> Int]
      /\ \A i \in 1..(lag + 1) : F[i] >= -Far /\ F[i] <= 2 * Far
      /\ \A i \in 1..(lag + 1) : J[i] >= -Far /\ J[i] <= 2 * Far
      /\ h = Poi' + limit.export /\ k = limit.import - Poi'
  BY <1>0, <1>5, <1>7, RoomsNext
<1>9. h \in Int /\ k \in Int /\ h >= -Far /\ k >= -Far
  <2>1. lag + 1 \in 1..(lag + 1)
    BY ONLY <1>6
  <2> QED
    BY <1>8, <2>1
<1>10. u \in 0..Settling /\ since' = u
  BY ONLY <1>2, <1>4, NextTick
<1>11. excess[u] \in Nat /\ excess[since] \in Nat
  BY <1>4, <1>10
<1>12. PICK w \in Int : Commands(w)
  <2>1. PICK w \in Int : Between(w, output, Target(Bounds(1))) /\ Commands(w)
    BY <1>0, <1>1, <1>3, ControlsAim
  <2> QED
    BY <2>1
<1>13. out' = output' /\ -capacity <= out' /\ out' <= capacity
  BY <1>0, <1>2, <1>12, SteeredLands
<1>14. /\ jumpHold' <= Greater(0, 4 - since')
       /\ gate' # 4 => gate' <= Greater(0, 3 - since')
       /\ gate = 4 => gate' = 4
  BY SettleWaits
<1>15. Reading(1) <= Far
  <2>1. 1 \in 1..lag
    BY ONLY <1>6
  <2> QED
    BY <1>7, <2>1 DEF BoundedInv
<1> HIDE DEF E, I, F, J, u, h, k, lag
\* What is set once the limits have stood for a tick.
<1>16. ASSUME since >= 1
       PROVE  \E v \in Int :
                /\ v <= PowerMax
                /\ out' = Clamp(v, -capacity, capacity)
                /\ -capacity <= out /\ out <= capacity
                /\ limit.export # Far =>
                     /\ v <= out \/ 10 * (v - out) <= E[1]
                     /\ E[1] < 0 /\ jumpHold = 0 => v <= out - ((-E[1]) \div 10)
                /\ limit.import # Far =>
                     /\ v >= out \/ 10 * (out - v) <= I[1]
                     /\ I[1] < 0 /\ jumpHold = 0 =>
                          \/ v >= out + ((-I[1]) \div 10)
                          \/ v = PowerMax
                          \/ Taken(1) # 0 /\ out >= 0 /\ v >= out
  <2>1. prev = limit /\ out = output /\ -capacity <= out /\ out <= capacity
    BY <1>16 DEF SettleInv
  <2>2. PICK v \in Int :
           /\ v <= PowerMax
           /\ Commands(v)
           /\ limit.export # Far =>
                /\ v <= output \/ 10 * (v - output) <= Reading(1) + limit.export
                /\ Reading(1) + limit.export < 0 /\ jumpHold = 0 =>
                     Recedes(v, -(Reading(1) + limit.export))
           /\ limit.import # Far =>
                /\ v >= output \/ 10 * (output - v) <= limit.import - Reading(1)
                /\ limit.import - Reading(1) < 0 /\ jumpHold = 0 =>
                     \/ Advances(v, -(limit.import - Reading(1)))
                     \/ v = PowerMax
                     \/ Taken(1) # 0 /\ output >= 0 /\ v >= output
    BY <1>0, <1>3, <1>15, <2>1, SettlingReach
  <2>3. out' = Clamp(v, -capacity, capacity)
    BY <1>0, <1>2, <2>2, SteeredLands
  <2>4. Reading(1) + limit.export = E[1] /\ limit.import - Reading(1) = I[1]
    BY <1>6, <1>7
  <2> WITNESS v \in Int
  <2> QED
    BY <2>1, <2>2, <2>3, <2>4 DEF Recedes, Advances
\* The rooms stay damped,
<1>17. limit.export # Far => Damped(lag, F, u, damp)
  <2> SUFFICES ASSUME limit.export # Far PROVE Damped(lag, F, u, damp)
    OBVIOUS
  <2>1. Damped(lag, E, since, damp)
    BY DEF SettleInv, E, lag
  <2>2. since >= 1 => h >= E[lag + 1] \/ 10 * (E[lag + 1] - h) <= E[1]
    <3> SUFFICES ASSUME since >= 1 PROVE h >= E[lag + 1] \/ 10 * (E[lag + 1] - h) <= E[1]
      OBVIOUS
    <3>1. PICK v \in Int : /\ out' = Clamp(v, -capacity, capacity)
                           /\ -capacity <= out /\ out <= capacity
                           /\ v <= out \/ 10 * (v - out) <= E[1]
      BY <1>16
    <3>2. out' <= out \/ out' <= v
      BY ONLY <1>4, <3>1, v \in Int, LandedWithin
    <3> DEFINE now == E[lag + 1]
               r == E[1]
    <3>3. now \in Int /\ r \in Int
      BY <1>6
    <3>4. h = now + out - out'
      BY <1>7
    <3>5. v <= out \/ 10 * (v - out) <= r
      BY <3>1
    <3> HIDE DEF now, r
    <3>6. \A a, b, n, s, z \in Int : /\ b <= a \/ b <= z
                                     /\ z <= a \/ 10 * (z - a) <= s
                                     => n + a - b >= n \/ 10 * (n - (n + a - b)) <= s
      OBVIOUS
    <3>7. h >= now \/ 10 * (now - h) <= r
      BY ONLY <1>4, <3>2, <3>3, <3>4, <3>5, <3>6, v \in Int
    <3> QED
      BY <3>7 DEF now, r
  <2>3. \A i \in 1..lag : F[i] = E[i + 1]
    BY <1>7
  <2> QED
    BY ONLY <1>4, <1>6, <1>8, <2>1, <2>2, <2>3, SideDamps, SettlesBy(Settling, Far, damp, excess),
            damp \in [0..Settling -> Nat], excess \in [0..Settling -> Nat] DEF u, h
<1>18. limit.import # Far => Damped(lag, J, u, damp)
  <2> SUFFICES ASSUME limit.import # Far PROVE Damped(lag, J, u, damp)
    OBVIOUS
  <2>1. Damped(lag, I, since, damp)
    BY DEF SettleInv, I, lag
  <2>2. since >= 1 => k >= I[lag + 1] \/ 10 * (I[lag + 1] - k) <= I[1]
    <3> SUFFICES ASSUME since >= 1 PROVE k >= I[lag + 1] \/ 10 * (I[lag + 1] - k) <= I[1]
      OBVIOUS
    <3>1. PICK v \in Int : /\ out' = Clamp(v, -capacity, capacity)
                           /\ -capacity <= out /\ out <= capacity
                           /\ v >= out \/ 10 * (out - v) <= I[1]
      BY <1>16
    <3>2. out' >= out \/ out' >= v
      BY ONLY <1>4, <3>1, v \in Int, LandedWithin
    <3> DEFINE now == I[lag + 1]
               r == I[1]
    <3>3. now \in Int /\ r \in Int
      BY <1>6
    <3>4. k = now + out' - out
      BY <1>7
    <3>5. v >= out \/ 10 * (out - v) <= r
      BY <3>1
    <3> HIDE DEF now, r
    <3>6. \A a, b, n, s, z \in Int : /\ b >= a \/ b >= z
                                     /\ z >= a \/ 10 * (a - z) <= s
                                     => n + b - a >= n \/ 10 * (n - (n + b - a)) <= s
      OBVIOUS
    <3>7. k >= now \/ 10 * (now - k) <= r
      BY ONLY <1>4, <3>2, <3>3, <3>4, <3>5, <3>6, v \in Int
    <3> QED
      BY <3>7 DEF now, r
  <2>3. \A i \in 1..lag : J[i] = I[i + 1]
    BY <1>7
  <2> QED
    BY ONLY <1>4, <1>6, <1>8, <2>1, <2>2, <2>3, SideDamps, SettlesBy(Settling, Far, damp, excess),
            damp \in [0..Settling -> Nat], excess \in [0..Settling -> Nat] DEF u, k
\* and the excess shrinks.
<1>19. \/ excess[u] >= Far
       \/ since >= 4 /\ damp[since - 2] = 0 /\ excess[u] >= excess[since] - (excess[since] \div 10)
  BY <1>4 DEF SettlesBy, u
<1>20. \A s, t \in 0..Settling : s <= t => damp[t] <= damp[s]
  BY DEF SettlesBy
<1>21. ASSUME since >= 4 PROVE jumpHold = 0 /\ (Taken(1) # 0 => gate = 4)
  <2>1. jumpHold \in Nat /\ jumpHold <= Greater(0, 4 - since)
    BY <1>0 DEF SettleInv, EnvelopeTypes
  <2>2. gate \in 0..4 /\ (gate # 4 => gate <= Greater(0, 3 - since))
    BY DEF SettleInv, BoundedInv
  <2>3. Greater(0, 4 - since) = 0 /\ Greater(0, 3 - since) = 0
    BY ONLY <1>4, <1>21 DEF Greater
  <2>4. jumpHold = 0 /\ (gate = 0 \/ gate = 4)
    BY ONLY <2>1, <2>2, <2>3
  <2> QED
    BY <2>4 DEF Taken
<1>22. limit.export # Far => h >= -excess[u] \/ out' <= -MostCharge
  <2> SUFFICES ASSUME limit.export # Far PROVE h >= -excess[u] \/ out' <= -MostCharge
    OBVIOUS
  <2>1. CASE excess[u] >= Far
    BY ONLY <1>4, <1>9, <1>11, <2>1
  <2>2. CASE since >= 4 /\ damp[since - 2] = 0
             /\ excess[u] >= excess[since] - (excess[since] \div 10)
    <3>1. Damped(lag, E, since, damp)
      BY DEF SettleInv, E, lag
    <3>2. \A i \in 1..lag : 4 * E[i + 1] >= Low(E[i])
      BY ONLY <1>4, <1>6, <1>20, <2>2, <3>1, DefectsGone, damp \in [0..Settling -> Nat]
    <3>3. since >= 1
      BY <1>4, <2>2
    <3>4. PICK v \in Int : /\ out' = Clamp(v, -capacity, capacity)
                           /\ -capacity <= out /\ out <= capacity
                           /\ v <= out \/ 10 * (v - out) <= E[1]
                           /\ E[1] < 0 => v <= out - ((-E[1]) \div 10)
      BY <1>16, <1>21, <2>2, <3>3
    <3>5. MostCharge \in Nat /\ MostCharge <= capacity
      BY ONLY <1>4 DEF MostCharge, Lesser
    <3>6. E[lag + 1] >= -excess[since] \/ out <= -MostCharge
      BY <1>6 DEF SettleInv, ExportGiven
    <3>7. ExportShrinks(lag, E, capacity, MostCharge, out, v, out', excess[since], excess[u])
      BY ONLY <1>4, <1>6, <1>11, <3>5, v \in Int, ExportSettles
    <3>8. E[lag + 1] + out - out' >= -excess[u] \/ out' <= -MostCharge
      BY ONLY <2>2, <3>2, <3>4, <3>5, <3>6, <3>7 DEF ExportShrinks
    <3> QED
      BY <1>7, <3>8
  <2> QED
    BY <1>19, <2>1, <2>2
<1>23. limit.import # Far => k >= -excess[u] \/ out' = MostDischarge \/ (gate = 4 /\ out' >= 0)
  <2> SUFFICES ASSUME limit.import # Far
               PROVE  k >= -excess[u] \/ out' = MostDischarge \/ (gate = 4 /\ out' >= 0)
    OBVIOUS
  <2>1. CASE excess[u] >= Far
    BY ONLY <1>4, <1>9, <1>11, <2>1
  <2>2. CASE since >= 4 /\ damp[since - 2] = 0
             /\ excess[u] >= excess[since] - (excess[since] \div 10)
    <3>1. Damped(lag, I, since, damp)
      BY DEF SettleInv, I, lag
    <3>2. \A i \in 1..lag : 4 * I[i + 1] >= Low(I[i])
      BY ONLY <1>4, <1>6, <1>20, <2>2, <3>1, DefectsGone, damp \in [0..Settling -> Nat]
    <3>3. since >= 1
      BY <1>4, <2>2
    <3>4. PICK v \in Int : /\ v <= PowerMax
                           /\ out' = Clamp(v, -capacity, capacity)
                           /\ -capacity <= out /\ out <= capacity
                           /\ v >= out \/ 10 * (out - v) <= I[1]
                           /\ I[1] < 0 => \/ v >= out + ((-I[1]) \div 10)
                                          \/ v = PowerMax
                                          \/ gate = 4 /\ out >= 0 /\ v >= out
      BY <1>16, <1>21, <2>2, <3>3
    <3>5. I[lag + 1] >= -excess[since] \/ out = Lesser(capacity, PowerMax) \/ (gate = 4 /\ out >= 0)
      BY <1>6 DEF SettleInv, ImportGiven, MostDischarge
    <3>6. gate \in Int
      BY DEF BoundedInv
    <3>7. ImportShrinks(lag, I, capacity, PowerMax, gate, out, v, out', excess[since], excess[u])
      BY ONLY <1>4, <1>6, <1>11, <3>6, v \in Int, ImportSettles
    <3>8. I[lag + 1] + out' - out >= -excess[u] \/ out' = Lesser(capacity, PowerMax)
          \/ (gate = 4 /\ out' >= 0)
      BY ONLY <2>2, <3>2, <3>4, <3>5, <3>7 DEF ImportShrinks
    <3> QED
      BY <1>7, <3>8 DEF MostDischarge
  <2> QED
    BY <1>19, <2>1, <2>2
<1>24. MostCharge' = MostCharge /\ MostDischarge' = MostDischarge
  BY <1>5 DEF MostCharge, MostDischarge
<1>25. limit.export # Far => Poi' + limit.export >= -excess[u] \/ ExportGiven'
  BY <1>8, <1>22, <1>24 DEF ExportGiven
<1>26. limit.import # Far => limit.import - Poi' >= -excess[u] \/ ImportGiven'
  BY <1>8, <1>14, <1>23, <1>24 DEF ImportGiven
<1>27. /\ prev' = limit' /\ out' = output' /\ -capacity' <= out' /\ out' <= capacity'
  BY <1>3, <1>5, <1>13
<1>28. /\ limit'.export # Far => Damped(Len(meter'), ExportRooms', since', damp)
       /\ limit'.import # Far => Damped(Len(meter'), ImportRooms', since', damp)
  BY <1>5, <1>7, <1>10, <1>17, <1>18 DEF F, J
<1>29. /\ limit'.export # Far => Poi' + limit'.export >= -excess[since'] \/ ExportGiven'
       /\ limit'.import # Far => limit'.import - Poi' >= -excess[since'] \/ ImportGiven'
  BY <1>5, <1>10, <1>25, <1>26
<1> HIDE DEF Poi, Trail, ExportRooms, ImportRooms, Damped, ExportGiven, ImportGiven
<1> QED
  BY <1>14, <1>27, <1>28, <1>29 DEF SettleInv

\* Without a POI meter the limits bind the output itself: one set past a limit
\* before the count began is back within it as soon as it is read.
Seen(lag, rooms, s) ==
    \/ rooms[lag + 1] >= 0
    \/ s <= lag + 1 /\ \A i \in 1..(lag + 1) : i + s >= lag + 2 => rooms[i] < 0

DirectInv ==
    Steered /\ ~metered =>
        /\ since >= 1 => out = output /\ -capacity <= out /\ out <= capacity
        /\ Seen(Len(meter), ExportRooms, since)
        /\ Seen(Len(meter), ImportRooms, since)

LEMMA SeenNext ==
  ASSUME Settling \in Nat, Settling >= 5, NEW lag \in 1..3, NEW s \in 0..Settling,
         NEW rooms \in [1..(lag + 1) -> Int], NEW new \in [1..(lag + 1) -> Int],
         \A i \in 1..lag : new[i] = rooms[i + 1],
         Seen(lag, rooms, s),
         s >= 1 /\ (rooms[lag + 1] >= 0 \/ rooms[1] < 0) => new[lag + 1] >= 0
  PROVE  Seen(lag, new, Lesser(s + 1, Settling))
<1> DEFINE u == Lesser(s + 1, Settling)
<1>1. u = s + 1 \/ (u = s /\ s >= 5)
  BY DEF Lesser
<1>2. new[lag + 1] \in Int /\ rooms[lag + 1] \in Int /\ rooms[1] \in Int
  <2>1. 1 \in 1..(lag + 1) /\ lag + 1 \in 1..(lag + 1)
    BY ONLY lag \in 1..3
  <2> QED
    BY <2>1
<1> HIDE DEF u
<1>3. CASE new[lag + 1] >= 0
  BY <1>3 DEF Seen, u
<1>4. CASE new[lag + 1] < 0
  <2>1. s = 0 \/ (rooms[lag + 1] < 0 /\ rooms[1] >= 0)
    BY <1>2, <1>4
  <2>2. s = 0 \/ (s <= lag + 1 /\ \A i \in 1..(lag + 1) : i + s >= lag + 2 => rooms[i] < 0)
    BY <1>2, <2>1 DEF Seen
  <2>3. s <= lag
    <3>1. CASE s = 0
      BY <3>1
    <3>2. CASE s # 0
      <4>1. 1 + s >= lag + 2 => rooms[1] < 0
        <5>1. 1 \in 1..(lag + 1)
          BY ONLY lag \in 1..3
        <5> QED
          BY <2>2, <3>2, <5>1
      <4>2. ~(1 + s >= lag + 2)
        BY <1>2, <2>1, <3>2, <4>1
      <4> QED
        BY ONLY <4>2, lag \in 1..3, s \in 0..Settling, Settling \in Nat
    <3> QED
      BY <3>1, <3>2
  <2>4. u = s + 1 /\ u <= lag + 1
    BY ONLY <1>1, <2>3, lag \in 1..3, s \in 0..Settling, Settling \in Nat
  <2>5. ASSUME NEW i \in 1..(lag + 1), i + u >= lag + 2 PROVE new[i] < 0
    <3>1. CASE i = lag + 1
      BY <1>4, <3>1
    <3>2. CASE i # lag + 1
      <4>1. i \in 1..lag /\ i + 1 \in 1..(lag + 1) /\ (i + 1) + s >= lag + 2 /\ s # 0
        BY ONLY <2>4, <2>5, <3>2, lag \in 1..3, s \in 0..Settling, Settling \in Nat, i \in 1..(lag + 1)
      <4>2. rooms[i + 1] < 0
        BY <2>2, <4>1
      <4> QED
        BY <4>1, <4>2
    <3> QED
      BY <3>1, <3>2
  <2> QED
    BY <2>4, <2>5 DEF Seen, u
<1> QED
  BY <1>2, <1>3, <1>4

\* What a tick without a POI meter sets.
LEMMA DirectReach ==
  ASSUME EnvelopeConstants, EnvelopeTypes, BoundedInv, ~metered, Computes(1), EnvelopeTypes', BoundedInv'
  PROVE  \E v \in Int, t \in Int :
           /\ Between(v, output, t) /\ Commands(v)
           /\ -limit.import <= t /\ t <= limit.export
           /\ (ExportRooms[1] < 0 \/ ImportRooms[1] < 0) => v = t
<1> DEFINE t == Target(Bounds(1))
           c == Lesser(limit.export, PowerMax)
           f == Lesser(Greater(-limit.import, PowerMin), c)
           p == Reading(1)
<1>1. Controls(1) /\ 1 \in Nat
  BY DEF Computes, Stale
<1>2. limit.export \in 0..Far /\ limit.import \in 0..Far /\ Far \in Nat
  BY LimitNumbers
<1>3. /\ Bounds(1).ceiling = c /\ Bounds(1).floor = f
      /\ Bounds(1).export = Headroom(p, limit.export)
      /\ Bounds(1).import = Headroom(-p, limit.import)
  BY DEF Bounds, DirectBounds
<1>4. t = Clamp(Wanted, f, c)
  BY <1>3 DEF Target
<1>5. t \in Int
  BY <1>1, TargetType
<1>6. PowerMax \in Nat /\ PowerMin \in Int /\ -PowerMin \in Nat /\ Wanted \in Int
  <2>1. RechargePower \in Nat /\ request \in Int
    BY EnvelopeNumbers DEF EnvelopeTypes
  <2> QED
    BY <2>1, EnvelopeNumbers DEF Wanted
<1>7. -limit.import <= t /\ t <= limit.export
  <2> HIDE DEF t
  <2> QED
    BY <1>2, <1>4, <1>5, <1>6 DEF Clamp, Lesser, Greater
<1>8. p = meter[1] /\ ExportRooms[1] = meter[1] + limit.export /\ ImportRooms[1] = limit.import - meter[1]
  BY RoomsMove, RoomsNow
<1>9. p \in Int /\ -Far <= p /\ p <= Far
  <2>1. 1 \in 1..Len(meter)
    <3>1. Len(meter) \in 1..3
      BY RoomsNow
    <3> QED
      BY ONLY <3>1
  <2>2. meter \in Seq(Int)
    BY DEF EnvelopeTypes
  <2> QED
    BY <1>8, <2>1, <2>2 DEF BoundedInv
<1>10. ExportRooms[1] < 0 \/ ImportRooms[1] < 0 => Violating(Bounds(1))
  <2> DEFINE x == limit.export
             i == limit.import
  <2>1. x \in 0..Far /\ i \in 0..Far
    BY <1>2
  <2>2. /\ Bounds(1).export = Headroom(p, x) /\ Bounds(1).import = Headroom(-p, i)
        /\ ExportRooms[1] = p + x /\ ImportRooms[1] = i - p
    BY <1>3, <1>8
  <2> HIDE DEF x, i, p
  <2>3. p + x < 0 => Headroom(p, x) <= 0
    BY ONLY <1>2, <1>9, <2>1 DEF Headroom
  <2>4. i - p < 0 => Headroom(-p, i) <= 0
    BY ONLY <1>2, <1>9, <2>1 DEF Headroom
  <2> QED
    BY <2>2, <2>3, <2>4 DEF Violating
<1>11. CASE Violating(Bounds(1))
  <2>1. Clamps(1, Bounds(1))
    BY <1>1, <1>11 DEF Controls, Holds, Ramps, Tracks
  <2>2. Commands(t)
    BY <2>1 DEF Clamps
  <2>3. Between(t, output, t)
    <3>1. output \in Int
      BY DEF EnvelopeTypes
    <3> HIDE DEF t
    <3> QED
      BY <1>5, <3>1 DEF Between
  <2> QED
    BY <1>5, <1>7, <2>2, <2>3
<1>12. CASE ~Violating(Bounds(1))
  <2>1. PICK v \in Int : Between(v, output, t) /\ Commands(v)
    BY <1>1, ControlsAim
  <2> QED
    BY <1>5, <1>7, <1>10, <1>12, <2>1
<1> QED
  BY <1>11, <1>12

LEMMA DirectTick ==
  ASSUME EnvelopeConstants, EnvelopeInv, EnvelopeInv', BoundedInv, BoundedInv', Steered, ~metered, Tick,
         Settling >= 5, DirectInv
  PROVE  DirectInv'
<1>0. EnvelopeTypes /\ EnvelopeTypes'
  BY DEF EnvelopeInv
<1>1. Beat = 1
  BY DEF Steered, Beat
<1>2. Computes(1) /\ Lands(1) /\ since' = Lesser(since + 1, Settling)
  BY <1>1 DEF Tick
<1>3. since \in 0..Settling /\ Settling \in Nat /\ capacity \in Nat /\ out \in Int /\ out' \in Int
      /\ output \in Int /\ load = 0
  BY <1>0, EnvelopeNumbers DEF EnvelopeTypes
<1>4. UNCHANGED <<limit, capacity, metered, load>>
  BY <1>2 DEF Computes, siteVars, plantVars
<1>5. PICK v \in Int, t \in Int :
           /\ Between(v, output, t) /\ Commands(v)
           /\ -limit.import <= t /\ t <= limit.export
           /\ (ExportRooms[1] < 0 \/ ImportRooms[1] < 0) => v = t
  BY <1>0, <1>2, DirectReach
<1>6. /\ out' = Clamp(v, -capacity, capacity) /\ output' = out'
      /\ -capacity <= out' /\ out' <= capacity
  BY <1>0, <1>2, <1>5, SteeredLands
<1> DEFINE lag == Len(meter)
           E == ExportRooms
           I == ImportRooms
           F == ExportRooms'
           J == ImportRooms'
           u == Lesser(since + 1, Settling)
<1>7. /\ lag \in 1..3
      /\ E \in [1..(lag + 1) -> Int] /\ I \in [1..(lag + 1) -> Int]
      /\ E[lag + 1] = Poi + limit.export /\ I[lag + 1] = limit.import - Poi
      /\ limit.export \in 0..Far /\ limit.import \in 0..Far
  BY <1>0, RoomsNow
<1>8. /\ Len(meter') = lag
      /\ \A i \in 1..lag : F[i] = E[i + 1] /\ J[i] = I[i + 1]
  BY <1>0, <1>2, RoomsMove
<1>9. /\ F \in [1..(lag + 1) -> Int] /\ J \in [1..(lag + 1) -> Int]
      /\ F[lag + 1] = Poi' + limit.export /\ J[lag + 1] = limit.import - Poi'
  BY <1>0, <1>4, <1>8, RoomsNext
<1>10. Poi = load - out /\ Poi' = load - out'
  BY <1>4 DEF Poi
<1>11. Far \in Nat /\ limit.export \in Nat /\ limit.import \in Nat
  BY <1>0, LimitNumbers
<1> HIDE DEF Poi
<1>12. /\ E[lag + 1] = limit.export - out /\ I[lag + 1] = limit.import + out
       /\ F[lag + 1] = limit.export - out' /\ J[lag + 1] = limit.import + out'
  <2>1. \A x, o \in Int : (0 - o) + x = x - o /\ x - (0 - o) = x + o
    OBVIOUS
  <2>2. Poi = 0 - out /\ Poi' = 0 - out' /\ limit.export \in Int /\ limit.import \in Int
    BY <1>3, <1>10, <1>11
  <2> HIDE DEF E, I, F, J, lag
  <2> QED
    BY ONLY <1>3, <1>7, <1>9, <2>1, <2>2
<1> HIDE DEF E, I, F, J, u, lag
<1>13. since >= 1 => out = output /\ -capacity <= out /\ out <= capacity
  BY DEF DirectInv
<1>14. since >= 1 /\ (E[lag + 1] >= 0 \/ E[1] < 0) => F[lag + 1] >= 0
  <2> SUFFICES ASSUME since >= 1, E[lag + 1] >= 0 \/ E[1] < 0
               PROVE  out' <= limit.export
    BY <1>3, <1>11, <1>12
  <2>1. out = output /\ -capacity <= out /\ out <= capacity /\ (E[1] < 0 => v = t)
    BY <1>5, <1>13 DEF E
  <2>2. out <= limit.export \/ v = t
    BY <1>3, <1>11, <1>12, <2>1
  <2>3. v <= limit.export
    BY <1>3, <1>5, <1>11, <2>1, <2>2 DEF Between
  <2> DEFINE x == limit.export
  <2> HIDE DEF x
  <2>4. x \in Nat /\ v <= x
    BY <1>11, <2>3 DEF x
  <2>5. Clamp(v, -capacity, capacity) <= x
    BY ONLY <1>3, <2>4, v \in Int DEF Clamp
  <2> QED
    BY <1>6, <2>5 DEF x
<1>15. since >= 1 /\ (I[lag + 1] >= 0 \/ I[1] < 0) => J[lag + 1] >= 0
  <2> SUFFICES ASSUME since >= 1, I[lag + 1] >= 0 \/ I[1] < 0
               PROVE  out' >= -limit.import
    BY <1>3, <1>11, <1>12
  <2>1. out = output /\ -capacity <= out /\ out <= capacity /\ (I[1] < 0 => v = t)
    BY <1>5, <1>13 DEF I
  <2>2. out >= -limit.import \/ v = t
    BY <1>3, <1>11, <1>12, <2>1
  <2>3. v >= -limit.import
    BY <1>3, <1>5, <1>11, <2>1, <2>2 DEF Between
  <2> DEFINE x == limit.import
  <2> HIDE DEF x
  <2>4. x \in Nat /\ v >= -x
    BY <1>11, <2>3 DEF x
  <2>5. Clamp(v, -capacity, capacity) >= -x
    BY ONLY <1>3, <2>4, v \in Int DEF Clamp
  <2> QED
    BY <1>6, <2>5 DEF x
<1>16. Seen(lag, E, since) /\ Seen(lag, I, since)
  BY DEF DirectInv, E, I, lag
<1>17. Seen(lag, F, u)
  <2>1. \A i \in 1..lag : F[i] = E[i + 1]
    BY <1>8
  <2> QED
    BY ONLY <1>3, <1>7, <1>9, <1>14, <1>16, <2>1, Settling >= 5, SeenNext DEF u
<1>18. Seen(lag, J, u)
  <2>1. \A i \in 1..lag : J[i] = I[i + 1]
    BY <1>8
  <2> QED
    BY ONLY <1>3, <1>7, <1>9, <1>15, <1>16, <2>1, Settling >= 5, SeenNext DEF u
<1>19. Seen(Len(meter'), ExportRooms', since') /\ Seen(Len(meter'), ImportRooms', since')
  BY <1>2, <1>8, <1>17, <1>18 DEF F, J, u
<1> HIDE DEF Trail, ExportRooms, ImportRooms, Seen
<1> QED
  BY <1>4, <1>6, <1>19 DEF DirectInv

\* Any change starts the count, and everything but an undisturbed tick is one.
LEMMA DirectResets ==
  ASSUME since' = 0, EnvelopeConstants, EnvelopeTypes', BoundedInv' PROVE DirectInv'
<1>1. Len(meter') \in 1..3
  BY RoomsNext
<1>2. \A lag \in 1..3 : \A i \in 1..(lag + 1) : ~(i + 0 >= lag + 2) /\ 0 <= lag + 1
  OBVIOUS
<1>3. \A lag \in 1..3 : 1 \in 1..(lag + 1)
  OBVIOUS
<1>4. ASSUME NEW rooms PROVE Seen(Len(meter'), rooms, 0)
  BY <1>1, <1>2, <1>3 DEF Seen
<1>5. ~(0 >= 1)
  OBVIOUS
<1> HIDE DEF Seen, ExportRooms, ImportRooms
<1> QED
  BY <1>4, <1>5 DEF DirectInv

LEMMA DirectStarts ==
  ASSUME since = 0, EnvelopeConstants, EnvelopeTypes, BoundedInv PROVE DirectInv
<1>1. Len(meter) \in 1..3
  BY RoomsNow
<1>2. \A lag \in 1..3 : \A i \in 1..(lag + 1) : ~(i + 0 >= lag + 2) /\ 0 <= lag + 1
  OBVIOUS
<1>3. \A lag \in 1..3 : 1 \in 1..(lag + 1)
  OBVIOUS
<1>4. ASSUME NEW rooms PROVE Seen(Len(meter), rooms, 0)
  BY <1>1, <1>2, <1>3 DEF Seen
<1>5. ~(0 >= 1)
  OBVIOUS
<1> HIDE DEF Seen, ExportRooms, ImportRooms
<1> QED
  BY <1>4, <1>5 DEF DirectInv

LEMMA SettleStep ==
  ASSUME EnvelopeConstants, EnvelopeInv, BoundedInv, [EnvelopeNext]_envelopeVars,
         NEW damp \in [0..Settling -> Nat], NEW excess \in [0..Settling -> Nat],
         SettlesBy(Settling, Far, damp, excess), SettleInv(damp, excess), DirectInv
  PROVE  SettleInv(damp, excess)' /\ DirectInv'
<1>0. EnvelopeInv' /\ BoundedInv' /\ EnvelopeTypes'
  BY EnvelopeStep, BoundedStep DEF EnvelopeInv
<1>1. ASSUME since' = 0 PROVE SettleInv(damp, excess)' /\ DirectInv'
  BY <1>0, <1>1, SettleResets, DirectResets
<1>2. CASE Tick
  <2>1. UNCHANGED <<energized, reported, quiet, metered>>
    BY <1>2 DEF Tick, Computes, plantVars
  <2>2. Steered' = Steered
    BY <2>1 DEF Steered
  <2>3. CASE ~Steered
    BY <2>2, <2>3 DEF SettleInv, DirectInv
  <2>4. CASE Steered /\ metered
    <3>1. SettleInv(damp, excess)'
      BY <1>0, <1>2, <2>4, SettleTick
    <3>2. DirectInv'
      BY <2>1, <2>4 DEF DirectInv
    <3> QED
      BY <3>1, <3>2
  <2>5. CASE Steered /\ ~metered
    <3>1. Settling >= 5
      BY DEF SettlesBy
    <3>2. DirectInv'
      BY <1>0, <1>2, <2>5, <3>1, DirectTick
    <3>3. SettleInv(damp, excess)'
      BY <2>1, <2>5 DEF SettleInv
    <3> QED
      BY <3>2, <3>3
  <2> QED
    BY <2>3, <2>4, <2>5
<1>3. CASE OffBeat
  <2>1. PICK n \in 0..MaxLate : TickOffBeat(n)
    BY <1>3 DEF OffBeat
  <2> QED
    BY <1>1, <2>1 DEF TickOffBeat, Fault
<1>4. CASE TickFails \/ TickHandsOff \/ Reseed
  BY <1>1, <1>4 DEF TickFails, TickHandsOff, Reseed, Fault, Move
<1>5. CASE LoadChanges \/ LimitsChange \/ Command \/ ReadinessChanges
  BY <1>1, <1>5 DEF LoadChanges, LimitsChange, Command, ReadinessChanges, Move
<1>6. CASE Cease \/ Energize \/ CapacityChanges \/ ChildReports
  BY <1>1, <1>6 DEF Cease, Energize, CapacityChanges, ChildReports, Fault
<1>7. CASE MeterStops \/ MeterReturns
  BY <1>1, <1>7 DEF MeterStops, MeterReturns, Fault
<1>8. CASE UNCHANGED envelopeVars
  <2>1. UNCHANGED <<load, limit, energized, capacity, reported, out, metered, meter, quiet,
                    output, prev, jumpHold, gate, since>>
    BY <1>8 DEF envelopeVars, siteVars, plantVars, meterVars, controlVars, historyVars
  <2>2. Poi' = Poi /\ Steered' = Steered /\ ExportGiven' = ExportGiven /\ ImportGiven' = ImportGiven
    BY <2>1 DEF Poi, Steered, ExportGiven, ImportGiven, MostCharge, MostDischarge
  <2>3. Trail' = Trail
    BY <2>1, <2>2 DEF Trail
  <2>4. ExportRooms' = ExportRooms /\ ImportRooms' = ImportRooms
    BY <2>1, <2>3 DEF ExportRooms, ImportRooms
  <2> HIDE DEF Poi, Trail, ExportRooms, ImportRooms, Steered, ExportGiven, ImportGiven, Damped, Seen
  <2>5. SettleInv(damp, excess)' = SettleInv(damp, excess)
    BY <2>1, <2>2, <2>4 DEF SettleInv
  <2>6. DirectInv' = DirectInv
    BY <2>1, <2>2, <2>4 DEF DirectInv
  <2> QED
    BY <2>5, <2>6
<1> QED
  BY <1>2, <1>3, <1>4, <1>5, <1>6, <1>7, <1>8 DEF EnvelopeNext, TickStep

LEMMA BoundedStarts ==
  ASSUME EnvelopeConstants, EnvelopeInit, \A lag \in Lags : lag <= 3
  PROVE  BoundedInv
<1>0. EnvelopeTypes
  BY EnvelopeStarts DEF EnvelopeInv
<1>1. PICK lag \in Lags : meter = [i \in 1..lag |-> Poi]
  BY DEF EnvelopeInit
<1>2. lag \in Nat /\ lag <= 3
  BY <1>1, EnvelopeNumbers
<1>3. Len(meter) = lag /\ \A i \in 1..lag : meter[i] = Poi
  BY <1>1, <1>2
<1>4. \E c \in Capacities : -c <= out /\ out <= c
  <2>1. capacity \in Capacities /\ capacity \in Nat /\ out = 0
    BY <1>0, EnvelopeNumbers DEF EnvelopeInit, EnvelopeTypes
  <2>2. -capacity <= out /\ out <= capacity
    BY <2>1
  <2> QED
    BY <2>1, <2>2
<1>5. -Far <= Poi /\ Poi <= Far
  BY <1>0, <1>4, BoundedPoi
<1>6. jumpHold <= 3 /\ gate \in 0..4
  BY DEF EnvelopeInit
<1> HIDE DEF Poi
<1> QED
  BY <1>2, <1>3, <1>4, <1>5, <1>6 DEF BoundedInv

\* What the invariant says once the count is full.
LEMMA SettledHolds ==
  ASSUME EnvelopeConstants, EnvelopeInv, BoundedInv,
         NEW damp \in [0..Settling -> Nat], NEW excess \in [0..Settling -> Nat],
         SettlesBy(Settling, Far, damp, excess), SettleInv(damp, excess), DirectInv
  PROVE  LimitsHeld
<1> SUFFICES ASSUME since = Settling, Steered
             PROVE  /\ ExportExcess(Poi, limit) < Grain \/ ExportGiven
                    /\ ImportExcess(Poi, limit) < Grain \/ ImportGiven
  BY DEF LimitsHeld, ExportGiven, ImportGiven
<1>0. EnvelopeTypes
  BY DEF EnvelopeInv
<1>1. /\ Len(meter) \in 1..3
      /\ ExportRooms[Len(meter) + 1] = Poi + limit.export
      /\ ImportRooms[Len(meter) + 1] = limit.import - Poi
      /\ -Far <= Poi /\ Poi <= Far /\ Poi \in Int
      /\ limit.export \in 0..Far /\ limit.import \in 0..Far
  BY <1>0, RoomsNow
<1>2. Far \in Nat /\ Settling \in Nat /\ Settling >= 5
  BY EnvelopeNumbers DEF SettlesBy
<1>3. excess[Settling] \in Nat /\ excess[Settling] < 10
  BY <1>2 DEF SettlesBy, Grain
<1> DEFINE x == limit.export
           i == limit.import
           e == excess[Settling]
<1>4. /\ Poi + x >= -e \/ ExportGiven
      /\ i - Poi >= -e \/ ImportGiven
  <2>1. CASE metered
    <3>1. /\ x # Far => Poi + x >= -e \/ ExportGiven
          /\ i # Far => i - Poi >= -e \/ ImportGiven
      BY <2>1 DEF SettleInv
    <3> HIDE DEF Poi, x, i, e, ExportGiven, ImportGiven
    <3>2. e \in Nat
      BY <1>3 DEF e
    <3>3. Poi + Far >= -e /\ Far - Poi >= -e
      BY <1>1, <1>2, <3>2
    <3> QED
      BY <3>1, <3>3
  <2>2. CASE ~metered
    <3>1. /\ Seen(Len(meter), ExportRooms, Settling)
          /\ Seen(Len(meter), ImportRooms, Settling)
      BY <2>2 DEF DirectInv
    <3>2. ~(Settling <= Len(meter) + 1)
      <4>1. \A l \in 1..3, s \in Nat : s >= 5 => ~(s <= l + 1)
        OBVIOUS
      <4> QED
        BY ONLY <1>1, <1>2, <4>1
    <3>3. Poi + x >= 0 /\ i - Poi >= 0
      BY <1>1, <3>1, <3>2 DEF Seen
    <3>4. x \in Int /\ i \in Int /\ e \in Nat
      BY <1>1, <1>3
    <3> HIDE DEF Poi, x, i, e
    <3> QED
      BY <1>1, <3>3, <3>4
  <2> QED
    BY <2>1, <2>2
<1>5. /\ ExportExcess(Poi, limit) = Greater(0, -Poi - x)
      /\ ImportExcess(Poi, limit) = Greater(0, Poi - i)
  BY DEF ExportExcess, ImportExcess
<1>6. x \in Int /\ i \in Int /\ e \in Nat /\ e < 10
  BY <1>1, <1>3
<1> HIDE DEF Poi, x, i, e, ExportGiven, ImportGiven, ExportExcess, ImportExcess
<1>7. \A p, y, z \in Int : /\ p + y >= -z /\ z < 10 /\ z >= 0 => Greater(0, -p - y) < 10
                           /\ y - p >= -z /\ z < 10 /\ z >= 0 => Greater(0, p - y) < 10
  BY DEF Greater
<1>8. e \in Int /\ e >= 0
  BY <1>6
<1>9. /\ Poi + x >= -e => Greater(0, -Poi - x) < 10
      /\ i - Poi >= -e => Greater(0, Poi - i) < 10
  BY ONLY <1>1, <1>6, <1>7, <1>8
<1> QED
  BY <1>4, <1>5, <1>9 DEF Grain

\* However load, limits and requests have moved and whatever has failed: for every
\* site, rating, ramp and margin, and a lag of three readings at most, a module
\* that is left alone has the POI within its limits, or gives all it has, once
\* Settling ticks are enough for the loop's own defects and then its excess to
\* die out (SettlesBy).
THEOREM LimitsAreHeld ==
  ASSUME \A lag \in Lags : lag <= 3,
         NEW damp \in [0..Settling -> Nat], NEW excess \in [0..Settling -> Nat],
         SettlesBy(Settling, Far, damp, excess)
  PROVE  EnvelopeSpec => []LimitsHeld
<1> USE EnvelopeAssumptions
<1> DEFINE Inv == EnvelopeInv /\ BoundedInv /\ SettleInv(damp, excess) /\ DirectInv
<1>1. EnvelopeInit => Inv
  <2> SUFFICES ASSUME EnvelopeInit PROVE Inv
    OBVIOUS
  <2>1. EnvelopeInv /\ EnvelopeTypes /\ BoundedInv /\ since = 0
    BY EnvelopeStarts, BoundedStarts DEF EnvelopeInv, EnvelopeInit
  <2> QED
    BY <2>1, SettleStarts, DirectStarts
<1>2. Inv /\ [EnvelopeNext]_envelopeVars => Inv'
  <2> SUFFICES ASSUME Inv, [EnvelopeNext]_envelopeVars PROVE Inv'
    OBVIOUS
  <2>1. EnvelopeInv' /\ BoundedInv'
    BY EnvelopeStep, BoundedStep
  <2>2. SettleInv(damp, excess)' /\ DirectInv'
    BY SettleStep
  <2> QED
    BY <2>1, <2>2
<1>3. Inv => LimitsHeld
  BY SettledHolds
<1> HIDE DEF Inv
<1> QED
  BY <1>1, <1>2, <1>3, PTL DEF EnvelopeSpec

-----------------------------------------------------------------------------
(* A silent meter *)

\* The least a module of these ratings ramps by in a second.
RampStep == Lesser(Share(RampPercent, PowerMax), Share(RampPercent, PowerMin))

\* Undisturbed ticks without a meter wear the reading out, and from then on each
\* takes its step off what the children deliver.
SilenceInv ==
    quiet =>
        /\ metered
        /\ age >= Lesser(since, StaleAfter)
        /\ reported /\ since >= 1 =>
             /\ ~energized => out = 0
             /\ energized => out = output /\ Abs(output) <= capacity
             /\ energized /\ since > StaleAfter /\ output # 0 =>
                  Abs(output) + (since - StaleAfter - 1) * RampStep <= capacity

\* It is a number.
LEMMA RampStepType ==
  ASSUME EnvelopeConstants
  PROVE  /\ Share(RampPercent, PowerMax) \in Int
         /\ Share(RampPercent, PowerMin) \in Int
         /\ RampStep \in Int
<1>1. \A a, b \in Int : a * b \in Int
  OBVIOUS
<1>2. RampPercent \in Int /\ Abs(PowerMax) \in Int /\ Abs(PowerMin) \in Int
  BY EnvelopeNumbers DEF Abs
<1>3. RampPercent * Abs(PowerMax) \in Int /\ RampPercent * Abs(PowerMin) \in Int
  BY <1>1, <1>2
<1>4. Share(RampPercent, PowerMax) \in Int /\ Share(RampPercent, PowerMin) \in Int
  BY <1>3 DEF Share
<1> QED
  BY <1>4 DEF RampStep, Lesser

\* A ramp to zero takes at least that step.
LEMMA RampsToZeroBy ==
  ASSUME EnvelopeConstants, EnvelopeTypes, RampsToZero(0)
  PROVE  /\ RampStep \in Nat
         /\ \E v \in Int : /\ Commands(v)
                           /\ v # 0 => Abs(v) + RampStep <= Abs(output)
<1> DEFINE step == MaxStep(0, output)
           v == IF Abs(output) <= step THEN 0
                ELSE IF output > 0 THEN output - step ELSE output + step
           top == Share(RampPercent, PowerMax)
           low == Share(RampPercent, PowerMin)
<1>1. output \in Int
  BY DEF EnvelopeTypes
<1>2. 0 \in Nat /\ 0 \in Int /\ -1 \in Int
  OBVIOUS
<1>3. MaxStep(0, 0) \in Nat /\ MaxStep(0, -1) \in Nat
  BY ONLY EnvelopeConstants, <1>2, MaxStepType
<1>4. MaxStep(0, 0) = 1 * top /\ MaxStep(0, -1) = 1 * low
  BY DEF MaxStep, Dt, Greater
<1>5. step = 1 * top \/ step = 1 * low
  BY <1>1 DEF MaxStep, Dt, Greater
<1>6. top \in Int /\ low \in Int
  BY RampStepType
<1>7. Commands(v)
  BY DEF RampsToZero
<1>8. RampStep = Lesser(top, low)
  BY DEF RampStep
<1> HIDE DEF top, low, step
<1>9. RampStep \in Nat /\ step \in Nat /\ RampStep <= step
  BY <1>3, <1>4, <1>5, <1>6, <1>8 DEF Lesser
<1>10. v \in Int /\ (v # 0 => Abs(v) + RampStep <= Abs(output))
  BY <1>1, <1>9 DEF Abs
<1> QED
  BY <1>7, <1>9, <1>10

\* A tick that lands, when everybody is reporting and the module is energized.
LEMMA LandsWhole ==
  ASSUME EnvelopeConstants, EnvelopeTypes, DeliveredInv, NEW n \in Nat,
         Computes(n), Lands(n), energized, reported
  PROVE  out' = output' /\ Abs(output') <= capacity
<1>1. output' = Clamp(output', -capacity, capacity) /\ output' \in Int
  BY ComputesRange
<1>2. capacity \in Nat
  BY EnvelopeNumbers DEF EnvelopeTypes
<1>3. out' = output'
  BY <1>1 DEF Lands, Delivered
<1>4. \A x \in Int : x = Clamp(x, -capacity, capacity) => Abs(x) <= capacity
  BY <1>2 DEF Clamp, Abs
<1> QED
  BY <1>1, <1>3, <1>4

\* A tick without a meter, on the way to 0 W,
LEMMA SilentTickKeeps ==
  ASSUME EnvelopeConstants, EnvelopeInv, SilenceInv, Tick, quiet
  PROVE  SilenceInv'
<1>0. EnvelopeTypes /\ DeliveredInv
  BY DEF EnvelopeInv
<1>1. Computes(0) /\ Lands(0) /\ 0 \in Nat
  BY DEF Tick, Beat
<1>2. UNCHANGED <<quiet, metered, reported, energized, capacity>>
  BY <1>1 DEF Computes, siteVars, plantVars
<1>3. since' = Lesser(since + 1, Settling) /\ age' = Lesser(age + 1, StaleAfter)
  BY <1>1 DEF Tick, Computes
<1>4. /\ since \in 0..Settling /\ Settling \in Nat /\ StaleAfter \in Nat
      /\ age \in 0..StaleAfter /\ capacity \in Nat /\ output \in Int
  BY <1>0, EnvelopeNumbers DEF EnvelopeTypes
<1>5. metered /\ age >= Lesser(since, StaleAfter)
  BY DEF SilenceInv
<1>6. metered' /\ age' >= Lesser(since', StaleAfter)
  BY <1>2, <1>3, <1>4, <1>5 DEF Lesser
<1>7. CASE reported /\ ~energized
  <2>1. out' = 0
    BY <1>1, <1>7 DEF Lands, Delivered
  <2> QED
    BY <1>2, <1>6, <1>7, <2>1 DEF SilenceInv
<1>8. CASE reported /\ energized
  <2>1. out' = output' /\ Abs(output') <= capacity
    BY <1>0, <1>1, <1>8, LandsWhole
  <2>2. output' \in Int
    BY <1>0, <1>1, ComputesRange
  <2>3. ASSUME since' > StaleAfter, output' # 0
        PROVE  Abs(output') + (since' - StaleAfter - 1) * RampStep <= capacity
    <3>1. since >= StaleAfter
      BY <1>3, <1>4, <2>3 DEF Lesser
    <3>2. RampsToZero(0)
      <4>1. age = StaleAfter
        BY <1>4, <1>5, <3>1 DEF Lesser
      <4> QED
        BY <1>1, <1>5, <4>1 DEF Computes, Stale
    <3>3. RampStep \in Nat
      BY <1>0, <3>2, RampsToZeroBy
    <3>4. PICK v \in Int : Commands(v) /\ (v # 0 => Abs(v) + RampStep <= Abs(output))
      BY <1>0, <3>2, RampsToZeroBy
    <3>5. output' = Clamp(v, -capacity, capacity)
      BY <1>8, <3>4 DEF Commands
    <3>6. v # 0 /\ Abs(output') <= Abs(v)
      BY <1>4, <2>2, <2>3, <3>4, <3>5 DEF Clamp, Abs
    <3>7. Abs(output') + RampStep <= Abs(output) /\ output # 0
          /\ Abs(output) \in Nat /\ Abs(output') \in Nat
      <4>0. \A x \in Int : Abs(x) \in Nat
        BY DEF Abs
      <4>1. Abs(output) \in Nat /\ Abs(output') \in Nat /\ Abs(v) \in Nat
        BY <1>4, <2>2, <4>0
      <4>2. Abs(output') + RampStep <= Abs(output)
        BY <3>3, <3>4, <3>6, <4>1
      <4>3. output # 0
        BY <2>2, <2>3, <3>3, <4>1, <4>2 DEF Abs
      <4> QED
        BY <4>1, <4>2, <4>3
    <3>8. CASE since' = StaleAfter + 1
      <4>1. since' - StaleAfter - 1 = 0
        BY <1>4, <3>8
      <4>2. (since' - StaleAfter - 1) * RampStep = 0
        BY <3>3, <4>1
      <4> QED
        BY <2>1, <3>7, <4>2
    <3>9. CASE since' # StaleAfter + 1
      <4> DEFINE k == since - StaleAfter - 1
                 m == since' - StaleAfter - 1
      <4>1. since > StaleAfter /\ since >= 1
        BY <1>3, <1>4, <2>3, <3>9 DEF Lesser
      <4>2. Abs(output) + k * RampStep <= capacity
        BY <1>8, <3>7, <4>1 DEF SilenceInv
      <4>3. k \in Nat /\ (m = k \/ m = k + 1)
        BY <1>3, <1>4, <4>1 DEF Lesser
      <4> HIDE DEF k, m
      <4>4. k * RampStep \in Nat /\ (k + 1) * RampStep = k * RampStep + RampStep
        BY <3>3, <4>3
      <4>5. m * RampStep <= k * RampStep + RampStep /\ m * RampStep \in Int
        BY <3>3, <4>3, <4>4
      <4>6. Abs(output') + m * RampStep <= capacity
        BY <1>4, <3>3, <3>7, <4>2, <4>4, <4>5
      <4> QED
        BY <4>6 DEF m
    <3> QED
      BY <3>8, <3>9
  <2> QED
    BY <1>2, <1>6, <1>8, <2>1, <2>3 DEF SilenceInv, RampStep, Share, Lesser, Abs
<1>9. CASE ~reported
  BY <1>2, <1>6, <1>9 DEF SilenceInv
<1> QED
  BY <1>7, <1>8, <1>9

\* and any other step.
LEMMA SilenceStep ==
  ASSUME EnvelopeConstants, EnvelopeInv, SilenceInv, [EnvelopeNext]_envelopeVars
  PROVE  SilenceInv'
<1>0. /\ StaleAfter \in Nat /\ age' \in 0..StaleAfter
  <2>1. EnvelopeInv'
    BY EnvelopeStep
  <2> QED
    BY <2>1, EnvelopeNumbers DEF EnvelopeInv, EnvelopeTypes
\* A change starts the count again.
<1>1. ASSUME since' = 0, quiet' => metered' PROVE SilenceInv'
  <2>1. age' >= Lesser(since', StaleAfter)
    BY <1>0, <1>1 DEF Lesser
  <2> QED
    BY <1>1, <2>1 DEF SilenceInv
<1>2. quiet => metered
  BY DEF SilenceInv
<1>3. ASSUME ~quiet' PROVE SilenceInv'
  BY <1>3 DEF SilenceInv
<1>4. CASE Tick
  <2>1. CASE quiet
    BY <1>4, <2>1, SilentTickKeeps
  <2>2. CASE ~quiet
    BY <1>3, <1>4, <2>2 DEF Tick, Computes
  <2> QED
    BY <2>1, <2>2
<1>5. CASE OffBeat
  BY <1>3, <1>5 DEF OffBeat, TickOffBeat, Computes
<1>6. CASE TickFails \/ TickHandsOff \/ Reseed
  BY <1>1, <1>2, <1>6 DEF TickFails, TickHandsOff, Reseed, Fault, Move, Computes
<1>7. CASE LoadChanges \/ LimitsChange \/ Command \/ ReadinessChanges
  BY <1>1, <1>2, <1>7 DEF LoadChanges, LimitsChange, Command, ReadinessChanges, Move
<1>8. CASE Cease \/ Energize \/ CapacityChanges \/ ChildReports
  BY <1>1, <1>2, <1>8 DEF Cease, Energize, CapacityChanges, ChildReports, Fault
<1>9. CASE MeterStops
  BY <1>1, <1>9 DEF MeterStops, Fault
<1>10. CASE MeterReturns
  BY <1>3, <1>10 DEF MeterReturns
<1>11. CASE UNCHANGED envelopeVars
  BY <1>11 DEF envelopeVars, siteVars, plantVars, meterVars, controlVars, historyVars,
               SilenceInv
<1> QED
  BY <1>4, <1>5, <1>6, <1>7, <1>8, <1>9, <1>10, <1>11 DEF EnvelopeNext, TickStep

\* Settling is as long as the reading's life and the ramp from full capacity.
SettlingIsEnough ==
    /\ Settling > StaleAfter
    /\ \A c \in Capacities : c <= (Settling - StaleAfter - 1) * RampStep

\* stale.rs: whatever happened before, a module whose meter stays silent for as
\* long as that ends up at 0 W.
THEOREM SilenceEndsAtZero ==
  ASSUME SettlingIsEnough
  PROVE  EnvelopeSpec => []SilenceStopsModule
<1> USE EnvelopeAssumptions
<1>1. EnvelopeInit => EnvelopeInv /\ SilenceInv
  BY EnvelopeStarts DEF EnvelopeInit, SilenceInv
<1>2. EnvelopeInv /\ SilenceInv /\ [EnvelopeNext]_envelopeVars => (EnvelopeInv /\ SilenceInv)'
  BY EnvelopeStep, SilenceStep
<1>3. EnvelopeInv /\ SilenceInv => SilenceStopsModule
  <2> SUFFICES ASSUME EnvelopeInv, SilenceInv, since = Settling, quiet, reported
               PROVE  out = 0
    BY DEF SilenceStopsModule
  <2>1. Settling \in Nat /\ StaleAfter \in Nat /\ Settling > StaleAfter
        /\ capacity \in Nat /\ output \in Int
        /\ capacity <= (Settling - StaleAfter - 1) * RampStep
    BY EnvelopeNumbers DEF SettlingIsEnough, EnvelopeInv, EnvelopeTypes
  <2>2. CASE ~energized
    BY <2>1, <2>2 DEF SilenceInv
  <2>3. CASE energized
    <3> DEFINE r == (Settling - StaleAfter - 1) * RampStep
    <3>1. out = output /\ (output # 0 => Abs(output) + r <= capacity)
      BY <2>1, <2>3 DEF SilenceInv
    <3>2. r \in Int
      <4>1. RampStep \in Int
        BY RampStepType
      <4> QED
        BY <2>1, <4>1
    <3> HIDE DEF r
    <3>3. capacity <= r
      BY <2>1 DEF r
    <3> QED
      BY <2>1, <3>1, <3>2, <3>3 DEF Abs
  <2> QED
    BY <2>2, <2>3
<1> QED
  BY <1>1, <1>2, <1>3, PTL DEF EnvelopeSpec
===============================================================================
