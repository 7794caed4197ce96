---------------------------- MODULE SiteEventProofs ----------------------------
(***************************************************************************)
(* Proofs about SiteEvent, for any modules, setpoints and numbers of       *)
(* events, commands, locks and mishaps: an event that is over is over for  *)
(* every module but those that refused a command, and operators get back   *)
(* what they asked.                                                        *)
(***************************************************************************)
EXTENDS SiteEvent, TLAPS

Maps == [Modules -> Values \cup {None}]

Types ==
    /\ requested \in Maps
    /\ choice \in Maps
    /\ dispatched \in Maps
    /\ todo \in Maps
    /\ by \in [Modules -> {"operator", "event"}]
    /\ snapshot \in Maps \cup {None}
    /\ task \in {"idle", "dispatch", "release"}
    /\ task = "dispatch" => snapshot # None

\* The event still knows of every setpoint it gave, and a release under way
\* has yet to take it back, or will be tried again.
TraceInv ==
    \A m \in Modules : by[m] = "event" /\ m \notin failed =>
        /\ snapshot # None
        /\ dispatched[m] # None
        /\ requested[m] = dispatched[m]
        /\ task = "release" => todo[m] # None \/ ~handled

\* Setpoint v is what the operator of m asked for: 0 W stands for nothing asked.
Chosen(m, v) == v = choice[m] \/ (choice[m] = None /\ v = 0)

\* What a release still has to restore was the event's when it looked, and it
\* restores what was there before the event.
RestoreInv ==
    \A m \in Modules : task = "release" /\ todo[m] # None =>
        /\ snapshot # None
        /\ todo[m] = IF snapshot[m] = None THEN 0 ELSE snapshot[m]
        /\ m \notin lost => requested[m] = dispatched[m]

\* A module no operator commanded since the snapshot has its choice there; one
\* an operator has since left alone has its choice as its request.
ChoiceInv ==
    \A m \in Modules \ (failed \cup lost) :
        /\ by[m] = "operator" => Chosen(m, requested[m])
        /\ snapshot # None /\ m \notin mid => Chosen(m, snapshot[m])

IInv == Types /\ TraceInv /\ RestoreInv /\ ChoiceInv

-----------------------------------------------------------------------------
(* Every step keeps it *)

LEMMA InitKnows == Init => IInv
  BY SiteEventAssumptions
  DEF Init, IInv, Types, TraceInv, RestoreInv, ChoiceInv, Chosen, Maps, Nothing

\* A tick of the event: one that is the first finds every setpoint an operator's.
LEMMA BeginKnows ==
  ASSUME IInv, Begin
  PROVE  /\ snapshot' \in Maps
         /\ snapshot' # None
         /\ snapshot # None => snapshot' = snapshot
         /\ \A m \in Modules \ (failed \cup lost) :
              m \notin mid => Chosen(m, snapshot'[m])
<1>1. CASE snapshot = None
  <2>1. \A m \in Modules \ failed : by[m] = "operator"
    BY <1>1 DEF IInv, Types, TraceInv
  <2> QED
    BY <1>1, <2>1, SiteEventAssumptions DEF IInv, Types, ChoiceInv, Begin, Maps
<1>2. CASE snapshot # None
  BY <1>2 DEF IInv, Types, ChoiceInv, Begin
<1> QED
  BY <1>1, <1>2

LEMMA DispatchKeeps ==
  ASSUME IInv, NEW shares \in [Modules \ locked -> Values], TickDispatch(shares)
  PROVE  IInv'
<1> USE DEF TickDispatch, requestVars
<1>1. /\ snapshot' \in Maps
      /\ snapshot' # None
      /\ snapshot # None => snapshot' = snapshot
      /\ \A m \in Modules \ (failed \cup lost) : m \notin mid => Chosen(m, snapshot'[m])
  BY BeginKnows
<1>2. Types'
  BY <1>1 DEF IInv, Types, Maps, Changed
<1>3. TraceInv'
  BY <1>1 DEF IInv, TraceInv
<1>4. RestoreInv'
  BY DEF RestoreInv
<1>5. ChoiceInv'
  BY <1>1 DEF IInv, ChoiceInv, Chosen
<1> QED
  BY <1>2, <1>3, <1>4, <1>5 DEF IInv

LEMMA HoldKeeps == ASSUME IInv, TickHolds PROVE IInv'
<1> USE DEF TickHolds, requestVars
<1>1. /\ snapshot' \in Maps
      /\ snapshot' # None
      /\ snapshot # None => snapshot' = snapshot
      /\ \A m \in Modules \ (failed \cup lost) : m \notin mid => Chosen(m, snapshot'[m])
  BY BeginKnows
<1>2. Types'
  BY <1>1 DEF IInv, Types
<1>3. TraceInv'
  BY <1>1 DEF IInv, TraceInv
<1>4. RestoreInv'
  BY DEF RestoreInv
<1>5. ChoiceInv'
  BY <1>1 DEF IInv, ChoiceInv, Chosen
<1> QED
  BY <1>2, <1>3, <1>4, <1>5 DEF IInv

\* A release finds every setpoint that is the event's as the event left it.
LEMMA ReleaseKeeps == ASSUME IInv, TickRelease PROVE IInv'
<1> USE DEF TickRelease, requestVars, memory
<1>1. Types'
  BY SiteEventAssumptions DEF IInv, Types, Maps, Restores
<1>2. TraceInv'
  BY SiteEventAssumptions DEF IInv, Types, TraceInv, Restores
<1>3. RestoreInv'
  BY DEF IInv, RestoreInv, Restores
<1>4. ChoiceInv'
  BY DEF IInv, ChoiceInv, Chosen
<1> QED
  BY <1>1, <1>2, <1>3, <1>4 DEF IInv

\* What handing a command over leaves alone.
LEMMA CommandKeeps ==
  ASSUME IInv, NEW m \in Modules, Command(m)
  PROVE  /\ todo' \in Maps
         /\ todo'[m] = None
         /\ \A k \in Modules \ {m} : todo'[k] = todo[k]
         /\ todo[m] \in Values
         /\ task \in {"dispatch", "release"}
         /\ snapshot # None
         /\ UNCHANGED <<choice, mid, snapshot, task>>
  BY DEF IInv, Types, Command, RestoreInv, Maps

\* What a command taking effect changes.
LEMMA EffectKeeps ==
  ASSUME IInv, NEW m \in Modules, Command(m), TakesEffect(m)
  PROVE  /\ requested' \in Maps
         /\ requested'[m] = todo[m]
         /\ by' \in [Modules -> {"operator", "event"}]
         /\ by'[m] = IF task = "dispatch" THEN "event" ELSE "operator"
         /\ \A k \in Modules \ {m} : requested'[k] = requested[k] /\ by'[k] = by[k]
         /\ lost \subseteq lost'
         /\ lost' \subseteq lost \cup {m}
         /\ m \notin lost' /\ m \in mid =>
              task = "release" /\ requested[m] # dispatched[m]
<1>1. todo[m] \in Values \cup {None} /\ task \in {"dispatch", "release"}
  BY CommandKeeps
<1> QED
  BY <1>1 DEF IInv, Types, Maps, TakesEffect

\* A share becomes the event's record of the module; a restore was what the
\* operator asked before the event.
LEMMA DoneKeeps == ASSUME IInv, NEW m \in Modules, Done(m) PROVE IInv'
<1> USE DEF Done
<1>1. /\ todo' \in Maps
      /\ todo'[m] = None
      /\ \A k \in Modules \ {m} : todo'[k] = todo[k]
      /\ todo[m] \in Values
      /\ task \in {"dispatch", "release"}
      /\ snapshot # None
      /\ UNCHANGED <<choice, mid, snapshot, task>>
  BY CommandKeeps
<1>2. /\ requested' \in Maps
      /\ requested'[m] = todo[m]
      /\ by' \in [Modules -> {"operator", "event"}]
      /\ by'[m] = IF task = "dispatch" THEN "event" ELSE "operator"
      /\ \A k \in Modules \ {m} : requested'[k] = requested[k] /\ by'[k] = by[k]
      /\ lost \subseteq lost'
      /\ lost' \subseteq lost \cup {m}
      /\ m \notin lost' /\ m \in mid => task = "release" /\ requested[m] # dispatched[m]
  BY EffectKeeps
<1>3. /\ dispatched' \in Maps
      /\ dispatched'[m] = IF task = "dispatch" THEN todo[m] ELSE dispatched[m]
      /\ \A k \in Modules \ {m} : dispatched'[k] = dispatched[k]
      /\ handled' = handled
  BY <1>1 DEF IInv, Types, Maps, Answered
<1>4. Types'
  BY <1>1, <1>2, <1>3 DEF IInv, Types
<1>5. TraceInv'
  BY <1>1, <1>2, <1>3, SiteEventAssumptions DEF IInv, TraceInv
<1>6. RestoreInv'
  BY <1>1, <1>2, <1>3 DEF IInv, RestoreInv
<1>7. ChoiceInv'
  <2> SUFFICES ASSUME NEW k \in Modules \ (failed \cup lost')
               PROVE  /\ by'[k] = "operator" => Chosen(k, requested'[k])
                      /\ snapshot # None /\ k \notin mid => Chosen(k, snapshot[k])
    BY <1>1 DEF ChoiceInv, Chosen
  <2>1. snapshot # None /\ k \notin mid => Chosen(k, snapshot[k])
    BY <1>2 DEF IInv, ChoiceInv
  <2>2. CASE k # m
    BY <1>2, <2>1, <2>2 DEF IInv, ChoiceInv
  <2>3. CASE k = m /\ task = "dispatch"
    BY <1>2, <2>1, <2>3
  <2>4. CASE k = m /\ task = "release"
    <3>1. /\ todo[m] = IF snapshot[m] = None THEN 0 ELSE snapshot[m]
          /\ m \notin lost => requested[m] = dispatched[m]
      BY <1>1, <2>4, SiteEventAssumptions DEF IInv, RestoreInv
    <3>2. m \notin mid
      BY <1>2, <2>4, <3>1
    <3>3. Chosen(m, snapshot[m])
      BY <1>1, <2>1, <2>4, <3>2
    <3>4. Chosen(m, todo[m])
      BY <3>1, <3>3, SiteEventAssumptions DEF Chosen
    <3> QED
      BY <1>2, <2>1, <2>4, <3>4
  <2> QED
    BY <1>1, <2>2, <2>3, <2>4
<1> QED
  BY <1>4, <1>5, <1>6, <1>7 DEF IInv

\* Carried out unheard: the module is one of the exceptions.
LEMMA DoneUnheardKeeps == ASSUME IInv, NEW m \in Modules, DoneUnheard(m) PROVE IInv'
<1> USE DEF DoneUnheard
<1>1. /\ todo' \in Maps
      /\ todo'[m] = None
      /\ \A k \in Modules \ {m} : todo'[k] = todo[k]
      /\ todo[m] \in Values
      /\ task \in {"dispatch", "release"}
      /\ snapshot # None
      /\ UNCHANGED <<choice, mid, snapshot, task>>
  BY CommandKeeps
<1>2. /\ requested' \in Maps
      /\ by' \in [Modules -> {"operator", "event"}]
      /\ \A k \in Modules \ {m} : requested'[k] = requested[k] /\ by'[k] = by[k]
      /\ lost \subseteq lost'
      /\ lost' \subseteq lost \cup {m}
  BY EffectKeeps
<1>3. UNCHANGED dispatched /\ handled' = FALSE
  BY DEF Unanswered
<1>4. Types'
  BY <1>1, <1>2, <1>3 DEF IInv, Types
<1>5. TraceInv'
  BY <1>1, <1>2, <1>3 DEF IInv, TraceInv
<1>6. RestoreInv'
  BY <1>1, <1>2, <1>3 DEF IInv, RestoreInv
<1>7. ChoiceInv'
  BY <1>1, <1>2, <1>3 DEF IInv, ChoiceInv, Chosen
<1> QED
  BY <1>4, <1>5, <1>6, <1>7 DEF IInv

\* Refused: a share is recorded all the same, so the module is one too.
LEMMA RefusalKeeps ==
  ASSUME IInv, NEW m \in Modules, RefusedLocked(m) \/ RefusedWrite(m)
  PROVE  IInv'
<1> USE DEF RefusedLocked, RefusedWrite
<1>1. /\ todo' \in Maps
      /\ todo'[m] = None
      /\ \A k \in Modules \ {m} : todo'[k] = todo[k]
      /\ todo[m] \in Values
      /\ task \in {"dispatch", "release"}
      /\ snapshot # None
      /\ UNCHANGED <<choice, mid, snapshot, task>>
  BY CommandKeeps
<1>2. UNCHANGED <<requested, by, lost>> /\ failed' = failed \cup {m}
  OBVIOUS
<1>3. /\ dispatched' \in Maps
      /\ \A k \in Modules \ {m} : dispatched'[k] = dispatched[k]
      /\ handled' = handled
  BY <1>1 DEF IInv, Types, Maps, Answered
<1>4. Types'
  BY <1>1, <1>2, <1>3 DEF IInv, Types
<1>5. TraceInv'
  BY <1>1, <1>2, <1>3 DEF IInv, TraceInv
<1>6. RestoreInv'
  BY <1>1, <1>2, <1>3 DEF IInv, RestoreInv
<1>7. ChoiceInv'
  BY <1>1, <1>2, <1>3 DEF IInv, ChoiceInv, Chosen
<1> QED
  BY <1>4, <1>5, <1>6, <1>7 DEF IInv

\* Never heard: a release will come back to it, a share is not recorded.
LEMMA UnheardKeeps == ASSUME IInv, NEW m \in Modules, Unheard(m) PROVE IInv'
<1> USE DEF Unheard, Unanswered
<1>1. /\ todo' \in Maps
      /\ todo'[m] = None
      /\ \A k \in Modules \ {m} : todo'[k] = todo[k]
      /\ task \in {"dispatch", "release"}
      /\ UNCHANGED <<choice, mid, snapshot, task>>
  BY CommandKeeps
<1>2. Types'
  BY <1>1 DEF IInv, Types
<1>3. TraceInv'
  BY <1>1 DEF IInv, TraceInv
<1>4. RestoreInv'
  BY <1>1 DEF IInv, RestoreInv
<1>5. ChoiceInv'
  BY <1>1 DEF IInv, ChoiceInv, Chosen
<1> QED
  BY <1>2, <1>3, <1>4, <1>5 DEF IInv

\* The event is forgotten only when every setpoint it gave was taken back.
LEMMA EndKeeps == ASSUME IInv, TickEnds PROVE IInv'
<1> USE DEF TickEnds, requestVars, memory
<1>1. CASE task = "release" /\ handled
  <2>1. \A m \in Modules \ failed : by[m] = "operator"
    <3> SUFFICES ASSUME NEW m \in Modules \ failed, by[m] = "event" PROVE FALSE
      BY DEF IInv, Types
    <3>1. todo[m] # None
      BY <1>1 DEF IInv, TraceInv
    <3> QED
      BY <3>1 DEF Nothing
  <2>2. Types'
    BY <1>1 DEF IInv, Types, Maps, Nothing
  <2>3. TraceInv'
    BY <1>1, <2>1 DEF TraceInv
  <2>4. RestoreInv'
    BY DEF RestoreInv
  <2>5. ChoiceInv'
    BY <1>1 DEF IInv, ChoiceInv, Chosen
  <2> QED
    BY <2>2, <2>3, <2>4, <2>5 DEF IInv
<1>2. CASE ~(task = "release" /\ handled)
  <2>1. Types'
    BY <1>2 DEF IInv, Types
  <2>2. TraceInv'
    BY <1>2 DEF IInv, TraceInv
  <2>3. RestoreInv'
    BY DEF RestoreInv
  <2>4. ChoiceInv'
    BY <1>2 DEF IInv, ChoiceInv, Chosen
  <2> QED
    BY <2>1, <2>2, <2>3, <2>4 DEF IInv
<1> QED
  BY <1>1, <1>2

\* An operator's command stands; one that a restore already decided will
\* overtake is lost.
LEMMA OperateKeeps ==
  ASSUME IInv, NEW m \in Modules, NEW v \in Values, Operate(m, v)
  PROVE  IInv'
<1> USE DEF Operate, memory
<1>1. Types'
  BY DEF IInv, Types, Maps
<1>2. /\ requested'[m] = v /\ choice'[m] = v /\ by'[m] = "operator"
      /\ \A k \in Modules \ {m} :
           requested'[k] = requested[k] /\ choice'[k] = choice[k] /\ by'[k] = by[k]
  BY DEF IInv, Types, Maps
<1>3. TraceInv'
  BY <1>2 DEF IInv, TraceInv
<1>4. RestoreInv'
  BY <1>2 DEF IInv, RestoreInv
<1>5. ChoiceInv'
  BY <1>2 DEF IInv, ChoiceInv, Chosen
<1> QED
  BY <1>1, <1>3, <1>4, <1>5 DEF IInv

\* Posture and locks are not in it.
LEMMA OthersKeep ==
  ASSUME IInv, UNCHANGED <<requestVars, mid, memory, task, todo, handled>>
  PROVE  IInv'
  BY DEF IInv, Types, TraceInv, RestoreInv, ChoiceInv, Chosen, requestVars, memory

LEMMA NextKeeps == IInv /\ [Next]_vars => IInv'
<1> SUFFICES ASSUME IInv, [Next]_vars PROVE IInv'
  OBVIOUS
<1>1. ASSUME NEW shares \in [Modules \ locked -> Values], TickDispatch(shares) PROVE IInv'
  BY <1>1, DispatchKeeps
<1>2. CASE TickWaits
  BY <1>2, OthersKeep DEF TickWaits, vars
<1>3. CASE TickHolds
  BY <1>3, HoldKeeps
<1>4. CASE TickRelease
  BY <1>4, ReleaseKeeps
<1>5. ASSUME NEW m \in Modules, Done(m) PROVE IInv'
  BY <1>5, DoneKeeps
<1>6. ASSUME NEW m \in Modules, DoneUnheard(m) PROVE IInv'
  BY <1>6, DoneUnheardKeeps
<1>7. ASSUME NEW m \in Modules, RefusedLocked(m) \/ RefusedWrite(m) PROVE IInv'
  BY <1>7, RefusalKeeps
<1>8. ASSUME NEW m \in Modules, Unheard(m) PROVE IInv'
  BY <1>8, UnheardKeeps
<1>9. CASE TickEnds
  BY <1>9, EndKeeps
<1>10. ASSUME NEW p \in {"hold", "release", "dispatch"}, Event(p) PROVE IInv'
  BY <1>10, OthersKeep DEF Event
<1>11. ASSUME NEW m \in Modules, NEW v \in Values, Operate(m, v) PROVE IInv'
  BY <1>11, OperateKeeps
<1>12. ASSUME NEW set \in SUBSET Lockable, Lock(set) PROVE IInv'
  BY <1>12, OthersKeep DEF Lock
<1>13. CASE UNCHANGED vars
  BY <1>13, OthersKeep DEF vars
<1> QED
  BY <1>1, <1>2, <1>3, <1>4, <1>5, <1>6, <1>7, <1>8, <1>9, <1>10, <1>11, <1>12, <1>13
  DEF Next, TaskStep

LEMMA MemoryHolds == Spec => []IInv
  BY InitKnows, NextKeeps, PTL DEF Spec

-----------------------------------------------------------------------------
(* What it shows *)

\* event_memory.rs end and site_distribution.rs release: an event is forgotten
\* only when no module is left on a setpoint it gave, those that refused a
\* command, or carried it out without a `done`, aside: through any commands of
\* operators, unheard commands, locks, and events that pause and resume.
THEOREM EventLeavesNoTrace == Spec => []NoTraceUnlessRefused
<1>1. IInv => NoTraceUnlessRefused
  BY DEF IInv, Types, TraceInv, NoTraceUnlessRefused
<1> QED
  BY <1>1, MemoryHolds, PTL

\* event_memory.rs begin and end: the snapshot and the comparison with what was
\* dispatched give every operator their choice back, but for what a share or a
\* restore overtook.
THEOREM OperatorsKeepTheirChoice == Spec => []ChoiceComesBack
<1>1. IInv => ChoiceComesBack
  BY DEF IInv, Types, TraceInv, ChoiceInv, Chosen, ChoiceComesBack
<1> QED
  BY <1>1, MemoryHolds, PTL

=============================================================================
