---------------------------- MODULE ReconcileProofs ----------------------------
(***************************************************************************)
(* What holds of every reconcile, for every set of specifications, tasks   *)
(* and topics and any number of changes, outages and failures: two         *)
(* topologies never drive the devices at once, and the gateway is never    *)
(* behind its specification unnoticed.                                     *)
(***************************************************************************)
EXTENDS Reconcile, TLAPS

IInv == TypeOK /\ MapsInv /\ GuardsInv /\ FreshInv /\ BehindIsTemporary

LEMMA InitInv == Init => IInv
<1> SUFFICES ASSUME Init PROVE IInv
  OBVIOUS
<1> USE ReconcileAssumptions DEF Init, Optional, Booting, Swapping, Nothing, Up
<1>1. FlagsOK
  BY DEF FlagsOK
<1>2. CountersOK
  BY DEF CountersOK
<1>3. TypeOK
  BY <1>1, <1>2 DEF TypeOK
<1>4. MapsInv /\ GuardsInv /\ FreshInv
  BY DEF MapsInv, GuardsInv, FreshInv
<1>5. BehindIsTemporary
  BY DEF BehindIsTemporary, Coming
<1> QED BY <1>3, <1>4, <1>5 DEF IInv

LEMMA FlagsStep == FlagsOK /\ [Next]_vars => FlagsOK'
<1> SUFFICES ASSUME FlagsOK, [Next]_vars PROVE FlagsOK'
  OBVIOUS
<1> USE DEF FlagsOK, apiVars, brokerVars, subVars, runVars, mapVars, taskVars, commandVars, faultVars
<1>1. ASSUME NEW s \in Specs, ChangeSpec(s) PROVE FlagsOK'
  BY <1>1 DEF ChangeSpec
<1>2. ASSUME NEW t \in Tasks, TickBegins(t) \/ TickEnds(t) \/ TaskExits(t) PROVE FlagsOK'
  BY <1>2 DEF TickBegins, TickEnds, TaskExits
<1>3. CASE Deliver \/ Overrun \/ PublishUnheard
  BY <1>3 DEF Deliver, Overrun, PublishUnheard
<1>4. CASE Disconnect \/ Reconnect \/ Resubscribe \/ ResubscribeRefused
  BY <1>4 DEF Disconnect, Reconnect, Resubscribe, ResubscribeRefused
<1>5. CASE Forward
  BY <1>5 DEF Forward
<1>6. CASE CommandReadsChannels \/ CommandReadsTrust \/ CommandEnds
  BY <1>6 DEF CommandReadsChannels, CommandReadsTrust, CommandEnds
<1>7. CASE BootFetch
  BY <1>7 DEF BootFetch
<1>8. CASE BootSubscribe
  BY <1>8 DEF BootSubscribe, Spawn
<1>9. CASE BootFails
  BY <1>9 DEF BootFails
<1>10. CASE Wake \/ Join
  BY <1>10 DEF Wake, Join
<1>11. CASE FetchAnswers
  BY <1>11 DEF FetchAnswers, Spawn
<1>12. CASE FetchFails
  BY <1>12 DEF FetchFails, Spawn
<1>13. CASE SwapChannels \/ SwapTrust
  BY <1>13 DEF SwapChannels, SwapTrust
<1>14. CASE Unsubscribe \/ Subscribe
  BY <1>14 DEF Unsubscribe, Subscribe, Removed, Added
<1>15. CASE Commit
  BY <1>15 DEF Commit, Spawn
<1>16. CASE UpdateFails
  BY <1>16 DEF UpdateFails, Spawn, Removed, Added
<1>17. CASE Stop \/ Exit
  BY <1>17 DEF Stop, Exit
<1>18. CASE Restart
  BY <1>18 DEF Restart
<1>19. CASE Signal
  BY <1>19 DEF Signal
<1>20. CASE UNCHANGED vars
  BY <1>20 DEF vars
<1> QED
  BY <1>1, <1>2, <1>3, <1>4, <1>5, <1>6, <1>7, <1>8, <1>9, <1>10, <1>11,
     <1>12, <1>13, <1>14, <1>15, <1>16, <1>17, <1>18, <1>19, <1>20
  DEF Next, BootStep, MainStep

LEMMA CountersStep == CountersOK /\ [Next]_vars => CountersOK'
<1> SUFFICES ASSUME CountersOK, [Next]_vars PROVE CountersOK'
  OBVIOUS
<1> USE ReconcileAssumptions DEF CountersOK, apiVars, brokerVars, subVars, runVars, mapVars, taskVars, commandVars, faultVars
<1>1. ASSUME NEW s \in Specs, ChangeSpec(s) PROVE CountersOK'
  BY <1>1 DEF ChangeSpec
<1>2. ASSUME NEW t \in Tasks, TickBegins(t) \/ TickEnds(t) \/ TaskExits(t) PROVE CountersOK'
  BY <1>2 DEF TickBegins, TickEnds, TaskExits
<1>3. CASE Deliver \/ Overrun \/ PublishUnheard
  BY <1>3 DEF Deliver, Overrun, PublishUnheard
<1>4. CASE Disconnect \/ Reconnect \/ Resubscribe \/ ResubscribeRefused
  BY <1>4 DEF Disconnect, Reconnect, Resubscribe, ResubscribeRefused
<1>5. CASE Forward
  BY <1>5 DEF Forward
<1>6. CASE CommandReadsChannels \/ CommandReadsTrust \/ CommandEnds
  BY <1>6 DEF CommandReadsChannels, CommandReadsTrust, CommandEnds
<1>7. CASE BootFetch
  BY <1>7 DEF BootFetch
<1>8. CASE BootSubscribe
  BY <1>8 DEF BootSubscribe, Spawn
<1>9. CASE BootFails
  BY <1>9 DEF BootFails
<1>10. CASE Wake \/ Join
  BY <1>10 DEF Wake, Join
<1>11. CASE FetchAnswers
  BY <1>11 DEF FetchAnswers, Spawn
<1>12. CASE FetchFails
  BY <1>12 DEF FetchFails, Spawn
<1>13. CASE SwapChannels \/ SwapTrust
  BY <1>13 DEF SwapChannels, SwapTrust
<1>14. CASE Unsubscribe \/ Subscribe
  BY <1>14 DEF Unsubscribe, Subscribe, Removed, Added
<1>15. CASE Commit
  BY <1>15 DEF Commit, Spawn
<1>16. CASE UpdateFails
  BY <1>16 DEF UpdateFails, Spawn, Removed, Added
<1>17. CASE Stop \/ Exit
  BY <1>17 DEF Stop, Exit
<1>18. CASE Restart
  BY <1>18 DEF Restart
<1>19. CASE Signal
  BY <1>19 DEF Signal
<1>20. CASE UNCHANGED vars
  BY <1>20 DEF vars
<1> QED
  BY <1>1, <1>2, <1>3, <1>4, <1>5, <1>6, <1>7, <1>8, <1>9, <1>10, <1>11,
     <1>12, <1>13, <1>14, <1>15, <1>16, <1>17, <1>18, <1>19, <1>20
  DEF Next, BootStep, MainStep

LEMMA TypeStep == TypeOK /\ MapsInv /\ [Next]_vars => TypeOK'
<1> SUFFICES ASSUME TypeOK, MapsInv, [Next]_vars PROVE TypeOK'
  OBVIOUS
<1> USE ReconcileAssumptions, FlagsStep, CountersStep
    DEF TypeOK, MapsInv, Optional, Booting, Swapping, Nothing,
        apiVars, brokerVars, subVars, runVars, mapVars, taskVars, commandVars, faultVars
<1>1. ASSUME NEW s \in Specs, ChangeSpec(s) PROVE TypeOK'
  BY <1>1 DEF ChangeSpec
<1>2. ASSUME NEW t \in Tasks, TickBegins(t) \/ TickEnds(t) \/ TaskExits(t) PROVE TypeOK'
  BY <1>2 DEF TickBegins, TickEnds, TaskExits
<1>3. CASE Deliver \/ Overrun \/ PublishUnheard
  BY <1>3 DEF Deliver, Overrun, PublishUnheard
<1>4. CASE Disconnect \/ Reconnect \/ Resubscribe \/ ResubscribeRefused
  BY <1>4 DEF Disconnect, Reconnect, Resubscribe, ResubscribeRefused
<1>5. CASE Forward
  BY <1>5 DEF Forward
<1>6. CASE CommandReadsChannels \/ CommandReadsTrust \/ CommandEnds
  BY <1>6 DEF CommandReadsChannels, CommandReadsTrust, CommandEnds
<1>7. CASE BootFetch
  BY <1>7 DEF BootFetch
<1>8. CASE BootSubscribe
  BY <1>8 DEF BootSubscribe, Spawn
<1>9. CASE BootFails
  BY <1>9 DEF BootFails
<1>10. CASE Wake \/ Join
  BY <1>10 DEF Wake, Join
<1>11. CASE FetchAnswers
  BY <1>11 DEF FetchAnswers, Spawn
<1>12. CASE FetchFails
  BY <1>12 DEF FetchFails, Spawn
<1>13. CASE SwapChannels \/ SwapTrust
  BY <1>13 DEF SwapChannels, SwapTrust
<1>14. CASE Unsubscribe \/ Subscribe
  BY <1>14 DEF Unsubscribe, Subscribe, Removed, Added
<1>15. CASE Commit
  BY <1>15 DEF Commit, Spawn
<1>16. CASE UpdateFails
  BY <1>16 DEF UpdateFails, Spawn, Removed, Added
<1>17. CASE Stop \/ Exit
  BY <1>17 DEF Stop, Exit
<1>18. CASE Restart
  BY <1>18 DEF Restart
<1>19. CASE Signal
  BY <1>19 DEF Signal
<1>20. CASE UNCHANGED vars
  BY <1>20 DEF vars
<1> QED
  BY <1>1, <1>2, <1>3, <1>4, <1>5, <1>6, <1>7, <1>8, <1>9, <1>10, <1>11,
     <1>12, <1>13, <1>14, <1>15, <1>16, <1>17, <1>18, <1>19, <1>20
  DEF Next, BootStep, MainStep

\* The task set is empty while the maps are swapped, and they are swapped
\* before the next set is spawned.
LEMMA MapsStep == TypeOK /\ MapsInv /\ [Next]_vars => MapsInv'
<1> SUFFICES ASSUME TypeOK, MapsInv, [Next]_vars PROVE MapsInv'
  OBVIOUS
<1> USE ReconcileAssumptions
    DEF TypeOK, MapsInv, Optional, Booting, Swapping,
        apiVars, brokerVars, subVars, runVars, mapVars, taskVars, commandVars, faultVars
<1>1. ASSUME NEW s \in Specs, ChangeSpec(s) PROVE MapsInv'
  BY <1>1 DEF ChangeSpec
<1>2. ASSUME NEW t \in Tasks, TickBegins(t) \/ TickEnds(t) \/ TaskExits(t) PROVE MapsInv'
  BY <1>2 DEF TickBegins, TickEnds, TaskExits
<1>3. CASE Deliver \/ Overrun \/ PublishUnheard
  BY <1>3 DEF Deliver, Overrun, PublishUnheard
<1>4. CASE Disconnect \/ Reconnect \/ Resubscribe \/ ResubscribeRefused
  BY <1>4 DEF Disconnect, Reconnect, Resubscribe, ResubscribeRefused
<1>5. CASE Forward
  BY <1>5 DEF Forward
<1>6. CASE CommandReadsChannels \/ CommandReadsTrust \/ CommandEnds
  BY <1>6 DEF CommandReadsChannels, CommandReadsTrust, CommandEnds
<1>7. CASE BootFetch
  BY <1>7 DEF BootFetch
<1>8. CASE BootSubscribe
  BY <1>8 DEF BootSubscribe, Spawn
<1>9. CASE BootFails
  BY <1>9 DEF BootFails
<1>10. CASE Wake \/ Join
  BY <1>10 DEF Wake, Join
<1>11. CASE FetchAnswers
  BY <1>11 DEF FetchAnswers, Spawn
<1>12. CASE FetchFails
  BY <1>12 DEF FetchFails, Spawn
<1>13. CASE SwapChannels \/ SwapTrust
  BY <1>13 DEF SwapChannels, SwapTrust
<1>14. CASE Unsubscribe \/ Subscribe
  BY <1>14 DEF Unsubscribe, Subscribe, Removed, Added
<1>15. CASE Commit
  BY <1>15 DEF Commit, Spawn
<1>16. CASE UpdateFails
  BY <1>16 DEF UpdateFails, Spawn, Removed, Added
<1>17. CASE Stop \/ Exit
  BY <1>17 DEF Stop, Exit
<1>18. CASE Restart
  BY <1>18 DEF Restart
<1>19. CASE Signal
  BY <1>19 DEF Signal
<1>20. CASE UNCHANGED vars
  BY <1>20 DEF vars
<1> QED
  BY <1>1, <1>2, <1>3, <1>4, <1>5, <1>6, <1>7, <1>8, <1>9, <1>10, <1>11,
     <1>12, <1>13, <1>14, <1>15, <1>16, <1>17, <1>18, <1>19, <1>20
  DEF Next, BootStep, MainStep

\* A map is only swapped under the command that does not hold its guard.
LEMMA GuardsStep == TypeOK /\ GuardsInv /\ [Next]_vars => GuardsInv'
<1> SUFFICES ASSUME TypeOK, GuardsInv, [Next]_vars PROVE GuardsInv'
  OBVIOUS
<1> USE DEF TypeOK, GuardsInv, Up, Booting, Swapping,
        apiVars, brokerVars, subVars, runVars, mapVars, taskVars, commandVars, faultVars
<1>1. ASSUME NEW s \in Specs, ChangeSpec(s) PROVE GuardsInv'
  BY <1>1 DEF ChangeSpec
<1>2. ASSUME NEW t \in Tasks, TickBegins(t) \/ TickEnds(t) \/ TaskExits(t) PROVE GuardsInv'
  BY <1>2 DEF TickBegins, TickEnds, TaskExits
<1>3. CASE Deliver \/ Overrun \/ PublishUnheard
  BY <1>3 DEF Deliver, Overrun, PublishUnheard
<1>4. CASE Disconnect \/ Reconnect \/ Resubscribe \/ ResubscribeRefused
  BY <1>4 DEF Disconnect, Reconnect, Resubscribe, ResubscribeRefused
<1>5. CASE Forward
  BY <1>5 DEF Forward
<1>6. CASE CommandReadsChannels \/ CommandReadsTrust \/ CommandEnds
  BY <1>6 DEF CommandReadsChannels, CommandReadsTrust, CommandEnds
<1>7. CASE BootFetch
  BY <1>7 DEF BootFetch
<1>8. CASE BootSubscribe
  BY <1>8 DEF BootSubscribe, Spawn
<1>9. CASE BootFails
  BY <1>9 DEF BootFails
<1>10. CASE Wake \/ Join
  BY <1>10 DEF Wake, Join
<1>11. CASE FetchAnswers
  BY <1>11 DEF FetchAnswers, Spawn
<1>12. CASE FetchFails
  BY <1>12 DEF FetchFails, Spawn
<1>13. CASE SwapChannels \/ SwapTrust
  BY <1>13 DEF SwapChannels, SwapTrust
<1>14. CASE Unsubscribe \/ Subscribe
  BY <1>14 DEF Unsubscribe, Subscribe, Removed, Added
<1>15. CASE Commit
  BY <1>15 DEF Commit, Spawn
<1>16. CASE UpdateFails
  BY <1>16 DEF UpdateFails, Spawn, Removed, Added
<1>17. CASE Stop \/ Exit
  BY <1>17 DEF Stop, Exit
<1>18. CASE Restart
  BY <1>18 DEF Restart
<1>19. CASE Signal
  BY <1>19 DEF Signal
<1>20. CASE UNCHANGED vars
  BY <1>20 DEF vars
<1> QED
  BY <1>1, <1>2, <1>3, <1>4, <1>5, <1>6, <1>7, <1>8, <1>9, <1>10, <1>11,
     <1>12, <1>13, <1>14, <1>15, <1>16, <1>17, <1>18, <1>19, <1>20
  DEF Next, BootStep, MainStep

LEMMA FreshStep == TypeOK /\ FreshInv /\ [Next]_vars => FreshInv'
<1> SUFFICES ASSUME TypeOK, FreshInv, [Next]_vars PROVE FreshInv'
  OBVIOUS
<1> USE DEF TypeOK, FlagsOK, FreshInv, Subscribed, Up, Booting, Swapping,
        apiVars, brokerVars, subVars, runVars, mapVars, taskVars, commandVars, faultVars
<1>1. ASSUME NEW s \in Specs, ChangeSpec(s) PROVE FreshInv'
  BY <1>1 DEF ChangeSpec
<1>2. ASSUME NEW t \in Tasks, TickBegins(t) \/ TickEnds(t) \/ TaskExits(t) PROVE FreshInv'
  BY <1>2 DEF TickBegins, TickEnds, TaskExits
<1>3. CASE Deliver \/ Overrun \/ PublishUnheard
  BY <1>3 DEF Deliver, Overrun, PublishUnheard
<1>4. CASE Disconnect \/ Reconnect \/ Resubscribe \/ ResubscribeRefused
  BY <1>4 DEF Disconnect, Reconnect, Resubscribe, ResubscribeRefused
<1>5. CASE Forward
  BY <1>5 DEF Forward
<1>6. CASE CommandReadsChannels \/ CommandReadsTrust \/ CommandEnds
  BY <1>6 DEF CommandReadsChannels, CommandReadsTrust, CommandEnds
<1>7. CASE BootFetch
  BY <1>7 DEF BootFetch
<1>8. CASE BootSubscribe
  BY <1>8 DEF BootSubscribe, Spawn
<1>9. CASE BootFails
  BY <1>9 DEF BootFails
<1>10. CASE Wake \/ Join
  BY <1>10 DEF Wake, Join
<1>11. CASE FetchAnswers
  BY <1>11 DEF FetchAnswers, Spawn
<1>12. CASE FetchFails
  BY <1>12 DEF FetchFails, Spawn
<1>13. CASE SwapChannels \/ SwapTrust
  BY <1>13 DEF SwapChannels, SwapTrust
<1>14. CASE Unsubscribe \/ Subscribe
  BY <1>14 DEF Unsubscribe, Subscribe, Removed, Added
<1>15. CASE Commit
  BY <1>15 DEF Commit, Spawn
<1>16. CASE UpdateFails
  BY <1>16 DEF UpdateFails, Spawn, Removed, Added
<1>17. CASE Stop \/ Exit
  BY <1>17 DEF Stop, Exit
<1>18. CASE Restart
  BY <1>18 DEF Restart
<1>19. CASE Signal
  BY <1>19 DEF Signal
<1>20. CASE UNCHANGED vars
  BY <1>20 DEF vars
<1> QED
  BY <1>1, <1>2, <1>3, <1>4, <1>5, <1>6, <1>7, <1>8, <1>9, <1>10, <1>11,
     <1>12, <1>13, <1>14, <1>15, <1>16, <1>17, <1>18, <1>19, <1>20
  DEF Next, BootStep, MainStep

LEMMA BehindStep ==
    TypeOK /\ FreshInv /\ BehindIsTemporary /\ [Next]_vars => BehindIsTemporary'
<1> SUFFICES ASSUME TypeOK, FreshInv, BehindIsTemporary, [Next]_vars
             PROVE  BehindIsTemporary'
  OBVIOUS
<1> USE DEF TypeOK, FlagsOK, FreshInv, BehindIsTemporary, Coming, Subscribed, Up,
        Booting, Swapping, apiVars, brokerVars, subVars, runVars, mapVars, taskVars, commandVars, faultVars
<1>1. ASSUME NEW s \in Specs, ChangeSpec(s) PROVE BehindIsTemporary'
  BY <1>1 DEF ChangeSpec
<1>2. ASSUME NEW t \in Tasks, TickBegins(t) \/ TickEnds(t) \/ TaskExits(t) PROVE BehindIsTemporary'
  BY <1>2 DEF TickBegins, TickEnds, TaskExits
<1>3. CASE Deliver \/ Overrun \/ PublishUnheard
  BY <1>3 DEF Deliver, Overrun, PublishUnheard
<1>4. CASE Disconnect \/ Reconnect \/ Resubscribe \/ ResubscribeRefused
  BY <1>4 DEF Disconnect, Reconnect, Resubscribe, ResubscribeRefused
<1>5. CASE Forward
  BY <1>5 DEF Forward
<1>6. CASE CommandReadsChannels \/ CommandReadsTrust \/ CommandEnds
  BY <1>6 DEF CommandReadsChannels, CommandReadsTrust, CommandEnds
<1>7. CASE BootFetch
  BY <1>7 DEF BootFetch
<1>8. CASE BootSubscribe
  BY <1>8 DEF BootSubscribe, Spawn
<1>9. CASE BootFails
  BY <1>9 DEF BootFails
<1>10. CASE Wake \/ Join
  BY <1>10 DEF Wake, Join
<1>11. CASE FetchAnswers
  BY <1>11 DEF FetchAnswers, Spawn
<1>12. CASE FetchFails
  BY <1>12 DEF FetchFails, Spawn
<1>13. CASE SwapChannels \/ SwapTrust
  BY <1>13 DEF SwapChannels, SwapTrust
<1>14. CASE Unsubscribe \/ Subscribe
  BY <1>14 DEF Unsubscribe, Subscribe, Removed, Added
<1>15. CASE Commit
  BY <1>15 DEF Commit, Spawn
<1>16. CASE UpdateFails
  BY <1>16 DEF UpdateFails, Spawn, Removed, Added
<1>17. CASE Stop \/ Exit
  BY <1>17 DEF Stop, Exit
<1>18. CASE Restart
  BY <1>18 DEF Restart
<1>19. CASE Signal
  BY <1>19 DEF Signal
<1>20. CASE UNCHANGED vars
  BY <1>20 DEF vars
<1> QED
  BY <1>1, <1>2, <1>3, <1>4, <1>5, <1>6, <1>7, <1>8, <1>9, <1>10, <1>11,
     <1>12, <1>13, <1>14, <1>15, <1>16, <1>17, <1>18, <1>19, <1>20
  DEF Next, BootStep, MainStep

LEMMA NextInv == IInv /\ [Next]_vars => IInv'
  BY TypeStep, MapsStep, GuardsStep, FreshStep, BehindStep DEF IInv

\* Every reachable state of Reconcile is well typed.
THEOREM ReconcileTypeCorrect == Spec => []TypeOK
<1>1. IInv => TypeOK
  BY DEF IInv
<1> QED BY <1>1, InitInv, NextInv, PTL DEF Spec

\* As long as a task of a set is alive, commands resolve bindings and trust
\* from the specification that set was spawned from.
THEOREM OneTopologyAtATime == Spec => []TasksMatchDevices
<1>1. IInv => TasksMatchDevices
  BY DEF IInv, TypeOK, MapsInv, TasksMatchDevices, Booting, Swapping
<1> QED BY <1>1, InitInv, NextInv, PTL DEF Spec

\* A command that got the new topology's bindings with the old one's trust has
\* the reconcile to itself: it waits, and no task of either runs.
THEOREM MixedViewsAreAlone == Spec => []MixedViewIsConfined
<1>1. IInv => MixedViewIsConfined
  BY DEF IInv, TypeOK, MapsInv, GuardsInv, MixedViewIsConfined, Up, Booting, Swapping
<1> QED BY <1>1, InitInv, NextInv, PTL DEF Spec

\* The gateway is never behind a specification it could serve with nothing on
\* the way to bring it there, unless a beacon was published to nobody or dropped
\* by the forwarder's full stream (subscriber.rs), or a fetch was given up.
THEOREM BehindIsNoticed == Spec => []BehindIsTemporary
<1>1. IInv => BehindIsTemporary
  BY DEF IInv
<1> QED BY <1>1, InitInv, NextInv, PTL DEF Spec

-----------------------------------------------------------------------------
(* The subscriptions *)

\* The broker has what is in S, or will when it has handled what the callback
\* issued on this link, unless it refuses that.
Gets(S) == linkUp /\ ~deaf => heard \cup asked = S

\* Where the list, the broker and the update between them stand as long as no
\* update met a failure: a diff half done is only ever half done on a live
\* link, so a reconnect, which re-issues the list, never undoes one.
InputsInv ==
    /\ pc = "select" => tasksOf = current
    /\ ~linkUp => heard = {} /\ asked = {} /\ ~deaf
    /\ pc \in Booting => linkUp /\ asked = {} /\ ~deaf
    /\ ~shaky =>
        /\ pc \in {"select", "join", "fetch", "channels", "trust", "unsubscribe", "stop"}
              => list = InputsOf[current] /\ Gets(list)
        /\ pc = "subscribe" => Gets(list \ Removed) /\ (~linkUp => Removed = {})
        /\ pc = "commit" => Gets(InputsOf[fresh]) /\ (~linkUp => list = InputsOf[fresh])

LEMMA InputsStep == TypeOK /\ MapsInv /\ InputsInv /\ [Next]_vars => InputsInv'
<1> SUFFICES ASSUME TypeOK, MapsInv, InputsInv, [Next]_vars PROVE InputsInv'
  OBVIOUS
<1> USE ReconcileAssumptions
    DEF TypeOK, FlagsOK, InputsInv, Gets, Booting, Swapping,
        apiVars, brokerVars, subVars, runVars, mapVars, taskVars, commandVars, faultVars
<1>1. ASSUME NEW s \in Specs, ChangeSpec(s) PROVE InputsInv'
  BY <1>1 DEF ChangeSpec, Removed
<1>2. ASSUME NEW t \in Tasks, TickBegins(t) \/ TickEnds(t) \/ TaskExits(t) PROVE InputsInv'
  BY <1>2 DEF TickBegins, TickEnds, TaskExits, Removed
<1>3. CASE Deliver \/ Overrun \/ PublishUnheard
  BY <1>3 DEF Deliver, Overrun, PublishUnheard, Removed
<1>4. CASE Disconnect
  BY <1>4 DEF Disconnect, Up, Removed
<1>5. CASE Reconnect \/ Resubscribe \/ ResubscribeRefused
  BY <1>5 DEF Reconnect, Resubscribe, ResubscribeRefused, Up, Removed
<1>6. CASE Forward
  BY <1>6 DEF Forward, Removed
<1>7. CASE CommandReadsChannels \/ CommandReadsTrust \/ CommandEnds
  BY <1>7 DEF CommandReadsChannels, CommandReadsTrust, CommandEnds, Removed
<1>8. CASE BootFetch \/ BootFails
  BY <1>8 DEF BootFetch, BootFails, Removed
<1>9. CASE BootSubscribe
  BY <1>9 DEF BootSubscribe, Spawn, Removed
<1>10. CASE Wake \/ Join
  BY <1>10 DEF Wake, Join, Removed
<1>11. CASE FetchAnswers
  BY <1>11 DEF FetchAnswers, Spawn, Removed
<1>12. CASE FetchFails
  BY <1>12 DEF FetchFails, Spawn, Removed
<1>13. CASE SwapChannels \/ SwapTrust
  BY <1>13 DEF SwapChannels, SwapTrust, Removed
<1>14. CASE Unsubscribe
  BY <1>14 DEF Unsubscribe, Removed
<1>15. CASE Subscribe
  BY <1>15 DEF Subscribe, Removed, Added
<1>16. CASE Commit
  BY <1>16 DEF Commit, Spawn, Removed
<1>17. CASE UpdateFails
  BY <1>17 DEF UpdateFails, Spawn, Removed
<1>18. CASE Stop \/ Exit
  BY <1>18 DEF Stop, Exit, Removed
<1>19. CASE Restart \/ Signal
  BY <1>19 DEF Restart, Signal, Removed
<1>20. CASE UNCHANGED vars
  BY <1>20 DEF vars, Removed
<1> QED
  BY <1>1, <1>2, <1>3, <1>4, <1>5, <1>6, <1>7, <1>8, <1>9, <1>10, <1>11,
     <1>12, <1>13, <1>14, <1>15, <1>16, <1>17, <1>18, <1>19, <1>20
  DEF Next, BootStep, MainStep

\* subscriptions.rs: between reconciles the broker has exactly the inputs the
\* running tasks read, through outages, reconnects, specifications turned down
\* and restarts, unless an update of the subscriptions met a failure, from when
\* the broker has handled the connected callback's list (subscriber.rs), which it
\* may do late, and unless it refused that.
THEOREM SubscriptionsFollow == Spec => []InputsHeardUnlessShaky
<1>1. Init => InputsInv
  BY DEF Init, InputsInv, Booting
<1>2. IInv /\ InputsInv /\ [Next]_vars => InputsInv'
  BY InputsStep DEF IInv
<1>3. IInv /\ InputsInv => InputsHeardUnlessShaky
  BY DEF IInv, TypeOK, FlagsOK, InputsInv, Gets, InputsHeardUnlessShaky, InputsHeard
<1> QED BY <1>1, <1>2, <1>3, InitInv, NextInv, PTL DEF Spec

=============================================================================
