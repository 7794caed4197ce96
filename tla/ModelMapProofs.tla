---------------------------- MODULE ModelMapProofs ----------------------------
(***************************************************************************)
(* WritesOnTarget for any callers, firmware, register space and number of  *)
(* reboots.                                                                *)
(***************************************************************************)
EXTENDS ModelMaps, TLAPS

\* Where firmware l has model id, and the maps that say so of each model.
At(l, id) == {a + 2 : a \in {x \in DOMAIN l.headers : l.headers[x].id = id}}
TrueMap(l, m) == \A i \in DOMAIN m : m[i] \in At(l, i)

\* What the steps below need of the variables' types.
Shape ==
    /\ DOMAIN pc = Callers
    /\ DOMAIN addr = Callers
    /\ DOMAIN found = Callers
    /\ began \in [Callers -> Nat]
    /\ DOMAIN blind = Callers
    /\ boot \in Nat
    /\ layout \in Layouts

\* Nobody has looked a map up in a boot to come.
NotAhead == \A c \in Callers : began[c] <= boot

\* Before its walk a request has found nothing; in a walk no reboot has torn,
\* it is at a header, and has found models only where they are.
WalkInv ==
    \A c \in Callers :
        /\ pc[c] \in {"idle", "base"} => found[c] = <<>>
        /\ pc[c] = "walk" /\ began[c] = boot =>
              addr[c] \in DOMAIN layout.headers /\ TrueMap(layout, found[c])

\* Once a failure has evicted, an untorn map in the cache is the device's.
CacheInv == models # NoMap /\ ~models.torn /\ noticed => TrueMap(layout, models.map)

\* WritesOnTarget, from the scale factor's read on.
AimInv ==
    \A c \in Callers :
        pc[c] \in {"scale", "write"} =>
            addr[c] \in At(layout, Wants[c]) \/ began[c] # boot \/ blind[c]

IInv == Shape /\ NotAhead /\ WalkInv /\ CacheInv /\ AimInv

LEMMA InitInv == Init => IInv
<1> SUFFICES ASSUME Init PROVE IInv
  OBVIOUS
<1>1. Shape /\ NotAhead
  BY DEF Init, Shape, NotAhead
<1>2. WalkInv /\ CacheInv /\ AimInv
  BY DEF Init, WalkInv, CacheInv, AimInv
<1> QED
  BY <1>1, <1>2 DEF IInv

\* A request that ends or fails leaves the others, and the device, alone.
LEMMA FailsInv == ASSUME NEW c \in Callers, IInv, Fails(c) PROVE IInv'
<1> USE DEF IInv, Fails, Ends, Step, deviceVars
<1>1. Shape' /\ NotAhead'
  BY DEF Shape, NotAhead
<1>2. WalkInv'
  BY DEF Shape, WalkInv
<1>3. CacheInv'
  BY DEF CacheInv, Forget
<1>4. AimInv'
  BY DEF Shape, AimInv
<1> QED
  BY <1>1, <1>2, <1>3, <1>4

LEMMA EndsInv ==
  ASSUME NEW c \in Callers, IInv, Ends(c), UNCHANGED <<models, deviceVars, noticed>>
  PROVE  IInv'
<1> USE DEF IInv, Ends, Step, deviceVars
<1>1. Shape' /\ NotAhead'
  BY DEF Shape, NotAhead
<1>2. WalkInv'
  BY DEF Shape, WalkInv
<1>3. CacheInv'
  BY DEF CacheInv
<1>4. AimInv'
  BY DEF Shape, AimInv
<1> QED
  BY <1>1, <1>2, <1>3, <1>4

\* A step that only moves c on, at the same address, past or before its walk.
LEMMA MovesInv ==
  ASSUME NEW c \in Callers, IInv,
         ScaleRead(c) \/ NoMarker(c) \/ Discover(c)
  PROVE  IInv'
<1> USE DEF IInv, ScaleRead, NoMarker, Discover, Step, deviceVars
<1>1. Shape' /\ NotAhead'
  BY DEF Shape, NotAhead
<1>2. WalkInv'
  BY DEF Shape, WalkInv
<1>3. CacheInv'
  BY DEF CacheInv
<1>4. AimInv'
  BY DEF Shape, AimInv
<1> QED
  BY <1>1, <1>2, <1>3, <1>4

LEMMA MarkerInv == ASSUME NEW c \in Callers, IInv, Marker(c) PROVE IInv'
<1> USE DEF IInv, Marker, Step, deviceVars
<1>1. Shape' /\ NotAhead'
  BY DEF Shape, NotAhead
<1>2. layout.base + 2 \in DOMAIN layout.headers
  BY LayoutAssumption DEF Shape
<1>3. found[c] = <<>> /\ DOMAIN found[c] = {}
  BY DEF WalkInv
<1>4. WalkInv'
  <2>1. TrueMap(layout, found[c])
    BY <1>3 DEF TrueMap
  <2> QED
    BY <1>2, <2>1 DEF Shape, WalkInv
<1>5. CacheInv'
  BY DEF CacheInv
<1>6. AimInv'
  BY DEF Shape, AimInv
<1> QED
  BY <1>1, <1>4, <1>5, <1>6

LEMMA UseCachedInv == ASSUME NEW c \in Callers, IInv, UseCached(c) PROVE IInv'
<1> USE DEF IInv, UseCached, Located, Step, deviceVars
<1>1. Shape' /\ NotAhead'
  BY DEF Shape, NotAhead
<1>2. WalkInv'
  BY DEF Shape, WalkInv
<1>3. CacheInv'
  BY DEF CacheInv
<1>4. addr'[c] \in At(layout, Wants[c]) \/ blind'[c]
  BY DEF Shape, CacheInv, TrueMap
<1>5. AimInv'
  BY <1>4 DEF Shape, AimInv
<1> QED
  BY <1>1, <1>2, <1>3, <1>5

\* A walk no reboot has torn reads the header the device has there, and goes
\* on to the next without wrapping.
LEMMA WalkOnInv ==
  ASSUME NEW c \in Callers, IInv, pc[c] = "walk",
         NEW h \in Headers(addr[c]), WalkOn(c, h)
  PROVE  IInv'
<1> USE DEF IInv, WalkOn, deviceVars
<1>1. Shape' /\ NotAhead'
  BY DEF Shape, NotAhead
<1>2. ASSUME began[c] = boot
      PROVE  /\ addr'[c] \in DOMAIN layout.headers
             /\ TrueMap(layout, found'[c])
  <2>1. addr[c] \in DOMAIN layout.headers /\ TrueMap(layout, found[c])
    BY <1>2 DEF WalkInv
  <2>2. h = layout.headers[addr[c]]
    BY <2>1 DEF Headers
  <2>3. /\ addr[c] \in 0..Top - 1
        /\ h.len \in Nat
        /\ addr[c] + 2 + h.len \in DOMAIN layout.headers
        /\ addr[c] + 2 + h.len \in 0..Top - 1
    BY <2>1, <2>2, LayoutAssumption DEF Shape
  <2>4. Top \in Nat
    BY ModelMapAssumptions
  <2>5. Plus(addr[c], 2) = addr[c] + 2
    BY <2>3, <2>4 DEF Plus
  <2>6. Plus(addr[c] + 2, h.len) = addr[c] + 2 + h.len
    BY <2>3, <2>4 DEF Plus
  <2>7. addr'[c] \in DOMAIN layout.headers
    BY <2>3, <2>5, <2>6 DEF Shape
  <2>8. addr[c] + 2 \in At(layout, h.id)
    BY <2>1, <2>2 DEF At
  <2>9. found'[c] = Insert(found[c], h.id, addr[c] + 2)
    BY <2>5 DEF Shape
  <2>10. TrueMap(layout, found'[c])
    BY <2>1, <2>8, <2>9 DEF TrueMap, Insert
  <2> QED
    BY <2>7, <2>10
<1>4. WalkInv'
  <2> SUFFICES ASSUME NEW d \in Callers
               PROVE  /\ pc'[d] \in {"idle", "base"} => found'[d] = <<>>
                      /\ pc'[d] = "walk" /\ began'[d] = boot' =>
                            addr'[d] \in DOMAIN layout'.headers /\ TrueMap(layout', found'[d])
    BY DEF WalkInv
  <2>1. CASE d = c
    BY <1>2, <2>1
  <2>2. CASE d # c
    BY <2>2 DEF Shape, WalkInv
  <2> QED
    BY <2>1, <2>2
<1>5. CacheInv'
  BY DEF CacheInv
<1>6. AimInv'
  BY DEF Shape, AimInv
<1> QED
  BY <1>1, <1>4, <1>5, <1>6

LEMMA WalkDoneInv ==
  ASSUME NEW c \in Callers, IInv, pc[c] = "walk", NEW h, WalkDone(c, h)
  PROVE  IInv'
<1> USE DEF IInv, WalkDone, Located, Step, deviceVars
<1>1. Shape' /\ NotAhead'
  BY DEF Shape, NotAhead
<1>2. WalkInv'
  BY DEF Shape, WalkInv
<1>3. began[c] = boot => TrueMap(layout, found[c])
  BY DEF WalkInv
<1>4. CacheInv'
  BY <1>3 DEF CacheInv
<1>5. began[c] = boot => addr'[c] \in At(layout, Wants[c])
  BY <1>3 DEF Shape, TrueMap
<1>6. AimInv'
  BY <1>5 DEF Shape, AimInv
<1> QED
  BY <1>1, <1>2, <1>4, <1>6

LEMMA WalkLacksInv ==
  ASSUME NEW c \in Callers, IInv, pc[c] = "walk", NEW h, WalkLacks(c, h)
  PROVE  IInv'
<1> USE DEF IInv, WalkLacks, Ends, Step, deviceVars
<1>1. Shape' /\ NotAhead'
  BY DEF Shape, NotAhead
<1>2. WalkInv'
  BY DEF Shape, WalkInv
<1>3. began[c] = boot => TrueMap(layout, found[c])
  BY DEF WalkInv
<1>4. CacheInv'
  BY <1>3 DEF CacheInv
<1>5. AimInv'
  BY DEF Shape, AimInv
<1> QED
  BY <1>1, <1>2, <1>4, <1>5

LEMMA DeviceInv == ASSUME IInv, Reboot \/ ComeUp PROVE IInv'
<1> USE DEF IInv, Reboot, ComeUp, callVars
<1>1. Shape' /\ NotAhead'
  BY DEF Shape, NotAhead
<1>2. ASSUME ComeUp PROVE \A c \in Callers : began'[c] # boot'
  BY <1>2 DEF Shape, NotAhead
<1>3. WalkInv'
  BY <1>2 DEF WalkInv
<1>4. CacheInv'
  BY DEF CacheInv
<1>5. AimInv'
  BY <1>2 DEF AimInv
<1> QED
  BY <1>1, <1>3, <1>4, <1>5

LEMMA StepInv == IInv /\ [Next]_vars => IInv'
<1> SUFFICES ASSUME IInv, [Next]_vars PROVE IInv'
  OBVIOUS
<1>1. ASSUME NEW c \in Callers, Request(c) PROVE IInv'
  BY <1>1, UseCachedInv, FailsInv, MovesInv DEF Request, CachedLacks
<1>2. ASSUME NEW c \in Callers, Answered(c) PROVE IInv'
  <2>1. ASSUME Walk(c) PROVE IInv'
    <3>1. PICK h \in Headers(addr[c]) :
            WalkOn(c, h) \/ WalkRunsPast(c, h) \/ WalkDone(c, h) \/ WalkLacks(c, h)
      BY <2>1 DEF Walk
    <3>2. pc[c] = "walk"
      BY <2>1 DEF Walk
    <3> QED
      BY <3>1, <3>2, WalkOnInv, FailsInv, WalkDoneInv, WalkLacksInv DEF WalkRunsPast
  <2>2. ASSUME PointRead(c) \/ WriteLands(c) PROVE IInv'
    BY <2>2, EndsInv DEF PointRead, WriteLands
  <2> QED
    BY <1>2, <2>1, <2>2, MarkerInv, MovesInv DEF Answered
<1>3. ASSUME NEW c \in Callers, RequestFails(c) PROVE IInv'
  BY <1>3, FailsInv DEF RequestFails
<1>4. CASE UNCHANGED vars
  BY <1>4 DEF vars, callVars, deviceVars, IInv, Shape, NotAhead, WalkInv, CacheInv, AimInv
<1> QED
  BY <1>1, <1>2, <1>3, <1>4, DeviceInv DEF Next

\* Whatever the callers, the firmware and the number of reboots, a write goes
\* to the register the device has its point in, unless the device rebooted
\* during the request, nothing that evicts (sunspec/client.rs forget) has
\* failed since it did, or a reboot tore the walk the map comes from.
THEOREM WritesGoOnTarget == Spec => []WritesOnTarget
<1>1. IInv => WritesOnTarget
  BY DEF IInv, AimInv, WritesOnTarget, Target, At
<1> QED
  BY InitInv, StepInv, <1>1, PTL DEF Spec

=============================================================================
