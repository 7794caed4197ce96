------------------------------- MODULE ModelMaps -------------------------------
(***************************************************************************)
(* The cache of discovered SunSpec model maps of one device                *)
(* (sunspec/client.rs MODELS), shared by its poller, its setpoint writes   *)
(* and its command word's heartbeat, and the walk that fills it            *)
(* (sunspec/discover.rs), against a device that may reboot into firmware   *)
(* with another layout at any time.                                        *)
(*                                                                         *)
(* A request to the device is one exchange: modbus/transport.rs retries it *)
(* while the device is away, so it is answered by whatever the device is   *)
(* when it is back, or fails with the retries exhausted.  Registers are    *)
(* numbered 0..Top and addresses wrap as u16 does in a release build.      *)
(* What a register holds matters only where it is read as a marker or      *)
(* a model header; anywhere else the device answers with anything.  Any    *)
(* request may be refused, time out for good or read "not implemented".    *)
(***************************************************************************)
EXTENDS Naturals, Sequences

CONSTANTS
    Callers,     \* who runs requests, one at a time each
    Kind,        \* Kind[c]: "point" (reads, setpoints) or "word" (the command word)
    Wants,       \* Wants[c]: the model its point is in
    Bases,       \* where the marker may be, in order
    Layouts,     \* firmware: where the marker is, and the header at each address
    Ids, Lens,   \* what a header may be taken to say
    Top,         \* the last register
    NoMap,       \* no entry in MODELS
    MaxReboots   \* bound

END == "end"

ASSUME ModelMapAssumptions ==
    /\ Kind \in [Callers -> {"point", "word"}]
    /\ Wants \in [Callers -> Ids]
    /\ END \notin Ids
    /\ Lens \subseteq 0..Top
    /\ Top \in Nat /\ MaxReboots \in Nat

\* Every firmware serves a well-formed chain: from its marker on, each header
\* leads to the next, up to an end.
ASSUME LayoutAssumption ==
    \A l \in Layouts :
        /\ l.base \in Nat
        /\ l.base + 2 \in DOMAIN l.headers
        /\ DOMAIN l.headers \subseteq 0..Top - 1
        /\ \A a \in DOMAIN l.headers :
              l.headers[a].id # END =>
                 l.headers[a].len \in Nat /\ a + 2 + l.headers[a].len \in DOMAIN l.headers

VARIABLES
    models,    \* MODELS[key]: NoMap, or the map, and whether a reboot tore its walk
    pc,        \* pc[c]: where c's request is
    base,      \* base[c]: the base its discovery tries, an index of Bases
    addr,      \* addr[c]: the register its walk, then its access, is at
    found,     \* found[c]: the models its walk has found
    layout,    \* the firmware the device runs
    up,        \* whether it answers
    boot,      \* how often it has rebooted
    noticed,   \* history: a request that evicts has failed since
    began,     \* history: began[c]: the boot at which c looked its map up
    blind,     \* history: blind[c]: c trusted a cached map nobody had cause to doubt
    wrapped    \* history: wrapped[c]: c's walk went round past the last register

callVars == <<pc, base, addr, found, began, blind, wrapped>>
deviceVars == <<layout, up, boot>>
vars == <<models, callVars, deviceVars, noticed>>

Init ==
    /\ models = NoMap
    /\ pc = [c \in Callers |-> "idle"]
    /\ base = [c \in Callers |-> 1]
    /\ addr = [c \in Callers |-> 0]
    /\ found = [c \in Callers |-> <<>>]
    /\ layout \in Layouts
    /\ up = TRUE
    /\ boot = 0
    /\ noticed = FALSE
    /\ began = [c \in Callers |-> 0]
    /\ blind = [c \in Callers |-> FALSE]
    /\ wrapped = [c \in Callers |-> FALSE]

Step(c, label) == pc' = [pc EXCEPT ![c] = label]

\* A request ends: its locals go.
Ends(c) ==
    /\ Step(c, "idle")
    /\ base' = [base EXCEPT ![c] = 1]
    /\ addr' = [addr EXCEPT ![c] = 0]
    /\ found' = [found EXCEPT ![c] = <<>>]
    /\ began' = [began EXCEPT ![c] = 0]
    /\ blind' = [blind EXCEPT ![c] = FALSE]
    /\ wrapped' = [wrapped EXCEPT ![c] = FALSE]

\* read_on and write_setpoint forget the map whatever failed, write_word only
\* when the write itself did, read_word never.
Evicts(c) == Kind[c] = "point" \/ pc[c] = "write"

\* Mutant of Forget: the failed request leaves the map cached.
Forget_Kept == models
Forget == NoMap

Fails(c) ==
    /\ models' = IF Evicts(c) THEN Forget ELSE models
    /\ noticed' = (noticed \/ Evicts(c))
    /\ Ends(c)
    /\ UNCHANGED deviceVars

\* address: c's point in map m.  A point is read, with its scale factor if it
\* has one, or written, after its scale factor is read; a command word is
\* read (read_word) or written (write_word).
Located(c, m) ==
    /\ addr' = [addr EXCEPT ![c] = m[Wants[c]]]
    /\ \/ Step(c, "read")
       \/ Step(c, "write")
       \/ Kind[c] = "point" /\ Step(c, "scale")

-----------------------------------------------------------------------------
(* models *)

\* The cached map names the model.
UseCached(c) ==
    /\ pc[c] = "idle"
    /\ models # NoMap
    /\ Wants[c] \in DOMAIN models.map
    /\ Located(c, models.map)
    /\ began' = [began EXCEPT ![c] = boot]
    /\ blind' = [blind EXCEPT ![c] = models.torn \/ ~noticed]
    /\ UNCHANGED <<models, base, found, deviceVars, noticed, wrapped>>

\* It does not: "device serves no SunSpec model".
CachedLacks(c) ==
    /\ pc[c] = "idle"
    /\ models # NoMap
    /\ Wants[c] \notin DOMAIN models.map
    /\ Fails(c)

Discover(c) ==
    /\ pc[c] = "idle"
    /\ models = NoMap
    /\ Step(c, "base")
    /\ began' = [began EXCEPT ![c] = boot]
    /\ UNCHANGED <<models, base, addr, found, deviceVars, noticed, blind, wrapped>>

-----------------------------------------------------------------------------
(* discover: the marker, then the chain of headers *)

Marker(c) ==
    /\ pc[c] = "base"
    /\ up
    /\ layout.base = Bases[base[c]]
    /\ Step(c, "walk")
    /\ addr' = [addr EXCEPT ![c] = layout.base + 2]
    /\ UNCHANGED <<models, base, found, deviceVars, noticed, began, blind, wrapped>>

\* Other words, or an exception: the next base.
NoMarker(c) ==
    /\ pc[c] = "base"
    /\ up
    /\ base[c] < Len(Bases)
    /\ base' = [base EXCEPT ![c] = @ + 1]
    /\ UNCHANGED <<models, pc, addr, found, deviceVars, noticed, began, blind, wrapped>>

\* What the two registers at a may read as: the header there, or anything.
Headers(a) ==
    IF a \in DOMAIN layout.headers THEN {layout.headers[a]}
    ELSE [id: Ids \cup {END}, len: Lens]

Plus(a, b) == (a + b) % (Top + 1)

\* Mutant of RunsPast: the walk goes round with the wrapped sum.
RunsPast_Never(start, len) == FALSE
\* start.checked_add(len): a model past the last register fails the walk.
RunsPast(start, len) == start + len > Top

Insert(m, id, start) ==
    [i \in DOMAIN m \cup {id} |-> IF i = id THEN start ELSE m[i]]

\* A model's header.  Its start, addr + 2, is a plain sum and does wrap.
WalkOn(c, h) ==
    LET start == Plus(addr[c], 2) IN
    /\ h.id # END
    /\ ~RunsPast(start, h.len)
    /\ found' = [found EXCEPT ![c] = Insert(@, h.id, start)]
    /\ addr' = [addr EXCEPT ![c] = Plus(start, h.len)]
    /\ wrapped' = [wrapped EXCEPT ![c] = @ \/ addr[c] + 2 > Top]
    /\ UNCHANGED <<models, pc, base, deviceVars, noticed, began, blind>>

WalkRunsPast(c, h) ==
    /\ h.id # END
    /\ RunsPast(Plus(addr[c], 2), h.len)
    /\ Fails(c)

\* The end: models caches the map and the request goes on with it.
WalkDone(c, h) ==
    /\ h.id = END
    /\ Wants[c] \in DOMAIN found[c]
    /\ models' = [map |-> found[c], torn |-> began[c] # boot]
    /\ Located(c, found[c])
    /\ found' = [found EXCEPT ![c] = <<>>]
    /\ wrapped' = [wrapped EXCEPT ![c] = FALSE]
    /\ UNCHANGED <<base, deviceVars, noticed, began, blind>>

\* The end, without the model asked for: cached all the same, and evicted by
\* those whose failures evict.
WalkLacks(c, h) ==
    /\ h.id = END
    /\ Wants[c] \notin DOMAIN found[c]
    /\ models' = IF Evicts(c) THEN NoMap
                 ELSE [map |-> found[c], torn |-> began[c] # boot]
    /\ noticed' = (noticed \/ Evicts(c))
    /\ Ends(c)
    /\ UNCHANGED deviceVars

\* A header is two registers: at the last one the range is invalid.
Walk(c) ==
    /\ pc[c] = "walk"
    /\ up
    /\ addr[c] < Top
    /\ \E h \in Headers(addr[c]) :
          WalkOn(c, h) \/ WalkRunsPast(c, h) \/ WalkDone(c, h) \/ WalkLacks(c, h)

-----------------------------------------------------------------------------
(* the accesses *)

PointRead(c) ==
    /\ pc[c] = "read"
    /\ up
    /\ Ends(c)
    /\ UNCHANGED <<models, deviceVars, noticed>>

ScaleRead(c) ==
    /\ pc[c] = "scale"
    /\ up
    /\ Step(c, "write")
    /\ UNCHANGED <<models, base, addr, found, began, blind, wrapped, deviceVars, noticed>>

WriteLands(c) ==
    /\ pc[c] = "write"
    /\ up
    /\ Ends(c)
    /\ UNCHANGED <<models, deviceVars, noticed>>

\* A refusal, "not implemented", or the retries used up; in discovery, the
\* last base without a marker too.
RequestFails(c) == pc[c] # "idle" /\ Fails(c)

-----------------------------------------------------------------------------
(* the device *)

Reboot ==
    /\ up
    /\ boot < MaxReboots
    /\ up' = FALSE
    /\ UNCHANGED <<models, callVars, layout, boot, noticed>>

\* It comes back, with the same layout or another.
ComeUp ==
    /\ ~up
    /\ up' = TRUE
    /\ boot' = boot + 1
    /\ noticed' = FALSE
    /\ layout' \in Layouts
    /\ UNCHANGED <<models, callVars>>

-----------------------------------------------------------------------------

Request(c) == UseCached(c) \/ CachedLacks(c) \/ Discover(c)

Answered(c) ==
    \/ Marker(c) \/ NoMarker(c) \/ Walk(c)
    \/ PointRead(c) \/ ScaleRead(c) \/ WriteLands(c)

Next ==
    \/ \E c \in Callers : Request(c) \/ Answered(c) \/ RequestFails(c)
    \/ Reboot \/ ComeUp

\* A request's attempts are bounded (MAX_ATTEMPTS, each with a timeout), so it
\* is answered or fails.
Spec == Init /\ [][Next]_vars /\ \A c \in Callers : WF_vars(Answered(c) \/ RequestFails(c))

-----------------------------------------------------------------------------

\* Where the device really has c's point, if anywhere.
Target(c) ==
    {a + 2 : a \in {x \in DOMAIN layout.headers : layout.headers[x].id = Wants[c]}}

\* A setpoint or command word only ever goes to the register the device has
\* its point in, with three exceptions the eviction cannot close: the device
\* rebooted while the request was under way, no request that evicts has failed
\* since it did, or a reboot tore the walk the map comes from.  Once one
\* failure has been noticed, the cache (sunspec/client.rs models and forget)
\* misdirects nobody, whichever of the callers failed and whichever of them
\* was discovering then.
WritesOnTarget ==
    \A c \in Callers :
        pc[c] = "write" => \/ addr[c] \in Target(c)
                           \/ began[c] # boot
                           \/ blind[c]

\* Every request ends, whatever the device answers, unless a header in the
\* last two registers took its walk round (discover.rs walk: checked_add
\* guards the length, not the header).
RequestsEnd ==
    \A c \in Callers : pc[c] # "idle" ~> (pc[c] = "idle" \/ wrapped[c])

=============================================================================
