---------------------------- MODULE RequestRegister ----------------------------
(***************************************************************************)
(* What handle_command promises its callers: each command either takes     *)
(* effect on its device's requested setpoint in one step, or is refused    *)
(* and leaves every requested setpoint as it was (dispatch/mod.rs 66-67    *)
(* and 125-127, tests/dispatch_requested_test.rs 1-4).  It keeps the       *)
(* promise unless two commands are tried on one device at a time: then     *)
(* the request may end on any value in play, a refused one included.       *)
(***************************************************************************)
CONSTANTS Devices, Callers, Values, NoRequest, NoCommand

VARIABLES
    request,  \* request[d]: the setpoint that stands for device d
    phase,    \* phase[c]: where caller c's command stands
    command,  \* command[c]: that command
    inPlay    \* inPlay[d]: the values clashing commands may leave d on, or {}

vars == <<request, phase, command, inPlay>>

Init ==
    /\ request = [d \in Devices |-> NoRequest]
    /\ phase = [c \in Callers |-> "idle"]
    /\ command = [c \in Callers |-> NoCommand]
    /\ inPlay = [d \in Devices |-> {}]

Tried(d) == {c \in Callers : phase[c] = "tried" /\ command[c].dev = d}
To(c, label) == phase' = [phase EXCEPT ![c] = label]

Submit(c) ==
    /\ phase[c] = "idle"
    /\ To(c, "submitted")
    /\ \E new \in [dev: Devices, value: Values] : command' = [command EXCEPT ![c] = new]
    /\ UNCHANGED <<request, inPlay>>

\* The command is tried on its device, alone.
Try(c) ==
    /\ phase[c] = "submitted"
    /\ Tried(command[c].dev) = {}
    /\ To(c, "tried")
    /\ UNCHANGED <<request, command, inPlay>>

\* It is tried while others are: from here on the device is on some value in
\* play, which are the ones asked for and the one that stood before.
Clash(c) ==
    LET d == command[c].dev
        asked == {command[k].value : k \in Tried(d) \cup {c}}
    IN
    /\ phase[c] = "submitted"
    /\ Tried(d) # {}
    /\ To(c, "tried")
    /\ inPlay' = [inPlay EXCEPT
         ![d] = asked \cup (IF @ = {} THEN {request[d]} ELSE @)]
    /\ \E v \in inPlay'[d] : request' = [request EXCEPT ![d] = v]
    /\ UNCHANGED command

\* The verdict on a command: `now` is its device's request from then on, unless
\* it met a clash.
Decide(c, now) ==
    LET d == command[c].dev IN
    /\ IF inPlay[d] = {}
       THEN request' = [request EXCEPT ![d] = now]
       ELSE \E v \in inPlay[d] : request' = [request EXCEPT ![d] = v]
    /\ inPlay' = [inPlay EXCEPT ![d] = IF Tried(d) \subseteq {c} THEN {} ELSE @]
    /\ UNCHANGED command

Accept(c) ==
    /\ \/ phase[c] = "tried"
       \/ phase[c] = "submitted" /\ Tried(command[c].dev) = {}
    /\ To(c, "accepted")
    /\ Decide(c, command[c].value)

\* A command that was tried is refused.
GiveUp(c) ==
    /\ phase[c] = "tried"
    /\ To(c, "refused")
    /\ Decide(c, request[command[c].dev])

\* A command is refused untried.
Refuse(c) ==
    /\ phase[c] = "submitted"
    /\ To(c, "refused")
    /\ UNCHANGED <<request, command, inPlay>>

\* The verdict is published; or the command is dropped for want of an ack.
Return(c) ==
    /\ phase[c] \in {"submitted", "accepted", "refused"}
    /\ To(c, "idle")
    /\ command' = [command EXCEPT ![c] = NoCommand]
    /\ UNCHANGED <<request, inPlay>>

Next ==
    \E c \in Callers :
        \/ Submit(c)
        \/ Try(c) \/ Clash(c)
        \/ Accept(c) \/ GiveUp(c) \/ Refuse(c)
        \/ Return(c)

Spec == Init /\ [][Next]_vars

=============================================================================
