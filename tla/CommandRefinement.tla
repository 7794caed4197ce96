--------------------------- MODULE CommandRefinement ---------------------------
(***************************************************************************)
(* handle_command, with its record-before-write and its restore,           *)
(* implements RequestRegister: commands are atomic on every device where   *)
(* they do not overlap and on every envelope-guarded module, and where     *)
(* they do, the device is left on one of the values in play.               *)
(***************************************************************************)
EXTENDS CommandDispatch

\* Until a command on its own is decided, its device's request is the one it
\* replaced; clashing commands leave whatever the record holds.
Standing(d) ==
    IF Undecided(d) = {} \/ clash[d] # {} THEN requested[d]
    ELSE prev[CHOOSE c \in Undecided(d) : TRUE]

StandingRequest == [d \in Devices |-> Standing(d)]

\* A guarded module's command is accepted as soon as it is recorded.
PhaseOf(c) ==
    CASE pc[c] = "idle" -> "idle"
      [] pc[c] = "done" -> "accepted"
      [] pc[c] = "refused" -> "refused"
      [] InFlight(c) /\ cmd[c].dev \in Guarded -> "accepted"
      [] InFlight(c) /\ cmd[c].dev \notin Guarded -> "tried"
      [] OTHER -> "submitted"

Phase == [c \in Callers |-> PhaseOf(c)]

Register == INSTANCE RequestRegister WITH
    request <- StandingRequest, phase <- Phase, command <- cmd, inPlay <- clash,
    NoCommand <- Unsent

\* A refused command does not move a request, through failed writes, lock
\* changes and the other callers' commands, and an accepted one does, unless
\* another command was tried on the same device meanwhile; then the device is
\* left on a value some of them asked for or found, and the next command to
\* succeed alone puts things right.  Record + restore around the write
\* implement RequestRegister.
AtomicRequests == Register!Spec

-----------------------------------------------------------------------------
(* Inductive invariants *)

\* What the guard of the locked set buys a command, from its check to its writes.
GuardInv ==
    \A c \in Callers :
        pc[c] = "exec" => pending[c] \cap locked = {}

\* A command on a guarded module has nothing to write and cannot fail.
GuardedInv ==
    \A c \in Callers :
        /\ pc[c] \in {"idle", "received"} => ~failed[c]
        /\ cmd[c].dev \in Guarded /\ pc[c] = "exec" => pending[c] = {} /\ ~failed[c]
        /\ cmd[c].dev \in Guarded => pc[c] # "undo"

\* An undecided command without a clash is alone on its device and its value
\* is what the record holds: restore finds it there.
AloneOn(d) ==
    clash[d] = {} => \A c \in Undecided(d) :
        requested[d] = cmd[c].value /\ \A k \in Undecided(d) : k = c

\* A clash lasts while commands are undecided, and keeps the record, and all
\* they may put back into it, among the values in play.
InPlayOn(d) ==
    clash[d] # {} =>
        /\ Undecided(d) # {}
        /\ requested[d] \in clash[d]
        /\ \A k \in Undecided(d) : prev[k] \in clash[d] /\ cmd[k].value \in clash[d]

ClashInv == \A d \in Devices : AloneOn(d) /\ InPlayOn(d)

=============================================================================
