----------------------------- MODULE CmdBitsProofs -----------------------------
(***************************************************************************)
(* Proofs about CmdBits, for any number of devices, words of any bits and  *)
(* any number of failures, outages, locks and reconciles: what a device    *)
(* holds while its slot is free is what commands left set, and a PCS that  *)
(* tripped with its word forgotten only runs again on an enable.           *)
(***************************************************************************)
EXTENDS CmdBits, TLAPS

Commands == {[pcs |-> p, bit |-> v.bit, action |-> v.action] : p \in Pcs, v \in Verbs}

Types ==
    /\ seeded \in SUBSET Pcs
    /\ word \in [Pcs -> SUBSET Bits]
    /\ holder \in [Pcs -> {"free", "beat", "command"}]
    /\ beat \in [Pcs -> {"idle", "slot", "check", "seed", "write"}]
    /\ step \in {"idle", "slot", "write"}
    /\ step # "idle" => command \in Commands
    /\ reg \in [Pcs -> SUBSET Bits]
    /\ pcs \in [Pcs -> {"off", "on", "tripped"}]
    /\ asked \in [Pcs -> SUBSET Owned]
    /\ unsure \in [Pcs -> BOOLEAN]
    /\ asserted \in [Pcs -> BOOLEAN]

\* The mutex: beat and command are at p's word only while they hold its slot,
\* so never both.
SlotInv ==
    \A p \in Pcs :
        /\ holder[p] = "beat" <=> beat[p] \in {"check", "seed", "write"}
        /\ holder[p] = "command" <=> step = "write" /\ command.pcs = p
        /\ beat[p] = "write" \/ holder[p] = "command" => p \in seeded
        /\ beat[p] = "seed" => p \notin seeded

\* The word is forgotten as a whole, and otherwise what commands left set.
WordInv ==
    \A p \in Pcs :
        /\ word[p] \cap Owned = asked[p]
        /\ p \notin seeded => word[p] = {}

\* The device holds the word, but for a beat that has yet to write it.
RegInv ==
    \A p \in seeded :
        beat[p] # "write" /\ ~unsure[p] => reg[p] \in {word[p], word[p] \cup {Trigger}}

\* A PCS that tripped with its word forgotten is not being enabled.
TripInv == \A p \in Pcs : pcs[p] = "tripped" /\ ~asserted[p] => En \notin word[p]

IInv == Types /\ SlotInv /\ WordInv /\ RegInv /\ TripInv

-----------------------------------------------------------------------------
(* Every step keeps it *)

LEMMA InitHolds == Init => IInv
<1> SUFFICES ASSUME Init PROVE IInv
  OBVIOUS
<1>1. Types
  BY DEF Init, Types
<1>2. SlotInv /\ WordInv /\ RegInv /\ TripInv
  BY DEF Init, SlotInv, WordInv, RegInv, TripInv
<1> QED
  BY <1>1, <1>2 DEF IInv

\* The invariant is about these variables only.
LEMMA OthersKeep ==
  ASSUME IInv, UNCHANGED <<slotVars, beat, commandVars, reg, pcs, historyVars>>
  PROVE  IInv'
<1> USE DEF slotVars, wordVars, commandVars, historyVars
<1>1. Types' /\ SlotInv'
  BY DEF IInv, Types, SlotInv
<1>2. WordInv' /\ RegInv' /\ TripInv'
  BY DEF IInv, WordInv, RegInv, TripInv
<1> QED
  BY <1>1, <1>2 DEF IInv

\* The beat queues.
LEMMA DueKeeps == ASSUME IInv, NEW p \in Pcs, BeatDue(p) PROVE IInv'
<1> USE DEF BeatDue, slotVars, wordVars, commandVars, deviceVars, historyVars
<1>1. Types'
  BY DEF IInv, Types
<1>2. SlotInv'
  BY DEF IInv, Types, SlotInv
<1>3. WordInv'
  BY DEF IInv, Types, WordInv
<1>4. RegInv'
  BY DEF IInv, Types, RegInv
<1>5. TripInv'
  BY DEF IInv, Types, TripInv
<1> QED
  BY <1>1, <1>2, <1>3, <1>4, <1>5 DEF IInv

\* The beat takes a slot that was free: no command is at the word.
LEMMA TakesKeeps == ASSUME IInv, NEW p \in Pcs, BeatTakesSlot(p) PROVE IInv'
<1> USE DEF BeatTakesSlot, wordVars, commandVars, deviceVars, historyVars
<1>1. Types'
  BY DEF IInv, Types
<1>2. SlotInv'
  BY DEF IInv, Types, SlotInv
<1>3. WordInv'
  BY DEF IInv, Types, WordInv
<1>4. RegInv'
  BY DEF IInv, Types, RegInv
<1>5. TripInv'
  BY DEF IInv, Types, TripInv
<1> QED
  BY <1>1, <1>2, <1>3, <1>4, <1>5 DEF IInv

\* The whole word is forgotten, and what was asked with it.
LEMMA ForgetsKeeps ==
  ASSUME IInv, NEW p \in Pcs, BeatFindsNoLink(p) \/ BeatFindsLocked(p)
  PROVE  IInv'
<1> USE DEF BeatFindsNoLink, BeatFindsLocked, Forgets, BeatEnds, commandVars
<1>1. Types'
  BY DEF IInv, Types
<1>2. SlotInv'
  BY DEF IInv, Types, SlotInv
<1>3. WordInv'
  BY DEF IInv, Types, WordInv
<1>4. RegInv'
  BY DEF IInv, Types, RegInv
<1>5. TripInv'
  BY DEF IInv, Types, TripInv
<1> QED
  BY <1>1, <1>2, <1>3, <1>4, <1>5 DEF IInv

\* A word that is kept is written as it is, one that is not is read first.
LEMMA ChecksKeeps == ASSUME IInv, NEW p \in Pcs, BeatChecks(p) PROVE IInv'
<1> USE DEF BeatChecks, slotVars, wordVars, commandVars, deviceVars, historyVars
<1>1. Types'
  BY DEF IInv, Types
<1>2. SlotInv'
  BY DEF IInv, Types, SlotInv
<1>3. WordInv'
  BY DEF IInv, Types, WordInv
<1>4. RegInv'
  BY DEF IInv, Types, RegInv
<1>5. TripInv'
  BY DEF IInv, Types, TripInv
<1> QED
  BY <1>1, <1>2, <1>3, <1>4, <1>5 DEF IInv

\* A word starts with no owned bit: nothing was asked of it yet.
LEMMA SeedsKeeps == ASSUME IInv, NEW p \in Pcs, BeatSeeds(p) PROVE IInv'
<1> USE DEF BeatSeeds, commandVars, deviceVars, historyVars
<1>1. Types'
  BY CmdBitsAssumptions DEF IInv, Types
<1>2. SlotInv'
  BY DEF IInv, Types, SlotInv
<1>3. WordInv'
  BY CmdBitsAssumptions DEF IInv, Types, WordInv, SlotInv
<1>4. RegInv'
  BY DEF IInv, Types, RegInv
<1>5. TripInv'
  BY CmdBitsAssumptions DEF IInv, Types, TripInv
<1> QED
  BY <1>1, <1>2, <1>3, <1>4, <1>5 DEF IInv

\* A read that fails leaves the word unknown.
LEMMA SeedFailsKeeps == ASSUME IInv, NEW p \in Pcs, SeedFails(p) PROVE IInv'
<1> USE DEF SeedFails, BeatEnds, wordVars, commandVars, historyVars
<1>1. Types'
  BY DEF IInv, Types
<1>2. SlotInv'
  BY DEF IInv, Types, SlotInv
<1>3. WordInv'
  BY DEF IInv, Types, WordInv
<1>4. RegInv'
  BY DEF IInv, Types, RegInv, SlotInv
<1>5. TripInv'
  BY DEF IInv, Types, TripInv
<1> QED
  BY <1>1, <1>2, <1>3, <1>4, <1>5 DEF IInv

\* A beat rewrites the word: the device holds it, and only runs if it ran.
LEMMA WritesKeeps == ASSUME IInv, NEW p \in Pcs, BeatWrites(p) PROVE IInv'
<1> USE DEF BeatWrites, BeatEnds, Lands, wordVars, commandVars
<1>1. Types'
  BY DEF IInv, Types
<1>2. SlotInv'
  BY DEF IInv, Types, SlotInv
<1>3. WordInv'
  BY DEF IInv, Types, WordInv
<1>4. RegInv'
  BY DEF IInv, Types, RegInv
<1>5. TripInv'
  BY DEF IInv, Types, TripInv
<1> QED
  BY <1>1, <1>2, <1>3, <1>4, <1>5 DEF IInv

\* Reported failed, it may or may not have.
LEMMA FailsKeeps == ASSUME IInv, NEW p \in Pcs, BeatFails(p) PROVE IInv'
<1> USE DEF BeatFails, BeatEnds, Lands, wordVars, commandVars
<1>1. Types'
  BY DEF IInv, Types
<1>2. SlotInv'
  BY DEF IInv, Types, SlotInv
<1>3. WordInv'
  BY DEF IInv, Types, WordInv
<1>4. RegInv'
  BY DEF IInv, Types, RegInv
<1>5. TripInv'
  BY DEF IInv, Types, TripInv
<1> QED
  BY <1>1, <1>2, <1>3, <1>4, <1>5 DEF IInv

\* A PCS trips: if its word was forgotten, it is empty.
LEMMA TripKeeps == ASSUME IInv, NEW p \in Pcs, Trip(p) PROVE IInv'
<1> USE DEF Trip, slotVars, wordVars, commandVars
<1>1. Types'
  BY DEF IInv, Types
<1>2. SlotInv'
  BY DEF IInv, Types, SlotInv
<1>3. WordInv'
  BY DEF IInv, Types, WordInv
<1>4. RegInv'
  BY DEF IInv, Types, RegInv
<1>5. TripInv'
  BY DEF IInv, Types, TripInv, WordInv
<1> QED
  BY <1>1, <1>2, <1>3, <1>4, <1>5 DEF IInv

\* A command is admitted.
LEMMA BeginsKeeps == ASSUME IInv, NEW p \in Pcs, NEW v \in Verbs, CommandBegins(p, v) PROVE IInv'
<1> USE DEF CommandBegins, slotVars, wordVars, deviceVars, historyVars
<1>1. Types'
  BY DEF IInv, Types, Commands
<1>2. SlotInv'
  BY DEF IInv, Types, SlotInv
<1>3. WordInv'
  BY DEF IInv, Types, WordInv
<1>4. RegInv'
  BY DEF IInv, Types, RegInv
<1>5. TripInv'
  BY DEF IInv, Types, TripInv
<1> QED
  BY <1>1, <1>2, <1>3, <1>4, <1>5 DEF IInv


\* What every command names.
LEMMA CommandKnown ==
  ASSUME IInv, step # "idle"
  PROVE  /\ command.pcs \in Pcs
         /\ command.bit \in Owned
         /\ command = [pcs |-> command.pcs, bit |-> command.bit, action |-> command.action]
         /\ \/ command.bit = En /\ command.action \in {"set", "clear"}
            \/ command.bit = Trigger /\ command.action = "pulse"
<1>1. PICK p \in Pcs, v \in Verbs : command = [pcs |-> p, bit |-> v.bit, action |-> v.action]
  BY DEF IInv, Types, Commands
<1> QED
  BY <1>1, CmdBitsAssumptions DEF Verbs

LEMMA CommandTakesKeeps == ASSUME IInv, CommandTakesSlot \/ CommandRefused PROVE IInv'
<1> USE DEF CommandTakesSlot, CommandRefused, slotVars, wordVars, deviceVars, historyVars
<1>0. command.pcs \in Pcs
  BY CommandKnown
<1>1. Types'
  BY <1>0 DEF IInv, Types
<1>2. SlotInv'
  BY <1>0 DEF IInv, Types, SlotInv
<1>3. WordInv' /\ RegInv' /\ TripInv'
  BY DEF IInv, WordInv, RegInv, TripInv
<1> QED
  BY <1>1, <1>2, <1>3 DEF IInv

\* A command's write: what it goes on asserting is what it leaves set, and
\* only an enable leaves En set where it was not.
LEMMA CommandWritesKeeps == ASSUME IInv, CommandWrites PROVE IInv'
<1> DEFINE p == command.pcs
<1> USE DEF CommandWrites, CommandEnds, Lands
<1>0. /\ p \in Pcs
      /\ command.bit \in Owned
      /\ \/ command.bit = En /\ command.action \in {"set", "clear"}
         \/ command.bit = Trigger /\ command.action = "pulse"
  BY CommandKnown
<1>a. command.bit \in Bits
  BY <1>0, CmdBitsAssumptions
<1>1. Types'
  BY <1>0, <1>a DEF IInv, Types, Now, Keep
<1>2. SlotInv'
  BY <1>0 DEF IInv, Types, SlotInv
<1>3. WordInv'
  <2>1. p \in seeded
    BY <1>0 DEF IInv, SlotInv
  <2>2. word'[p] \cap Owned = asked'[p]
    BY <1>0 DEF IInv, Types, WordInv, Keep
  <2>3. \A q \in Pcs \ {p} : word'[q] = word[q] /\ asked'[q] = asked[q]
    BY <1>0 DEF IInv, Types
  <2> QED
    BY <2>1, <2>2, <2>3 DEF IInv, WordInv
<1>4. RegInv'
  BY <1>0 DEF IInv, Types, RegInv, Now, Keep
<1>5. TripInv'
  BY <1>0, CmdBitsAssumptions DEF IInv, Types, TripInv, Now, Keep
<1> QED
  BY <1>1, <1>2, <1>3, <1>4, <1>5 DEF IInv

LEMMA CommandFailsKeeps == ASSUME IInv, CommandFails PROVE IInv'
<1> DEFINE p == command.pcs
<1> USE DEF CommandFails, CommandEnds, Lands, wordVars
<1>0. p \in Pcs /\ command.bit \in Owned
  BY CommandKnown
<1>a. command.bit \in Bits
  BY <1>0, CmdBitsAssumptions
<1>1. Types'
  BY <1>0, <1>a DEF IInv, Types, Now
<1>2. SlotInv'
  BY <1>0 DEF IInv, Types, SlotInv
<1>3. WordInv'
  BY DEF IInv, WordInv
<1>4. RegInv'
  BY <1>0 DEF IInv, Types, RegInv
<1>5. TripInv'
  BY <1>0 DEF IInv, Types, TripInv
<1> QED
  BY <1>1, <1>2, <1>3, <1>4, <1>5 DEF IInv

LEMMA NextKeeps == IInv /\ [Next]_vars => IInv'
<1> SUFFICES ASSUME IInv, [Next]_vars PROVE IInv'
  OBVIOUS
<1>1. ASSUME NEW p \in Pcs, BeatDue(p) PROVE IInv'
  BY <1>1, DueKeeps
<1>2. ASSUME NEW p \in Pcs, BeatStep(p) PROVE IInv'
  BY <1>2, TakesKeeps, ForgetsKeeps, ChecksKeeps, SeedsKeeps, SeedFailsKeeps, WritesKeeps,
     FailsKeeps
  DEF BeatStep
<1>3. ASSUME NEW p \in Pcs, Trip(p) PROVE IInv'
  BY <1>3, TripKeeps
<1>4. ASSUME NEW p \in Pcs, NEW v \in Verbs, CommandBegins(p, v) PROVE IInv'
  BY <1>4, BeginsKeeps
<1>5. CASE CommandStep
  BY <1>5, CommandTakesKeeps, CommandWritesKeeps, CommandFailsKeeps DEF CommandStep
<1>6. CASE LinkDrops \/ LinkReturns
  BY <1>6, OthersKeep DEF LinkDrops, LinkReturns, deviceVars
<1>7. ASSUME NEW set \in SUBSET Pcs, LockWaits(set) PROVE IInv'
  BY <1>7, OthersKeep DEF LockWaits, deviceVars
<1>8. CASE LockApplies
  BY <1>8, OthersKeep DEF LockApplies, deviceVars
<1>9. CASE Cancel \/ Respawn
  BY <1>9, OthersKeep DEF Cancel, Respawn, deviceVars
<1>10. CASE UNCHANGED vars
  BY <1>10, OthersKeep DEF vars, deviceVars
<1> QED
  BY <1>1, <1>2, <1>3, <1>4, <1>5, <1>6, <1>7, <1>8, <1>9, <1>10 DEF Next

LEMMA WordsHold == Spec => []IInv
  BY InitHolds, NextKeeps, PTL DEF Spec

-----------------------------------------------------------------------------
(* What it shows *)

\* bits.rs: with the slot "held across its write", a free slot asserts what the
\* acked commands left set, and the device holds it, a trigger just pulsed
\* aside, unless the last write was reported failed.
THEOREM WordIsWhatWasAsked == Spec => []DeviceHoldsWhatWasAsked
<1>1. IInv => DeviceHoldsWhatWasAsked
  BY DEF IInv, Types, SlotInv, WordInv, RegInv, DeviceHoldsWhatWasAsked
<1> QED
  BY <1>1, WordsHold, PTL

\* A step that starts a tripped PCS wrote En, and none that wrote the word as
\* it stood, or pulsed a bit, did.
LEMMA OnlyEnablesResume ==
  ASSUME IInv, [Next]_vars, NEW p \in Pcs, Resumes(p), ~asserted[p]
  PROVE  EnableWritten(p)
<1>0. pcs[p] = "tripped" /\ pcs'[p] = "on" /\ En \notin word[p]
  BY DEF IInv, TripInv, Resumes
<1>1. ASSUME NEW q \in Pcs, NEW w, Lands(q, w) PROVE q = p /\ En \in w
  BY <1>0, <1>1 DEF Lands, IInv, Types
<1>2. ASSUME UNCHANGED pcs PROVE FALSE
  BY <1>0, <1>2
<1>3. ASSUME NEW q \in Pcs, BeatDue(q) PROVE FALSE
  BY <1>2, <1>3 DEF BeatDue, deviceVars
<1>4. ASSUME NEW q \in Pcs,
             \/ BeatTakesSlot(q) \/ BeatFindsNoLink(q) \/ BeatFindsLocked(q) \/ BeatChecks(q)
      PROVE  FALSE
  BY <1>2, <1>4 DEF BeatTakesSlot, BeatFindsNoLink, BeatFindsLocked, Forgets, BeatChecks, deviceVars
<1>5. ASSUME NEW q \in Pcs, BeatSeeds(q) \/ SeedFails(q) PROVE FALSE
  BY <1>2, <1>5 DEF BeatSeeds, SeedFails, deviceVars
<1>6. ASSUME NEW q \in Pcs, BeatWrites(q) \/ BeatFails(q) PROVE FALSE
  <2>1. Lands(q, word[q]) \/ UNCHANGED pcs
    BY <1>6 DEF BeatWrites, BeatFails
  <2> QED
    BY <1>0, <1>1, <1>2, <2>1
<1>7. ASSUME NEW q \in Pcs, Trip(q) PROVE FALSE
  BY <1>0, <1>7 DEF Trip, IInv, Types
<1>8. ASSUME NEW q \in Pcs, NEW v \in Verbs, CommandBegins(q, v) PROVE FALSE
  BY <1>2, <1>8 DEF CommandBegins, deviceVars
<1>9. CASE CommandTakesSlot \/ CommandRefused
  BY <1>2, <1>9 DEF CommandTakesSlot, CommandRefused, deviceVars
<1>10. CASE CommandWrites \/ CommandFails
  <2>1. /\ step = "write"
        /\ step' = "idle"
        /\ Lands(command.pcs, Now(word[command.pcs])) \/ UNCHANGED pcs
    BY <1>10 DEF CommandWrites, CommandFails, CommandEnds
  <2>2. /\ command.pcs \in Pcs
        /\ command = [pcs |-> command.pcs, bit |-> command.bit, action |-> command.action]
        /\ \/ command.bit = En /\ command.action \in {"set", "clear"}
           \/ command.bit = Trigger /\ command.action = "pulse"
    BY <2>1, CommandKnown
  <2>3. command.pcs = p /\ En \in Now(word[p])
    BY <1>1, <1>2, <2>1, <2>2
  <2>4. command.bit = En /\ command.action = "set"
    BY <1>0, <2>2, <2>3, CmdBitsAssumptions DEF Now
  <2> QED
    BY <2>1, <2>2, <2>3, <2>4 DEF EnableWritten
<1>11. CASE LinkDrops \/ LinkReturns
  BY <1>2, <1>11 DEF LinkDrops, LinkReturns, deviceVars
<1>12. ASSUME NEW set \in SUBSET Pcs, LockWaits(set) PROVE FALSE
  BY <1>2, <1>12 DEF LockWaits, deviceVars
<1>13. CASE LockApplies \/ Cancel \/ Respawn
  BY <1>2, <1>13 DEF LockApplies, Cancel, Respawn, deviceVars
<1>14. CASE UNCHANGED vars
  BY <1>2, <1>14 DEF vars, deviceVars
<1> QED
  BY <1>3, <1>4, <1>5, <1>6, <1>7, <1>8, <1>9, <1>10, <1>11, <1>12, <1>13, <1>14
  DEF Next, BeatStep, CommandStep

\* bits.rs: the word is forgotten "so a PCS that tripped never resumes on its
\* own": no beat, seed, other command, or restart of the tasks starts a PCS
\* that tripped with its word forgotten.
THEOREM NothingElseResumes == Spec => ResumesOnlyOnEnable
<1>1. IInv /\ [Next]_vars =>
        [\A p \in Pcs : Resumes(p) /\ ~asserted[p] => EnableWritten(p)]_vars
  BY OnlyEnablesResume
<1> QED
  BY <1>1, WordsHold, PTL DEF Spec, ResumesOnlyOnEnable

=============================================================================
