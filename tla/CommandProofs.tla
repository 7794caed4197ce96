---------------------------- MODULE CommandProofs ----------------------------
(***************************************************************************)
(* Proofs about CommandDispatch, for every set of devices, callers and     *)
(* values and every number of faults.                                      *)
(***************************************************************************)
EXTENDS CommandRefinement, TLAPS

\* The devices a setpoint is written to are devices, none locked out.
LEMMA WriteSetFree ==
    ASSUME TypeOK, NEW d \in Devices, d \notin locked
    PROVE  /\ WriteSet(d) \in SUBSET Devices
           /\ WriteSet(d) \cap locked = {}
           /\ d \in Guarded => WriteSet(d) = {}
BY CommandAssumptions DEF WriteSet

\* An idle caller's command is one like any other.
LEMMA UnsentType == Unsent \in [dev: Devices, value: Values]
<1>1. (CHOOSE d \in Devices : TRUE) \in Devices
  BY CommandAssumptions
<1> QED BY <1>1, CommandAssumptions DEF Unsent

\* The gateway boots with no request, no lock and every caller and loop idle.
LEMMA InitType == Init => TypeOK
<1> SUFFICES ASSUME Init PROVE TypeOK
  OBVIOUS
<1>2. cmd \in [Callers -> [dev: Devices, value: Values]]
  BY UnsentType DEF Init
<1>3. faults \in 0..MaxFaults
  BY CommandAssumptions DEF Init
<1>4. failed \in [Callers -> BOOLEAN] /\ waiting \in BOOLEAN /\ ceased \in BOOLEAN
  BY DEF Init
<1> QED
  BY <1>2, <1>3, <1>4, CommandAssumptions DEF Init, TypeOK, Requests, CallerStates

\* One step of a caller, a loop or the refresher keeps every part in its type.
LEMMA NextType == TypeOK /\ [Next]_vars => TypeOK'
<1> SUFFICES ASSUME TypeOK, [Next]_vars PROVE TypeOK'
  OBVIOUS
<1> USE CommandAssumptions, UnsentType DEF lockVars, callerVars, loopVars, Goto
<1>1. ASSUME NEW c \in Callers, NEW command \in Sends[c], Begin(c, command)
      PROVE  TypeOK'
  BY <1>1 DEF Begin, TypeOK, CallerStates
<1>2. ASSUME NEW c \in Callers, PublishReceivedFails(c) \/ RejectLocked(c)
                                  \/ RejectUnknown(c)
      PROVE  TypeOK'
  <2>1. CASE PublishReceivedFails(c)
    BY <2>1 DEF PublishReceivedFails, TypeOK, CallerStates
  <2>2. CASE RejectLocked(c) \/ RejectUnknown(c)
    <3>1. Refuse(c)
      BY <2>2 DEF RejectLocked, RejectUnknown
    <3> QED BY <3>1 DEF Refuse, TypeOK, CallerStates
  <2> QED BY <1>2, <2>1, <2>2
<1>3. ASSUME NEW c \in Callers, Record(c)
      PROVE  TypeOK'
  <2>1. WriteSet(cmd[c].dev) \in SUBSET Devices
    BY DEF WriteSet, TypeOK
  <2>2. Clashing(c) \in SUBSET Requests
    BY DEF Clashing, Undecided, TypeOK, Requests
  <2> QED BY <1>3, <2>1, <2>2 DEF Record, TypeOK, CallerStates, Requests
<1>4. ASSUME NEW c \in Callers, NEW d \in Devices, Write(c, d) \/ WriteFails(c, d)
      PROVE  TypeOK'
  <2>1. CASE Write(c, d)
    BY <2>1 DEF Write, TypeOK
  <2>2. CASE WriteFails(c, d)
    <3>1. pending' \in [Callers -> SUBSET Devices]
      BY <2>2 DEF WriteFails, TypeOK
    <3>2. failed' \in [Callers -> BOOLEAN]
      BY <2>2 DEF WriteFails, TypeOK
    <3>3. faults' \in 0..MaxFaults
      BY <2>2 DEF WriteFails, TypeOK
    <3>4. pc' \in [Callers -> CallerStates]
      BY <2>2 DEF WriteFails, TypeOK, CallerStates
    <3> QED BY <2>2, <3>1, <3>2, <3>3, <3>4 DEF WriteFails, TypeOK
  <2> QED BY <1>4, <2>1, <2>2
<1>5. ASSUME NEW c \in Callers, ExecRefuses(c)
      PROVE  TypeOK'
  BY <1>5 DEF ExecRefuses, TypeOK, CallerStates
<1>6. ASSUME NEW c \in Callers, Finish(c)
      PROVE  TypeOK'
  BY <1>6 DEF Finish, Decided, TypeOK, CallerStates
<1>7. ASSUME NEW c \in Callers, Restore(c)
      PROVE  TypeOK'
  BY <1>7 DEF Restore, Restored, Decided, TypeOK, CallerStates, Requests
<1>8. ASSUME NEW c \in Callers, Return(c)
      PROVE  TypeOK'
  BY <1>8 DEF Return, TypeOK, CallerStates, Requests
<1>9. ASSUME NEW m \in Distribute, LoopRead(m)
      PROVE  TypeOK'
  BY <1>9 DEF LoopRead, Target, TypeOK
<1>10. ASSUME NEW m \in Distribute, NEW d \in Devices,
              LoopShares(m) \/ LoopWrite(m, d) \/ LoopFails(m) \/ LoopEnds(m)
       PROVE  TypeOK'
  <2>1. CASE LoopShares(m)
    BY <2>1 DEF LoopShares, TypeOK
  <2>2. CASE LoopWrite(m, d)
    BY <2>2 DEF LoopWrite, TypeOK
  <2>3. CASE LoopFails(m)
    BY <2>3 DEF LoopFails, TypeOK
  <2>4. CASE LoopEnds(m)
    BY <2>4 DEF LoopEnds, TypeOK
  <2> QED BY <1>10, <2>1, <2>2, <2>3, <2>4
<1>11. ASSUME NEW set \in LockSets, LockWait(set)
       PROVE  TypeOK'
  BY <1>11 DEF LockWait, TypeOK
<1>12. CASE LockApply
  BY <1>12 DEF LockApply, TypeOK
<1>14. CASE Energize
  BY <1>14 DEF Energize, TypeOK
<1>13. CASE UNCHANGED vars
  BY <1>13 DEF vars, TypeOK
<1> QED
  BY <1>1, <1>2, <1>3, <1>4, <1>5, <1>6, <1>7, <1>8, <1>9, <1>10, <1>11, <1>12, <1>13, <1>14
     DEF Next, CallerStep, LoopStep

\* Every write path keeps the shared state well formed: handle_command's
\* callers, the rebalance loops and the lockout refresher.
THEOREM TypeCorrect == Spec => []TypeOK
BY InitType, NextType, PTL DEF Spec

-----------------------------------------------------------------------------
\* The locked set stands still while any caller is inside handle_command.
LEMMA GuardStep == TypeOK /\ GuardInv /\ [Next]_vars => GuardInv'
<1> SUFFICES ASSUME TypeOK, GuardInv, [Next]_vars PROVE GuardInv'
  OBVIOUS
<1> USE CommandAssumptions DEF lockVars, callerVars, loopVars, Goto
<1>1. ASSUME NEW c \in Callers, NEW command \in Sends[c], Begin(c, command)
      PROVE  GuardInv'
  BY <1>1 DEF Begin, TypeOK, GuardInv
<1>2. ASSUME NEW c \in Callers, PublishReceivedFails(c) \/ RejectLocked(c)
                                  \/ RejectUnknown(c)
      PROVE  GuardInv'
  BY <1>2 DEF PublishReceivedFails, RejectLocked, RejectUnknown, Refuse,
              TypeOK, GuardInv
<1>3. ASSUME NEW c \in Callers, Record(c)
      PROVE  GuardInv'
  <2>1. cmd[c].dev \in Devices /\ cmd[c].dev \notin locked
    BY <1>3 DEF Record, TypeOK
  <2>2. WriteSet(cmd[c].dev) \cap locked = {}
    BY <2>1, WriteSetFree
  <2> QED BY <1>3, <2>1, <2>2 DEF Record, TypeOK, GuardInv
<1>4. ASSUME NEW c \in Callers, NEW d \in Devices, Write(c, d) \/ WriteFails(c, d)
      PROVE  GuardInv'
  <2>1. locked' = locked /\ \A k \in Callers : pc'[k] = "exec" => pc[k] = "exec"
    BY <1>4 DEF Write, WriteFails, TypeOK
  <2>2. \A k \in Callers : pending'[k] \subseteq pending[k]
    BY <1>4 DEF Write, WriteFails, TypeOK
  <2> QED BY <2>1, <2>2 DEF GuardInv
<1>5. ASSUME NEW c \in Callers, ExecRefuses(c)
      PROVE  GuardInv'
  BY <1>5 DEF ExecRefuses, TypeOK, GuardInv
<1>6. ASSUME NEW c \in Callers, Finish(c) \/ Restore(c) \/ Return(c)
      PROVE  GuardInv'
  <2>1. /\ locked' = locked /\ pending' = pending
        /\ \A k \in Callers : pc'[k] = "exec" => pc[k] = "exec"
    BY <1>6 DEF Finish, Restore, Return, TypeOK
  <2> QED BY <2>1 DEF GuardInv
<1>7. ASSUME NEW m \in Distribute, LoopStep(m)
      PROVE  GuardInv'
  BY <1>7 DEF LoopStep, LoopRead, LoopShares, LoopWrite, LoopFails, LoopEnds, GuardInv
<1>8. ASSUME NEW set \in LockSets, LockWait(set)
      PROVE  GuardInv'
  BY <1>8 DEF LockWait, GuardInv
<1>9. CASE LockApply
  BY <1>9 DEF LockApply, HoldsGuard, GuardInv
<1>11. CASE Energize
  BY <1>11 DEF Energize, GuardInv
<1>10. CASE UNCHANGED vars
  BY <1>10 DEF vars, GuardInv
<1> QED
  BY <1>1, <1>2, <1>3, <1>4, <1>5, <1>6, <1>7, <1>8, <1>9, <1>10, <1>11
     DEF Next, CallerStep

\* Commands never write to a device that is locked out, whatever else runs:
\* the forwarder and dispatch_one hold the locked set's guard throughout.
THEOREM CommandsNeverWriteLocked == Spec => []CommandsSkipLocked
<1>1. Init => GuardInv
  BY DEF Init, GuardInv
<1>2. GuardInv => CommandsSkipLocked
  BY DEF GuardInv, CommandsSkipLocked
<1> QED BY <1>1, <1>2, TypeCorrect, GuardStep, PTL DEF Spec

-----------------------------------------------------------------------------
\* dispatch_distribute returns Ok at once on a guarded module, so its
\* commands never reach requested::restore.
LEMMA GuardedStep == TypeOK /\ GuardedInv /\ [Next]_vars => GuardedInv'
<1> SUFFICES ASSUME TypeOK, GuardedInv, [Next]_vars PROVE GuardedInv'
  OBVIOUS
<1> USE CommandAssumptions DEF lockVars, callerVars, loopVars, Goto
<1>1. ASSUME NEW c \in Callers, NEW command \in Sends[c], Begin(c, command)
      PROVE  GuardedInv'
  BY <1>1 DEF Begin, TypeOK, GuardedInv
<1>2. ASSUME NEW c \in Callers, PublishReceivedFails(c) \/ RejectLocked(c)
                                  \/ RejectUnknown(c)
      PROVE  GuardedInv'
  <2>1. CASE PublishReceivedFails(c)
    BY <2>1 DEF PublishReceivedFails, TypeOK, GuardedInv
  <2>2. CASE RejectLocked(c) \/ RejectUnknown(c)
    BY <2>2 DEF RejectLocked, RejectUnknown, Refuse, TypeOK, GuardedInv
  <2> QED BY <1>2, <2>1, <2>2
<1>3. ASSUME NEW c \in Callers, Record(c)
      PROVE  GuardedInv'
  <2>1. cmd[c].dev \in Guarded => WriteSet(cmd[c].dev) = {}
    BY DEF WriteSet
  <2> QED BY <1>3, <2>1 DEF Record, TypeOK, GuardedInv
<1>4. ASSUME NEW c \in Callers, NEW d \in Devices, Write(c, d) \/ WriteFails(c, d)
      PROVE  GuardedInv'
  <2>1. /\ pc[c] = "exec" /\ cmd[c].dev \notin Guarded /\ cmd' = cmd
        /\ pc'[c] \in {"exec", "undo"}
    BY <1>4 DEF Write, WriteFails, GuardedInv, TypeOK
  <2>2. \A k \in Callers : k # c =>
            pc'[k] = pc[k] /\ pending'[k] = pending[k] /\ failed'[k] = failed[k]
    BY <1>4 DEF Write, WriteFails, TypeOK
  <2> QED BY <2>1, <2>2 DEF GuardedInv
<1>5. ASSUME NEW c \in Callers, ExecRefuses(c)
      PROVE  GuardedInv'
  BY <1>5 DEF ExecRefuses, TypeOK, GuardedInv
<1>6. ASSUME NEW c \in Callers, Finish(c) \/ Restore(c) \/ Return(c)
      PROVE  GuardedInv'
  BY <1>6 DEF Finish, Restore, Return, TypeOK, GuardedInv
<1>7. ASSUME NEW m \in Distribute, LoopStep(m)
      PROVE  GuardedInv'
  BY <1>7 DEF LoopStep, LoopRead, LoopShares, LoopWrite, LoopFails, LoopEnds, GuardedInv
<1>8. ASSUME NEW set \in LockSets, LockWait(set)
      PROVE  GuardedInv'
  BY <1>8 DEF LockWait, GuardedInv
<1>9. CASE LockApply
  BY <1>9 DEF LockApply, GuardedInv
<1>11. CASE Energize
  BY <1>11 DEF Energize, GuardedInv
<1>10. CASE UNCHANGED vars
  BY <1>10 DEF vars, GuardedInv
<1> QED
  BY <1>1, <1>2, <1>3, <1>4, <1>5, <1>6, <1>7, <1>8, <1>9, <1>10, <1>11
     DEF Next, CallerStep

-----------------------------------------------------------------------------
(* Clashes *)

IInv == TypeOK /\ GuardInv /\ GuardedInv /\ ClashInv

\* What a step leaves alone of device d.
Same(d) ==
    /\ requested'[d] = requested[d] /\ clash'[d] = clash[d]
    /\ Undecided(d)' = Undecided(d)
    /\ \A k \in Undecided(d) : prev'[k] = prev[k] /\ cmd'[k] = cmd[k]

\* Then its clash and the request that stands stay as they were.
LEMMA SameKeeps ==
    ASSUME NEW d \in Devices, Same(d)
    PROVE  /\ AloneOn(d) /\ InPlayOn(d) => AloneOn(d)' /\ InPlayOn(d)'
           /\ Standing(d)' = Standing(d)
<1>1. AloneOn(d) /\ InPlayOn(d) => AloneOn(d)' /\ InPlayOn(d)'
  BY DEF Same, AloneOn, InPlayOn
<1>2. CASE Undecided(d) = {} \/ clash[d] # {}
  <2>1. Standing(d)' = Standing(d)
    BY <1>2 DEF Same, Standing
  <2> QED BY <1>1, <2>1
<1>3. CASE Undecided(d) # {} /\ clash[d] = {}
  <2> DEFINE k == CHOOSE x \in Undecided(d) : TRUE
  <2>1. k \in Undecided(d)
    BY <1>3
  <2>2. prev'[k] = prev[k]
    BY <2>1 DEF Same
  <2>3. Standing(d) = prev[k]
    BY <1>3 DEF Standing
  <2>4. Standing(d)' = prev'[k]
    BY <1>3 DEF Standing, Same
  <2> QED BY <1>1, <2>2, <2>3, <2>4
<1> QED BY <1>1, <1>2, <1>3

\* Steps outside record, the end of a write and restore touch no device.
LEMMA QuietSame ==
    ASSUME TypeOK, [Next]_vars,
           \A k \in Callers : ~Record(k) /\ ~Finish(k) /\ ~Restore(k),
           NEW d \in Devices
    PROVE  Same(d)
<1> USE DEF lockVars, callerVars, loopVars, Goto, InFlight, Same
<1>1. ASSUME NEW c \in Callers, NEW command \in Sends[c], Begin(c, command)
      PROVE  Same(d)
  BY <1>1 DEF Begin, TypeOK, Undecided
<1>2. ASSUME NEW c \in Callers, PublishReceivedFails(c) \/ RejectLocked(c)
                                  \/ RejectUnknown(c) \/ Return(c)
      PROVE  Same(d)
  BY <1>2 DEF PublishReceivedFails, RejectLocked, RejectUnknown, Refuse, Return,
              TypeOK, Undecided
<1>3. ASSUME NEW c \in Callers, NEW e \in Devices,
             Write(c, e) \/ WriteFails(c, e) \/ ExecRefuses(c)
      PROVE  Same(d)
  <2>1. UNCHANGED <<requested, clash, prev, cmd>> /\ \A k \in Callers : InFlight(k)' <=> InFlight(k)
    BY <1>3 DEF Write, WriteFails, ExecRefuses, TypeOK
  <2> QED BY <2>1 DEF Undecided
<1>4. ASSUME UNCHANGED <<requested, clash, pc, prev, cmd>>
      PROVE  Same(d)
  BY <1>4 DEF Undecided
<1>5. ASSUME NEW m \in Distribute, LoopStep(m)
      PROVE  Same(d)
  BY <1>4, <1>5 DEF LoopStep, LoopRead, LoopShares, LoopWrite, LoopFails, LoopEnds
<1>6. ASSUME Energize \/ LockApply \/ \E set \in LockSets : LockWait(set)
      PROVE  Same(d)
  BY <1>4, <1>6 DEF Energize, LockApply, LockWait
<1>7. CASE UNCHANGED vars
  BY <1>4, <1>7 DEF vars
<1>8. Devices # {}
  BY CommandAssumptions
<1> QED
  BY <1>1, <1>2, <1>3, <1>5, <1>6, <1>7, <1>8 DEF Next, CallerStep

\* Those three touch the command's own device only.
LEMMA OthersSame ==
    ASSUME TypeOK, NEW c \in Callers, Record(c) \/ Finish(c) \/ Restore(c),
           NEW d \in Devices, d # cmd[c].dev
    PROVE  Same(d)
BY DEF Record, Finish, Restore, Restored, Decided, TypeOK, Goto, InFlight, Same, Undecided,
       lockVars, callerVars, loopVars

-----------------------------------------------------------------------------
\* Before requested::record the command is not undecided; after it, it is
\* unless its module is guarded.
LEMMA RecordUndecided ==
    ASSUME TypeOK, NEW c \in Callers, Record(c)
    PROVE  LET d == cmd[c].dev IN
           /\ c \notin Undecided(d)
           /\ d \in Guarded => Undecided(d) = {} /\ Undecided(d)' = {}
           /\ d \notin Guarded => Undecided(d)' = Undecided(d) \cup {c}
           /\ \A k \in Undecided(d) : prev'[k] = prev[k]
           /\ cmd' = cmd /\ prev'[c] = requested[d] /\ requested'[d] = cmd[c].value
           /\ clash'[d] = Clashing(c)
BY DEF Record, TypeOK, Goto, InFlight, Undecided

\* A decided command is not undecided any more.
LEMMA DecidedUndecided ==
    ASSUME TypeOK, GuardedInv, NEW c \in Callers, Restore(c) \/ (Finish(c) /\ ~failed[c])
    PROVE  LET d == cmd[c].dev IN
           /\ Undecided(d)' = Undecided(d) \ {c}
           /\ d \notin Guarded => c \in Undecided(d)
           /\ d \in Guarded => Undecided(d) = {}
           /\ cmd' = cmd /\ prev' = prev
           /\ clash' = Decided(c)
           /\ clash'[d] = IF Undecided(d) \subseteq {c} THEN {} ELSE clash[d]
           /\ Restore(c) => d \notin Guarded
BY DEF Finish, Restore, Decided, TypeOK, Goto, InFlight, Undecided, GuardedInv

\* Until it is decided, a command is alone on its device or all it may put
\* back is in play.
LEMMA ClashStep == IInv /\ [Next]_vars => ClashInv'
<1> SUFFICES ASSUME IInv, [Next]_vars, NEW d \in Devices PROVE AloneOn(d)' /\ InPlayOn(d)'
  BY DEF ClashInv
<1>1. TypeOK /\ GuardedInv /\ AloneOn(d) /\ InPlayOn(d)
  BY DEF IInv, ClashInv
<1>2. CASE Same(d)
  BY <1>1, <1>2, SameKeeps
<1>3. ASSUME NEW c \in Callers, Record(c), d = cmd[c].dev
      PROVE  AloneOn(d)' /\ InPlayOn(d)'
  <2>1. CASE Undecided(d) = {} \/ d \in Guarded
    <3>1. clash'[d] = {}
      BY <1>1, <1>3, <2>1, RecordUndecided DEF Clashing
    <3>2. Undecided(d)' \subseteq {c}
      BY <1>1, <1>3, <2>1, RecordUndecided
    <3> QED BY <1>1, <1>3, <3>1, <3>2, RecordUndecided DEF AloneOn, InPlayOn
  <2>2. CASE Undecided(d) # {} /\ d \notin Guarded
    <3>1. clash'[d] = clash[d] \cup {cmd[c].value}
                        \cup UNION {{cmd[k].value, prev[k]} : k \in Undecided(d)}
      BY <1>1, <1>3, <2>2, RecordUndecided DEF Clashing
    <3>2. requested[d] \in clash'[d]
      BY <1>1, <2>2, <3>1 DEF AloneOn, InPlayOn
    <3>3. \A k \in Undecided(d) : prev[k] \in clash'[d] /\ cmd[k].value \in clash'[d]
      BY <3>1
    <3> QED BY <1>1, <1>3, <2>2, <3>1, <3>2, <3>3, RecordUndecided DEF AloneOn, InPlayOn
  <2> QED BY <2>1, <2>2
<1>4. ASSUME NEW c \in Callers, Restore(c) \/ (Finish(c) /\ ~failed[c]), d = cmd[c].dev
      PROVE  AloneOn(d)' /\ InPlayOn(d)'
  <2>1. CASE Undecided(d) \subseteq {c}
    BY <1>1, <1>4, <2>1, DecidedUndecided DEF AloneOn, InPlayOn
  <2>2. CASE ~(Undecided(d) \subseteq {c})
    <3>1. PICK k \in Undecided(d) : k # c
      BY <2>2
    <3>2. d \notin Guarded /\ c \in Undecided(d) /\ clash[d] # {} /\ clash'[d] = clash[d]
      BY <1>1, <1>4, <2>2, <3>1, DecidedUndecided DEF AloneOn
    <3>3. requested'[d] = requested[d] \/ requested'[d] = prev[c]
      BY <1>1, <1>4 DEF Restore, Restored, Finish, TypeOK
    <3>4. requested'[d] \in clash[d]
      BY <1>1, <3>2, <3>3 DEF InPlayOn
    <3> QED BY <1>1, <1>4, <3>1, <3>2, <3>4, DecidedUndecided DEF AloneOn, InPlayOn
  <2> QED BY <2>1, <2>2
<1>5. ASSUME NEW c \in Callers, Finish(c), failed[c]
      PROVE  Same(d)
  BY <1>1, <1>5 DEF Finish, TypeOK, Goto, InFlight, Same, Undecided
<1>6. ASSUME NEW c \in Callers, Record(c) \/ Finish(c) \/ Restore(c)
      PROVE  AloneOn(d)' /\ InPlayOn(d)'
  BY <1>1, <1>2, <1>3, <1>4, <1>5, <1>6, OthersSame
<1> QED BY <1>1, <1>2, <1>6, QuietSame

-----------------------------------------------------------------------------
(* The refinement *)

\* The commands RequestRegister counts as tried are the undecided ones.
LEMMA TriedIs ==
    ASSUME TypeOK, NEW d \in Devices
    PROVE  Register!Tried(d) = Undecided(d)
<1>1. ASSUME NEW c \in Callers
      PROVE  PhaseOf(c) = "tried" <=> InFlight(c) /\ cmd[c].dev \notin Guarded
  BY DEF PhaseOf, InFlight
<1> QED BY <1>1 DEF Register!Tried, Undecided, Phase

\* An undecided command without a clash: the request that stands is the one it
\* replaced.
LEMMA StandingOf ==
    ASSUME NEW d \in Devices, AloneOn(d), NEW c \in Undecided(d), clash[d] = {}
    PROVE  Undecided(d) = {c} /\ Standing(d) = prev[c]
<1>1. Undecided(d) = {c}
  BY DEF AloneOn
<1>2. (CHOOSE k \in Undecided(d) : TRUE) = c
  BY <1>1
<1> QED BY <1>1, <1>2 DEF Standing

\* Steps outside record, execute and restore: a submission, a refusal, a
\* return, or nothing a caller can see.
LEMMA QuietRefines ==
    ASSUME IInv, Next,
           \A k \in Callers : ~Record(k) /\ ~Finish(k) /\ ~Restore(k)
    PROVE  [Register!Next]_(Register!vars)
<1> USE CommandAssumptions DEF lockVars, callerVars, loopVars, Goto, InFlight
<1>1. TypeOK
  BY DEF IInv
<1>2. StandingRequest' = StandingRequest
  BY <1>1, QuietSame, SameKeeps DEF StandingRequest
<1>3. ASSUME NEW c \in Callers, NEW command \in Sends[c], Begin(c, command)
      PROVE  Register!Submit(c)
  <2>1. Phase[c] = "idle" /\ Phase' = [Phase EXCEPT ![c] = "submitted"]
    BY <1>1, <1>3 DEF Begin, TypeOK, Phase, PhaseOf
  <2>2. command \in [dev: Devices, value: Values]
    OBVIOUS
  <2> QED BY <1>2, <1>3, <2>1, <2>2 DEF Begin, Register!Submit, Register!To
<1>4. ASSUME NEW c \in Callers, PublishReceivedFails(c) \/ Return(c)
      PROVE  Register!Return(c)
  <2>1. /\ pc[c] \in {"received", "done", "refused"} /\ pc' = [pc EXCEPT ![c] = "idle"]
        /\ cmd' = [cmd EXCEPT ![c] = Unsent] /\ clash' = clash
    BY <1>4 DEF PublishReceivedFails, Return
  <2>2. PhaseOf(c) \in {"submitted", "accepted", "refused"} /\ PhaseOf(c)' = "idle"
    BY <1>1, <2>1 DEF PhaseOf, TypeOK
  <2>3. \A k \in Callers \ {c} : PhaseOf(k)' = PhaseOf(k)
    BY <1>1, <2>1 DEF PhaseOf, TypeOK
  <2>4. Phase[c] \in {"submitted", "accepted", "refused"} /\ Phase' = [Phase EXCEPT ![c] = "idle"]
    BY <2>2, <2>3 DEF Phase
  <2> QED BY <1>2, <2>1, <2>4 DEF Register!Return, Register!To
<1>5. ASSUME NEW c \in Callers, RejectLocked(c) \/ RejectUnknown(c)
      PROVE  Register!Refuse(c)
  <2>1. /\ pc[c] = "received" /\ pc' = [pc EXCEPT ![c] = "refused"]
        /\ cmd' = cmd /\ clash' = clash
    BY <1>5 DEF RejectLocked, RejectUnknown, Refuse
  <2>2. PhaseOf(c) = "submitted" /\ PhaseOf(c)' = "refused"
    BY <1>1, <2>1 DEF PhaseOf, TypeOK
  <2>3. \A k \in Callers \ {c} : PhaseOf(k)' = PhaseOf(k)
    BY <1>1, <2>1 DEF PhaseOf, TypeOK
  <2>4. Phase[c] = "submitted" /\ Phase' = [Phase EXCEPT ![c] = "refused"]
    BY <2>2, <2>3 DEF Phase
  <2> QED BY <1>2, <2>1, <2>4 DEF Register!Refuse, Register!To
<1>6. ASSUME cmd' = cmd, clash' = clash, \A k \in Callers : PhaseOf(k)' = PhaseOf(k)
      PROVE  UNCHANGED Register!vars
  BY <1>2, <1>6 DEF Register!vars, Phase
<1>7. ASSUME NEW c \in Callers, NEW d \in Devices,
             Write(c, d) \/ WriteFails(c, d) \/ ExecRefuses(c)
      PROVE  UNCHANGED Register!vars
  <2>1. cmd' = cmd /\ clash' = clash
    BY <1>7 DEF Write, WriteFails, ExecRefuses
  <2>2. \A k \in Callers : PhaseOf(k)' = PhaseOf(k)
    BY <1>1, <1>7 DEF Write, WriteFails, ExecRefuses, TypeOK, PhaseOf
  <2> QED BY <1>6, <2>1, <2>2
<1>8. ASSUME UNCHANGED <<pc, cmd, clash>>
      PROVE  UNCHANGED Register!vars
  BY <1>6, <1>8 DEF PhaseOf
<1>9. ASSUME NEW m \in Distribute, LoopStep(m)
      PROVE  UNCHANGED Register!vars
  BY <1>8, <1>9 DEF LoopStep, LoopRead, LoopShares, LoopWrite, LoopFails, LoopEnds
<1>10. ASSUME Energize \/ LockApply \/ \E set \in LockSets : LockWait(set)
       PROVE  UNCHANGED Register!vars
  BY <1>8, <1>10 DEF Energize, LockApply, LockWait
<1> QED
  BY <1>3, <1>4, <1>5, <1>7, <1>9, <1>10 DEF Next, CallerStep, Register!Next

\* requested::record is an acceptance on a guarded module; elsewhere the
\* command is tried, alone or in a clash.
LEMMA RecordRefines ==
    ASSUME IInv, NEW c \in Callers, Record(c)
    PROVE  Register!Accept(c) \/ Register!Try(c) \/ Register!Clash(c)
<1> DEFINE d == cmd[c].dev
<1>1. TypeOK /\ d \in Devices /\ AloneOn(d) /\ InPlayOn(d)
  BY DEF IInv, ClashInv, TypeOK
<1>2. /\ pc[c] = "received" /\ pc' = [pc EXCEPT ![c] = "exec"] /\ cmd' = cmd
      /\ clash' = [clash EXCEPT ![d] = Clashing(c)]
      /\ pc \in [Callers -> CallerStates] /\ clash \in [Devices -> SUBSET Requests]
  BY DEF Record, Goto, IInv, TypeOK
<1>3. \A k \in Callers \ {c} : PhaseOf(k)' = PhaseOf(k)
  BY <1>2 DEF PhaseOf, InFlight
<1>4. PhaseOf(c) = "submitted"
      /\ PhaseOf(c)' = IF d \in Guarded THEN "accepted" ELSE "tried"
  BY <1>2 DEF PhaseOf, InFlight
<1>5. /\ Phase[c] = "submitted"
      /\ Phase' = [Phase EXCEPT ![c] = IF d \in Guarded THEN "accepted" ELSE "tried"]
  BY <1>3, <1>4 DEF Phase
<1>6. \A e \in Devices : e # d => Standing(e)' = Standing(e)
  BY <1>1, OthersSame, SameKeeps
<1>7. StandingRequest' = [StandingRequest EXCEPT ![d] = Standing(d)']
  BY <1>1, <1>2, <1>6 DEF StandingRequest
<1>8. Register!Tried(d) = Undecided(d)
  BY <1>1, TriedIs
<1>9. CASE d \in Guarded
  <2>1. Undecided(d) = {} /\ Undecided(d)' = {} /\ Clashing(c) = {} /\ clash[d] = {}
    BY <1>1, <1>9, RecordUndecided DEF Clashing, InPlayOn
  <2>2. Standing(d)' = cmd[c].value
    BY <1>1, <2>1, RecordUndecided DEF Standing
  <2>3. Register!Decide(c, cmd[c].value)
    BY <1>2, <1>7, <1>8, <2>1, <2>2 DEF Register!Decide
  <2> QED BY <1>5, <1>8, <1>9, <2>1, <2>3 DEF Register!Accept, Register!To
<1>10. CASE d \notin Guarded /\ Undecided(d) = {}
  <2>1. Clashing(c) = {} /\ clash[d] = {} /\ Undecided(d)' = {c} /\ clash'[d] = {}
    BY <1>1, <1>10, RecordUndecided DEF Clashing, InPlayOn
  <2>2. (CHOOSE k \in Undecided(d)' : TRUE) = c
    BY <2>1
  <2>3. Standing(d)' = prev'[c]
    BY <1>2, <2>1, <2>2 DEF Standing
  <2>4. Standing(d)' = Standing(d)
    BY <1>1, <1>10, <2>3, RecordUndecided DEF Standing
  <2>5. StandingRequest' = StandingRequest
    BY <1>7, <2>4 DEF StandingRequest
  <2>6. clash' = clash
    BY <1>2, <2>1
  <2> QED BY <1>2, <1>5, <1>8, <1>10, <2>5, <2>6 DEF Register!Try, Register!To
<1>11. CASE d \notin Guarded /\ Undecided(d) # {}
  <2>1. Clashing(c) = clash[d] \cup {cmd[c].value}
                        \cup UNION {{cmd[k].value, prev[k]} : k \in Undecided(d)}
    BY <1>11 DEF Clashing
  <2> DEFINE asked == {cmd[k].value : k \in Undecided(d) \cup {c}}
             base == IF clash[d] = {} THEN {StandingRequest[d]} ELSE clash[d]
  <2>2. Clashing(c) = asked \cup base
    <3>1. CASE clash[d] = {}
      <4>1. PICK k \in Undecided(d) : TRUE
        BY <1>11
      <4>2. Undecided(d) = {k} /\ StandingRequest[d] = prev[k]
        BY <1>1, <3>1, <4>1, StandingOf DEF StandingRequest
      <4>3. asked = {cmd[k].value, cmd[c].value} /\ base = {prev[k]}
        BY <3>1, <4>2
      <4>4. Clashing(c) = {cmd[c].value} \cup {cmd[k].value, prev[k]}
        BY <2>1, <3>1, <4>2
      <4> QED BY <4>3, <4>4
    <3>2. CASE clash[d] # {}
      <4>1. \A k \in Undecided(d) : prev[k] \in clash[d] /\ cmd[k].value \in clash[d]
        BY <1>1, <3>2 DEF InPlayOn
      <4> QED BY <2>1, <3>2, <4>1
    <3> QED BY <3>1, <3>2
  <2>3. cmd[c].value \in Clashing(c) /\ clash'[d] = Clashing(c)
    BY <1>1, <1>2, <2>1
  <2>4. Standing(d)' = cmd[c].value
    BY <1>1, <2>3, RecordUndecided DEF Standing
  <2>5. \E v \in clash'[d] : StandingRequest' = [StandingRequest EXCEPT ![d] = v]
    BY <1>7, <2>3, <2>4
  <2>6. clash' = [clash EXCEPT ![d] = asked \cup (IF @ = {} THEN {StandingRequest[d]} ELSE @)]
    BY <1>1, <1>2, <2>2
  <2> HIDE DEF base
  <2> QED BY <1>2, <1>5, <1>8, <1>11, <2>5, <2>6 DEF Register!Clash, Register!To
<1> QED BY <1>9, <1>10, <1>11

\* A decided command leaves its device's request on what the record then holds.
LEMMA DecideRefines ==
    ASSUME IInv, NEW c \in Callers, Restore(c) \/ (Finish(c) /\ ~failed[c]),
           cmd[c].dev \notin Guarded
    PROVE  Register!Decide(c, IF Restore(c) THEN StandingRequest[cmd[c].dev] ELSE cmd[c].value)
<1> DEFINE d == cmd[c].dev
           now == IF Restore(c) THEN StandingRequest[d] ELSE cmd[c].value
<1>1. TypeOK /\ GuardedInv /\ d \in Devices /\ AloneOn(d) /\ InPlayOn(d)
  BY DEF IInv, ClashInv, TypeOK
<1>2. \A e \in Devices : e # d => Standing(e)' = Standing(e)
  BY <1>1, OthersSame, SameKeeps
<1>3. cmd' = cmd /\ prev' = prev /\ c \in Undecided(d)
      /\ clash'[d] = (IF Undecided(d) \subseteq {c} THEN {} ELSE clash[d])
      /\ Undecided(d)' = Undecided(d) \ {c}
  BY <1>1, DecidedUndecided
<1>4. StandingRequest' = [StandingRequest EXCEPT ![d] = Standing(d)']
  BY <1>1, <1>2, <1>3 DEF StandingRequest
<1>5. Register!Tried(d) = Undecided(d)
  BY <1>1, TriedIs
<1>6. clash' = [clash EXCEPT ![d] = IF Undecided(d) \subseteq {c} THEN {} ELSE @]
  BY <1>1, DecidedUndecided DEF Decided
<1>7. requested'[d] = IF Restore(c) /\ requested[d] = cmd[c].value THEN prev[c] ELSE requested[d]
  <2>1. CASE Restore(c)
    BY <1>1, <2>1 DEF Restore, Restored, TypeOK
  <2>2. CASE ~Restore(c)
    BY <1>1, <2>2 DEF Finish, TypeOK
  <2> QED BY <2>1, <2>2
<1>8. CASE clash[d] = {}
  <2>1. Undecided(d) = {c} /\ Standing(d) = prev[c] /\ requested[d] = cmd[c].value
    BY <1>1, <1>3, <1>8, StandingOf DEF AloneOn
  <2>2. Standing(d)' = requested'[d]
    BY <1>3, <2>1 DEF Standing
  <2>3. Standing(d)' = now
    BY <1>1, <1>7, <2>1, <2>2 DEF StandingRequest
  <2> QED BY <1>3, <1>4, <1>5, <1>6, <1>8, <2>3 DEF Register!Decide
<1>9. CASE clash[d] # {}
  <2>1. Standing(d)' = requested'[d]
    <3>1. Undecided(d)' = {} \/ clash'[d] # {}
      BY <1>3, <1>9
    <3> QED BY <1>3, <3>1 DEF Standing
  <2>2. requested'[d] \in clash[d]
    BY <1>1, <1>3, <1>7, <1>9 DEF InPlayOn
  <2> QED BY <1>3, <1>4, <1>5, <1>6, <1>9, <2>1, <2>2 DEF Register!Decide
<1> QED BY <1>8, <1>9

\* execute_setpoint's Ok is an acceptance, its Err decides nothing until the
\* record is restored; restore is a refusal.
LEMMA VerdictRefines ==
    ASSUME IInv, NEW c \in Callers, Finish(c) \/ Restore(c)
    PROVE  Register!Accept(c) \/ Register!GiveUp(c) \/ UNCHANGED Register!vars
<1> DEFINE d == cmd[c].dev
<1>1. TypeOK /\ GuardedInv /\ d \in Devices /\ InPlayOn(d)
  BY DEF IInv, ClashInv, TypeOK
<1>2. cmd' = cmd /\ \A k \in Callers \ {c} : PhaseOf(k)' = PhaseOf(k)
  BY <1>1 DEF Finish, Restore, Goto, TypeOK, PhaseOf, InFlight
<1>3. CASE Restore(c)
  <2>1. d \notin Guarded
    BY <1>1, <1>3, DecidedUndecided
  <2>2. PhaseOf(c) = "tried" /\ PhaseOf(c)' = "refused"
    BY <1>1, <1>3, <2>1 DEF Restore, Goto, TypeOK, PhaseOf, InFlight
  <2>3. Phase[c] = "tried" /\ Phase' = [Phase EXCEPT ![c] = "refused"]
    BY <1>2, <2>2 DEF Phase
  <2>4. Register!Decide(c, StandingRequest[d])
    BY <1>3, <2>1, DecideRefines
  <2> QED BY <2>3, <2>4 DEF Register!GiveUp, Register!To
<1>4. CASE Finish(c) /\ ~failed[c] /\ d \notin Guarded
  <2>1. PhaseOf(c) = "tried" /\ PhaseOf(c)' = "accepted"
    BY <1>1, <1>4 DEF Finish, Goto, TypeOK, PhaseOf, InFlight
  <2>2. Phase[c] = "tried" /\ Phase' = [Phase EXCEPT ![c] = "accepted"]
    BY <1>2, <2>1 DEF Phase
  <2>3. ~Restore(c)
    BY <1>4 DEF Finish, Restore
  <2>4. Register!Decide(c, cmd[c].value)
    BY <1>4, <2>3, DecideRefines
  <2> QED BY <2>2, <2>4 DEF Register!Accept, Register!To
<1>5. CASE Finish(c) /\ (failed[c] \/ d \in Guarded)
  <2>1. failed[c] => d \notin Guarded
    BY <1>1, <1>5 DEF Finish, GuardedInv
  <2>2. PhaseOf(c)' = PhaseOf(c)
    BY <1>1, <1>5, <2>1 DEF Finish, Goto, TypeOK, PhaseOf, InFlight
  <2>3. Phase' = Phase
    BY <1>2, <2>2 DEF Phase
  <2>4. Same(d) /\ clash' = clash
    <3>1. CASE failed[c]
      BY <1>1, <1>5, <3>1 DEF Finish, Goto, TypeOK, InFlight, Same, Undecided
    <3>2. CASE ~failed[c]
      <4>1. d \in Guarded /\ Undecided(d) = {} /\ clash[d] = {} /\ Undecided(d)' = {}
        BY <1>1, <1>5, <3>2, DecidedUndecided DEF InPlayOn
      <4>2. clash' = clash
        BY <1>1, <1>5, <3>2, <4>1 DEF Finish, Decided, TypeOK
      <4> QED BY <1>5, <4>1, <4>2 DEF Finish, Same
    <3> QED BY <3>1, <3>2
  <2>5. \A e \in Devices : Standing(e)' = Standing(e)
    BY <1>1, <1>5, <2>4, OthersSame, SameKeeps
  <2>6. StandingRequest' = StandingRequest
    BY <2>5 DEF StandingRequest
  <2> QED BY <1>2, <2>3, <2>4, <2>6 DEF Register!vars
<1> QED BY <1>3, <1>4, <1>5

\* handle_command implements RequestRegister for any callers on any devices:
\* commands are atomic, and where two are tried on one device at a time the
\* device is left on a value in play.
THEOREM CommandsAreAtomic == Spec => AtomicRequests
<1>1. Init => IInv
  <2>1. Init => TypeOK
    BY InitType
  <2>2. Init => GuardInv /\ GuardedInv
    BY DEF Init, GuardInv, GuardedInv
  <2>3. Init => ClashInv
    BY DEF Init, ClashInv, AloneOn, InPlayOn, Undecided, InFlight
  <2> QED BY <2>1, <2>2, <2>3 DEF IInv
<1>2. IInv /\ [Next]_vars => IInv'
  BY NextType, GuardStep, GuardedStep, ClashStep DEF IInv
<1>3. Init => Register!Init
  <2> SUFFICES ASSUME Init PROVE Register!Init
    OBVIOUS
  <2>1. \A d \in Devices : Undecided(d) = {}
    BY DEF Init, Undecided, InFlight
  <2>2. StandingRequest = [d \in Devices |-> NoRequest]
    BY <2>1 DEF Init, StandingRequest, Standing
  <2>3. Phase = [c \in Callers |-> "idle"]
    <3>1. \A c \in Callers : pc[c] = "idle"
      BY DEF Init
    <3>2. \A c \in Callers : PhaseOf(c) = "idle"
      BY <3>1 DEF PhaseOf, InFlight
    <3> QED BY <3>2 DEF Phase
  <2> QED BY <2>2, <2>3 DEF Init, Register!Init
<1>4. IInv /\ [Next]_vars => [Register!Next]_(Register!vars)
  <2> SUFFICES ASSUME IInv, [Next]_vars PROVE [Register!Next]_(Register!vars)
    OBVIOUS
  <2>1. ASSUME NEW c \in Callers, Record(c) \/ Finish(c) \/ Restore(c)
        PROVE  [Register!Next]_(Register!vars)
    BY <2>1, RecordRefines, VerdictRefines DEF Register!Next
  <2>2. CASE Next /\ \A k \in Callers : ~Record(k) /\ ~Finish(k) /\ ~Restore(k)
    BY <2>2, QuietRefines
  <2>3. CASE UNCHANGED vars
    <3>1. UNCHANGED <<requested, pc, cmd, prev, clash>>
      BY <2>3 DEF vars, callerVars
    <3>2. \A d \in Devices : Same(d)
      BY <3>1 DEF Same, Undecided, InFlight
    <3>3. StandingRequest' = StandingRequest
      BY <3>2, SameKeeps DEF StandingRequest
    <3> QED BY <3>1, <3>3 DEF Register!vars, Phase, PhaseOf, InFlight
  <2> QED BY <2>1, <2>2, <2>3
<1> QED BY <1>1, <1>2, <1>3, <1>4, PTL DEF Spec, AtomicRequests, Register!Spec

=============================================================================
