------------------------- MODULE FirmwareFSM_proofs -------------------------
(***************************************************************************)
(* Proofs about FirmwareFSM, for any number of threads and pids.           *)
(***************************************************************************)
EXTENDS FirmwareFSM, TLAPS

(***************************************************************************)
(* What DoTransition's local newState can be: Fault until the action has   *)
(* returned normally.                                                      *)
(***************************************************************************)
OutcomeOK ==
  \A t \in Threads :
    /\ pc[t] \in {"fork", "wait", "unwind"} => newState[t] = "Fault"
    /\ pc[t] = "defer" => newState[t] \in {"Fault", routine[t].FinalState}

(***************************************************************************)
(* Without a cancellation every child has its parent thread in wait().     *)
(* This is what SingleOwner alone does not give: it says who may act, not  *)
(* whose child is alive.                                                   *)
(***************************************************************************)
ChildrenOwned ==
  cancelled = {} =>
    \A p \in Children : \E t \in Threads : pc[t] = "wait" /\ ownPid[t] = p

\* The inductive invariant.
FSMInv ==
  /\ TypeOK
  /\ SingleOwner
  /\ OutcomeOK
  /\ ChildrenOwned
  /\ WaitHasChild

USE PidsAssumption

(***************************************************************************)
(* The three routines: their names are distinct from Nothing, none of them *)
(* expects Transition and none of them ends in Transition or Fault.        *)
(***************************************************************************)
LEMMA RoutineFacts ==
  \A r \in TransitionRoutines :
    /\ r.Name \in RoutineNames
    /\ r.Name # "Nothing"
    /\ r.ExpectedStates \subseteq FWState \ {"Transition"}
    /\ r.FinalState \in {"Boot", "Running"}
<1> TAKE r \in TransitionRoutines
<1>1. r = ResetChip \/ r = FlashBootlader \/ r = StartFirmware
  BY DEF TransitionRoutines
<1>2. r.Name \in RoutineNames
  BY DEF RoutineNames
<1>3. /\ ResetChip.Name = "Chip reset"
      /\ ResetChip.ExpectedStates = {"Boot", "Running", "Fault"}
      /\ ResetChip.FinalState = "Boot"
  BY DEF ResetChip
<1>4. /\ FlashBootlader.Name = "Firmware flashing"
      /\ FlashBootlader.ExpectedStates = {"Boot"}
      /\ FlashBootlader.FinalState = "Boot"
  BY DEF FlashBootlader
<1>5. /\ StartFirmware.Name = "Firmware starting"
      /\ StartFirmware.ExpectedStates = {"Boot"}
      /\ StartFirmware.FinalState = "Running"
  BY DEF StartFirmware
<1> QED
  BY <1>1, <1>2, <1>3, <1>4, <1>5 DEF FWState

(***************************************************************************)
(* The state after the constructor satisfies the invariant.                *)
(***************************************************************************)
LEMMA InitFSMInv == Init => FSMInv
BY DEF Init, FSMInv, TypeOK, SingleOwner, InTransition, OutcomeOK, ChildrenOwned,
       WaitHasChild, Children, FWState, ProgramPoints, ScriptStates,
       TransitionRoutines, RoutineNames

(***************************************************************************)
(* Every step of a thread, a script or the canceller keeps the types.      *)
(***************************************************************************)
LEMMA TypeOKStep == TypeOK /\ [Next]_fsmVars => TypeOK'
<1> SUFFICES ASSUME TypeOK, [Next]_fsmVars PROVE TypeOK'
  OBVIOUS
<1> USE DEF TypeOK, ProgramPoints, Goto
<1>1. ASSUME NEW t \in Threads, NEW r \in TransitionRoutines, Call(t, r) PROVE TypeOK'
  BY <1>1 DEF Call
<1>2. ASSUME NEW t \in Threads, Claim(t) PROVE TypeOK'
  BY <1>2, RoutineFacts DEF Claim, FWState
<1>3. ASSUME NEW t \in Threads, ThrowFSMException(t) PROVE TypeOK'
  BY <1>3 DEF ThrowFSMException, Leave, FWState, TransitionRoutines
<1>4. ASSUME NEW t \in Threads, Fork(t) PROVE TypeOK'
  BY <1>4 DEF Fork, ScriptStates
<1>5. ASSUME NEW t \in Threads, Reap(t) PROVE TypeOK'
  BY <1>5, RoutineFacts DEF Reap, ScriptStates, FWState
<1>6. ASSUME NEW t \in Threads, UnwindWait(t) PROVE TypeOK'
  BY <1>6 DEF UnwindWait
<1>7. ASSUME NEW t \in Threads, SetState(t) PROVE TypeOK'
  BY <1>7 DEF SetState, Leave, FWState, TransitionRoutines
<1>8. ASSUME NEW p \in Pids, ScriptExit(p) PROVE TypeOK'
  BY <1>8 DEF ScriptExit, ScriptStates
<1>9. ASSUME NEW t \in Threads, Cancel(t) PROVE TypeOK'
  BY <1>9 DEF Cancel
<1>10. CASE UNCHANGED fsmVars
  BY <1>10 DEF fsmVars
<1> QED
  BY <1>1, <1>2, <1>3, <1>4, <1>5, <1>6, <1>7, <1>8, <1>9, <1>10 DEF Next, ThreadStep

(***************************************************************************)
(* Every step keeps the invariant: one step per action, and under it one   *)
(* per conjunct the action can disturb.                                    *)
(***************************************************************************)
LEMMA FSMInvStep == FSMInv /\ [Next]_fsmVars => FSMInv'
<1> SUFFICES ASSUME FSMInv, [Next]_fsmVars PROVE FSMInv'
  OBVIOUS
<1>0. TypeOK /\ TypeOK'
  BY TypeOKStep DEF FSMInv
<1> USE <1>0 DEF FSMInv, Goto, InTransition
<1>1. ASSUME NEW t \in Threads, NEW r \in TransitionRoutines, Call(t, r) PROVE FSMInv'
  BY <1>1 DEF Call, SingleOwner, OutcomeOK, ChildrenOwned, Children, WaitHasChild, TypeOK
<1>2. ASSUME NEW t \in Threads, Claim(t) PROVE FSMInv'
  <2>1. CASE CheckState(routine[t].ExpectedStates)
    <3>1. State # "Transition" /\ pc[t] = "check" /\ pc' = [pc EXCEPT ![t] = "fork"]
          /\ State' = "Transition" /\ RoutineName' = routine[t].Name
          /\ newState' = [newState EXCEPT ![t] = "Fault"]
          /\ UNCHANGED <<routine, script, ownPid, cancelled>>
      BY <1>2, <2>1, RoutineFacts DEF Claim, CheckState, TypeOK
    <3>2. \A u \in Threads : ~InTransition(u)
      BY <3>1 DEF SingleOwner
    <3>3. SingleOwner'
      BY <3>1, <3>2 DEF SingleOwner, TypeOK
    <3>4. OutcomeOK'
      BY <3>1, <3>2 DEF OutcomeOK, TypeOK
    <3>5. ChildrenOwned'
      BY <3>1, <3>2 DEF ChildrenOwned, Children, TypeOK
    <3>6. WaitHasChild'
      BY <3>1, <3>2 DEF WaitHasChild, Children, TypeOK
    <3> QED
      BY <3>3, <3>4, <3>5, <3>6
  <2>2. CASE ~CheckState(routine[t].ExpectedStates)
    BY <1>2, <2>2 DEF Claim, SingleOwner, OutcomeOK, ChildrenOwned, Children, WaitHasChild, TypeOK
  <2> QED
    BY <2>1, <2>2
<1>3. ASSUME NEW t \in Threads, ThrowFSMException(t) PROVE FSMInv'
  BY <1>3 DEF ThrowFSMException, Leave, SingleOwner, OutcomeOK, ChildrenOwned, Children, WaitHasChild, TypeOK
<1>4. ASSUME NEW t \in Threads, Fork(t) PROVE FSMInv'
  <2>1. SingleOwner'
    BY <1>4 DEF Fork, SingleOwner, TypeOK
  <2>2. OutcomeOK'
    BY <1>4 DEF Fork, OutcomeOK, TypeOK
  <2>3. \A u \in Threads : pc[u] # "wait"
    BY <1>4 DEF Fork, SingleOwner
  <2>4. ChildrenOwned'
    BY <1>4, <2>3 DEF Fork, ChildrenOwned, Children, TypeOK
  <2>5. WaitHasChild'
    BY <1>4, <2>3 DEF Fork, WaitHasChild, Children, TypeOK
  <2> QED
    BY <2>1, <2>2, <2>4, <2>5
<1>5. ASSUME NEW t \in Threads, Reap(t) PROVE FSMInv'
  <2>1. SingleOwner'
    BY <1>5 DEF Reap, SingleOwner, TypeOK
  <2>2. OutcomeOK'
    BY <1>5 DEF Reap, OutcomeOK, TypeOK
  <2>3. \A u \in Threads : pc'[u] # "wait"
    BY <1>5 DEF Reap, SingleOwner, TypeOK
  <2>4. ChildrenOwned'
    <3> SUFFICES ASSUME cancelled = {} PROVE Children' = {}
      BY <1>5 DEF Reap, ChildrenOwned
    <3> PICK p \in Pids : script[p] \in {"ok", "err"}
                          /\ script' = [script EXCEPT ![p] = "free"]
      BY <1>5 DEF Reap
    <3>1. \A q \in Children : ownPid[t] = q
      BY <1>5 DEF Reap, ChildrenOwned, SingleOwner
    <3>2. p \in Children
      BY DEF Children
    <3> QED
      BY <3>1, <3>2 DEF Children, TypeOK
  <2>5. WaitHasChild'
    BY <2>3 DEF WaitHasChild
  <2> QED
    BY <2>1, <2>2, <2>4, <2>5
<1>6. ASSUME NEW t \in Threads, UnwindWait(t) PROVE FSMInv'
  BY <1>6 DEF UnwindWait, SingleOwner, OutcomeOK, ChildrenOwned, Children, WaitHasChild, TypeOK
<1>7. ASSUME NEW t \in Threads, SetState(t) PROVE FSMInv'
  <2>1. pc[t] \in {"defer", "unwind"} /\ pc'[t] \in {"idle", "gone"}
        /\ \A u \in Threads \ {t} : pc'[u] = pc[u] /\ ~InTransition(u)
    BY <1>7 DEF SetState, Leave, SingleOwner, TypeOK
  <2>2. SingleOwner'
    BY <1>7, <2>1 DEF SetState, Leave, SingleOwner, TypeOK
  <2>3. OutcomeOK'
    BY <1>7, <2>1 DEF SetState, Leave, OutcomeOK, TypeOK
  <2>4. ChildrenOwned'
    BY <1>7, <2>1 DEF SetState, ChildrenOwned, Children, TypeOK
  <2>5. WaitHasChild'
    BY <1>7, <2>1 DEF SetState, WaitHasChild, Children, TypeOK
  <2> QED
    BY <2>2, <2>3, <2>4, <2>5
<1>8. ASSUME NEW p \in Pids, ScriptExit(p) PROVE FSMInv'
  <2>1. Children' = Children
    BY <1>8 DEF ScriptExit, Children, TypeOK
  <2> QED
    BY <1>8, <2>1 DEF ScriptExit, SingleOwner, OutcomeOK, ChildrenOwned, WaitHasChild
<1>9. ASSUME NEW t \in Threads, Cancel(t) PROVE FSMInv'
  BY <1>9 DEF Cancel, SingleOwner, OutcomeOK, ChildrenOwned, Children, WaitHasChild
<1>10. CASE UNCHANGED fsmVars
  BY <1>10 DEF fsmVars, SingleOwner, OutcomeOK, ChildrenOwned, Children, WaitHasChild
<1> QED
  BY <1>1, <1>2, <1>3, <1>4, <1>5, <1>6, <1>7, <1>8, <1>9, <1>10 DEF Next, ThreadStep

(***************************************************************************)
(* The invariant holds in every reachable state of DoTransition's callers. *)
(***************************************************************************)
THEOREM FSMInvariant == Spec => []FSMInv
BY InitFSMInv, FSMInvStep, PTL DEF Spec

(***************************************************************************)
(* State, RoutineName and the locals of DoTransition keep their types.     *)
(***************************************************************************)
THEOREM TypeCorrect == Spec => []TypeOK
BY FSMInvariant, PTL DEF FSMInv

(***************************************************************************)
(* Transition belongs to exactly one thread, and RoutineName to its        *)
(* routine, however many handlers call the machine at once.                *)
(***************************************************************************)
THEOREM Ownership == Spec => []SingleOwner
BY FSMInvariant, PTL DEF FSMInv

(***************************************************************************)
(* wait() in HwUtils::Execute never fails with ECHILD.                     *)
(***************************************************************************)
THEOREM WaitSafe == Spec => []WaitHasChild
BY FSMInvariant, PTL DEF FSMInv

(***************************************************************************)
(* Without a cancellation no two hardware scripts exist at the same time.  *)
(***************************************************************************)
THEOREM Exclusion == Spec => []ScriptExclusion
<1>1. FSMInv => ScriptExclusion
  BY DEF FSMInv, ScriptExclusion, ChildrenOwned, SingleOwner, InTransition
<1> QED
  BY <1>1, FSMInvariant, PTL

(***************************************************************************)
(* Without a cancellation a routine is judged by its own script's status.  *)
(***************************************************************************)
THEOREM OwnVerdict == Spec => VerdictIsOwn
<1>1. ASSUME FSMInv, [Next]_fsmVars,
             NEW t \in Threads, cancelled = {}, pc[t] = "wait", pc'[t] = "defer"
      PROVE  /\ script[ownPid[t]] \in {"ok", "err"}
             /\ script'[ownPid[t]] = "free"
             /\ newState'[t] = IF script[ownPid[t]] = "ok"
                                 THEN routine[t].FinalState ELSE "Fault"
  <2>1. Reap(t)
    <3> USE <1>1 DEF Goto, FSMInv, TypeOK
    <3>1. ~(\E r \in TransitionRoutines : Call(t, r)) /\ ~Claim(t) /\ ~ThrowFSMException(t)
          /\ ~Fork(t) /\ ~UnwindWait(t) /\ ~SetState(t) /\ ~UNCHANGED pc
      BY DEF Call, Claim, ThrowFSMException, Fork, UnwindWait, SetState
    <3>2. ASSUME NEW u \in Threads \ {t}
          PROVE ~(\E r \in TransitionRoutines : Call(u, r)) /\ ~ThreadStep(u)
      BY DEF ThreadStep, Call, Claim, ThrowFSMException, Fork, Reap, UnwindWait, SetState
    <3>3. (\A p \in Pids : ~ScriptExit(p)) /\ (\A u \in Threads : ~Cancel(u))
      BY DEF ScriptExit, Cancel
    <3> QED
      BY <3>1, <3>2, <3>3 DEF Next, ThreadStep, fsmVars
  <2> PICK p \in Pids :
         /\ script[p] \in {"ok", "err"}
         /\ script' = [script EXCEPT ![p] = "free"]
         /\ newState' = [newState EXCEPT ![t] =
              IF script[p] = "ok" THEN routine[t].FinalState ELSE "Fault"]
    BY <2>1 DEF Reap
  <2>2. ownPid[t] = p
    BY <1>1 DEF FSMInv, ChildrenOwned, Children, SingleOwner, InTransition
  <2> QED
    BY <1>1, <2>2 DEF FSMInv, TypeOK
<1>2. FSMInv /\ [Next]_fsmVars =>
        [\A t \in Threads :
           cancelled = {} /\ pc[t] = "wait" /\ pc'[t] = "defer" =>
             /\ script[ownPid[t]] \in {"ok", "err"}
             /\ script'[ownPid[t]] = "free"
             /\ newState'[t] = IF script[ownPid[t]] = "ok"
                                 THEN routine[t].FinalState ELSE "Fault"]_fsmVars
  BY <1>1
<1> QED
  BY <1>2, FSMInvariant, PTL DEF Spec, VerdictIsOwn

(***************************************************************************)
(* Which routine a name stands for: a step of the state machine knows the  *)
(* routine, a step of FirmwareLifecycle only the name.                     *)
(***************************************************************************)
LEMMA RoutineCases ==
  \A r \in TransitionRoutines :
    \/ /\ r.Name = "Chip reset" /\ r.FinalState = "Boot"
       /\ r.ExpectedStates = {"Boot", "Running", "Fault"}
    \/ /\ r.Name = "Firmware flashing" /\ r.FinalState = "Boot"
       /\ r.ExpectedStates = {"Boot"}
    \/ /\ r.Name = "Firmware starting" /\ r.FinalState = "Running"
       /\ r.ExpectedStates = {"Boot"}
<1> TAKE r \in TransitionRoutines
<1>1. r = ResetChip \/ r = FlashBootlader \/ r = StartFirmware
  BY DEF TransitionRoutines
<1>2. CASE r = ResetChip
  BY <1>2 DEF ResetChip
<1>3. CASE r = FlashBootlader
  BY <1>3 DEF FlashBootlader
<1>4. CASE r = StartFirmware
  BY <1>4 DEF StartFirmware
<1> QED
  BY <1>1, <1>2, <1>3, <1>4

(***************************************************************************)
(* One step of the state machine is one step of the lifecycle or none:     *)
(* Claim begins a routine, SetState ends it, and everything in between is  *)
(* invisible through GetStateDescription.                                  *)
(***************************************************************************)
LEMMA LifecycleStep ==
  FSMInv /\ [Next]_fsmVars => [Lifecycle!Next]_GetStateDescription
<1> SUFFICES ASSUME FSMInv, [Next]_fsmVars
             PROVE  Lifecycle!Next \/ UNCHANGED GetStateDescription
  OBVIOUS
<1>1. ASSUME NEW t \in Threads, Claim(t) PROVE Lifecycle!Next \/ UNCHANGED GetStateDescription
  <2>1. CASE ~CheckState(routine[t].ExpectedStates)
    BY <1>1, <2>1 DEF Claim, GetStateDescription
  <2>2. CASE CheckState(routine[t].ExpectedStates)
    <3>1. State \in routine[t].ExpectedStates /\ routine[t] \in TransitionRoutines
          /\ State' = "Transition" /\ RoutineName' = routine[t].Name
      BY <1>1, <2>2 DEF Claim, CheckState, FSMInv, TypeOK
    <3> QED
      BY <3>1, RoutineCases
         DEF GetStateDescription, Lifecycle!Next, Lifecycle!BeginReset, Lifecycle!BeginFlash,
             Lifecycle!BeginStart, Lifecycle!Resting
  <2> QED
    BY <2>1, <2>2
<1>2. ASSUME NEW t \in Threads, SetState(t) PROVE Lifecycle!Next \/ UNCHANGED GetStateDescription
  <2>1. routine[t] \in TransitionRoutines /\ State = "Transition" /\ RoutineName = routine[t].Name
    BY <1>2 DEF SetState, Goto, FSMInv, TypeOK, SingleOwner, InTransition
  <2>2. State' \in {"Fault", routine[t].FinalState}
    BY <1>2 DEF SetState, Goto, FSMInv, OutcomeOK
  <2> QED
    BY <2>1, <2>2, RoutineCases
       DEF GetStateDescription, Lifecycle!Next, Lifecycle!Succeed, Lifecycle!Fail, Lifecycle!Routines
<1>3. ASSUME UNCHANGED <<State, RoutineName>> PROVE UNCHANGED GetStateDescription
  BY <1>3 DEF GetStateDescription
<1> QED
  BY <1>1, <1>2, <1>3
     DEF Next, ThreadStep, fsmVars, Call, ThrowFSMException, Fork, Reap, UnwindWait, ScriptExit, Cancel

(***************************************************************************)
(* The firmware state machine implements the lifecycle: a client that      *)
(* polls GetStatus sees only the edges of FirmwareLifecycle.               *)
(***************************************************************************)
THEOREM Implementation == Spec => ImplementsLifecycle
<1>1. Init => Lifecycle!Init
  BY DEF Init, Lifecycle!Init, GetStateDescription
<1> QED
  BY <1>1, LifecycleStep, FSMInvariant, PTL DEF Spec, ImplementsLifecycle, Lifecycle!Spec
=============================================================================
