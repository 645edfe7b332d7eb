---------------------------- MODULE FirmwareFSM ----------------------------
(***************************************************************************)
(* FirmwareFSM (Src/FirmwareFSM.cpp) together with HwUtils::Execute        *)
(* (Src/HwUtils.cpp), the only thing its routines do: fork a Python script *)
(* and wait for a child.                                                   *)
(*                                                                         *)
(* Callers are the handler threads of the server.  A step is what one      *)
(* thread does between two points where another thread can interfere:      *)
(* a critical section of Mutex, a system call, or a read of a shared field *)
(* outside the lock.  A thread can be cancelled (pthread_cancel in         *)
(* Server::Run); wait() is the only cancellation point in here.            *)
(***************************************************************************)
CONSTANTS
  Threads,   \* the handler threads that may call the state machine
  Pids,      \* the process ids the kernel may hand to fork()
  NoPid      \* "this thread has no child"

ASSUME PidsAssumption == NoPid \notin Pids

FWState == {"Boot", "Running", "Transition", "Fault"}

(***************************************************************************)
(* The three TransitionRoutines.  Action is always "run one script", so it *)
(* is the steps Fork .. Reap below and needs no field of its own.          *)
(***************************************************************************)
ResetChip == [Name           |-> "Chip reset",
              ExpectedStates |-> {"Boot", "Running", "Fault"},
              FinalState     |-> "Boot"]

FlashBootlader == [Name           |-> "Firmware flashing",
                   ExpectedStates |-> {"Boot"},
                   FinalState     |-> "Boot"]

\* Mutant of StartFirmware: starting is allowed from Fault too.
StartFromFault == [Name           |-> "Firmware starting",
                   ExpectedStates |-> {"Boot", "Fault"},
                   FinalState     |-> "Running"]

StartFirmware == [Name           |-> "Firmware starting",
                  ExpectedStates |-> {"Boot"},
                  FinalState     |-> "Running"]

TransitionRoutines == {ResetChip, FlashBootlader, StartFirmware}
RoutineNames == {r.Name : r \in TransitionRoutines}

VARIABLES
  State,        \* FirmwareFSM::State
  RoutineName,  \* FirmwareFSM::RoutineName, "Nothing" when Routines::Empty
  pc,           \* where each thread is in DoTransition / Execute
  routine,      \* the argument of DoTransition, meaningful unless pc is idle
  newState,     \* the local newState of DoTransition
  script,       \* the process table, by pid
  ownPid,       \* the child a thread forked and nobody has reaped yet (history)
  cancelled     \* threads pthread_cancel was called on

fsmVars == <<State, RoutineName, pc, routine, newState, script, ownPid, cancelled>>

(***************************************************************************)
(* Program points.                                                         *)
(*   idle    not in the state machine       wait    in wait(&status)       *)
(*   check   before Mutex->lock()           defer   leaving the scope      *)
(*   throw   !stateOk, lock released        unwind  leaving it cancelled   *)
(*   fork    State is Transition            gone    the thread has ended   *)
(***************************************************************************)
ProgramPoints ==
  {"idle", "check", "throw", "fork", "wait", "defer", "unwind", "gone"}

\* The life of a script: it ends by exit(0), or by anything else.
ScriptStates == {"free", "running", "ok", "err"}

TypeOK ==
  /\ State \in FWState
  /\ RoutineName \in RoutineNames \cup {"Nothing"}
  /\ pc \in [Threads -> ProgramPoints]
  /\ routine \in [Threads -> TransitionRoutines]
  /\ newState \in [Threads -> FWState \ {"Transition"}]
  /\ script \in [Pids -> ScriptStates]
  /\ ownPid \in [Threads -> Pids \cup {NoPid}]
  /\ cancelled \in SUBSET Threads

(***************************************************************************)
(* The state after the constructor, which runs ResetChip once before any   *)
(* handler thread exists and fails the daemon's start if that fails.       *)
(***************************************************************************)
Init ==
  /\ State = "Boot"
  /\ RoutineName = "Nothing"
  /\ pc = [t \in Threads |-> "idle"]
  /\ routine = [t \in Threads |-> ResetChip]
  /\ newState = [t \in Threads |-> "Fault"]
  /\ script = [p \in Pids |-> "free"]
  /\ ownPid = [t \in Threads |-> NoPid]
  /\ cancelled = {}

-----------------------------------------------------------------------------
Goto(t, from, to) == pc[t] = from /\ pc' = [pc EXCEPT ![t] = to]

\* DoTransition returns or throws: its locals are gone.
Leave(t) ==
  /\ routine' = [routine EXCEPT ![t] = ResetChip]
  /\ newState' = [newState EXCEPT ![t] = "Fault"]

\* A handler enters ResetChip, FlashBootlader or StartFirmware.
Call(t, r) ==
  /\ Goto(t, "idle", "check")
  /\ routine' = [routine EXCEPT ![t] = r]
  /\ UNCHANGED <<State, RoutineName, newState, script, ownPid, cancelled>>

CheckState(expected) == State \in expected

\* Mutant of Claim: the state is checked under the lock but claimed later.
ClaimForgotten(t) ==
  /\ \/ CheckState(routine[t].ExpectedStates) /\ Goto(t, "check", "fork")
     \/ ~CheckState(routine[t].ExpectedStates) /\ Goto(t, "check", "throw")
  /\ UNCHANGED <<State, RoutineName, newState, routine, script, ownPid, cancelled>>

\* Mutant of Claim: newState starts as the current State, already Transition.
ClaimKeepsState(t) ==
  /\ CheckState(routine[t].ExpectedStates)
  /\ Goto(t, "check", "fork")
  /\ State' = "Transition"
  /\ RoutineName' = routine[t].Name
  /\ newState' = [newState EXCEPT ![t] = "Transition"]
  /\ UNCHANGED <<routine, script, ownPid, cancelled>>

\* The first critical section of DoTransition: claim the hardware or not.
Claim(t) ==
  /\ \/ /\ CheckState(routine[t].ExpectedStates)
        /\ Goto(t, "check", "fork")
        /\ State' = "Transition"
        /\ RoutineName' = routine[t].Name
        /\ newState' = [newState EXCEPT ![t] = "Fault"]
     \/ /\ ~CheckState(routine[t].ExpectedStates)
        /\ Goto(t, "check", "throw")
        /\ UNCHANGED <<State, RoutineName, newState>>
  /\ UNCHANGED <<routine, script, ownPid, cancelled>>

\* throw FSMException(routine.Name, State, ...): State is read without Mutex.
ThrowFSMException(t) ==
  /\ Goto(t, "throw", "idle")
  /\ Leave(t)
  /\ UNCHANGED <<State, RoutineName, script, ownPid, cancelled>>

\* Mutant of Fork: the test of fork()'s result is dropped, wait() follows anyway.
ForkUnchecked(t) ==
  /\ Goto(t, "fork", "wait")
  /\ \/ \E p \in Pids :
          /\ script[p] = "free"
          /\ script' = [script EXCEPT ![p] = "running"]
          /\ ownPid' = [ownPid EXCEPT ![t] = p]
     \/ UNCHANGED <<script, ownPid>>
  /\ UNCHANGED <<State, RoutineName, routine, newState, cancelled>>

\* Execute: fork() gives a child that runs the script, or it fails and throws.
Fork(t) ==
  /\ \/ \E p \in Pids :
          /\ script[p] = "free"
          /\ Goto(t, "fork", "wait")
          /\ script' = [script EXCEPT ![p] = "running"]
          /\ ownPid' = [ownPid EXCEPT ![t] = p]
     \/ Goto(t, "fork", "defer") /\ UNCHANGED <<script, ownPid>>
  /\ UNCHANGED <<State, RoutineName, routine, newState, cancelled>>

\* The child: the script (or the failed exec) exits, or a signal ends it.
ScriptExit(p) ==
  /\ script[p] = "running"
  /\ \E status \in {"ok", "err"} : script' = [script EXCEPT ![p] = status]
  /\ UNCHANGED <<State, RoutineName, pc, routine, newState, ownPid, cancelled>>

\* Mutant of Reap: the call does not block (WNOHANG), the script runs on.
ReapNoHang(t) ==
  /\ Goto(t, "wait", "defer")
  /\ newState' = [newState EXCEPT ![t] = routine[t].FinalState]
  /\ UNCHANGED <<State, RoutineName, routine, script, ownPid, cancelled>>

\* Mutant of Reap: any normal exit counts as success, the exit code does not.
ReapIgnoresCode(t) ==
  /\ Goto(t, "wait", "defer")
  /\ \E p \in Pids :
       /\ script[p] \in {"ok", "err"}
       /\ script' = [script EXCEPT ![p] = "free"]
       /\ ownPid' = [u \in Threads |-> IF ownPid[u] = p THEN NoPid ELSE ownPid[u]]
  /\ newState' = [newState EXCEPT ![t] = routine[t].FinalState]
  /\ UNCHANGED <<State, RoutineName, routine, cancelled>>

(***************************************************************************)
(* wait(&status) returns for ANY child of the daemon that has ended, and   *)
(* Execute takes that status for its own: exit(0) lets DoTransition set    *)
(* newState to the final state, everything else throws.                    *)
(***************************************************************************)
Reap(t) ==
  /\ Goto(t, "wait", "defer")
  /\ \E p \in Pids :
       /\ script[p] \in {"ok", "err"}
       /\ script' = [script EXCEPT ![p] = "free"]
       /\ ownPid' = [u \in Threads |-> IF ownPid[u] = p THEN NoPid ELSE ownPid[u]]
       /\ newState' = [newState EXCEPT ![t] =
            IF script[p] = "ok" THEN routine[t].FinalState ELSE "Fault"]
  /\ UNCHANGED <<State, RoutineName, routine, cancelled>>

\* Mutant of UnwindWait: no Defer, a cancelled thread just disappears.
UnwindNoDefer(t) ==
  /\ t \in cancelled
  /\ Goto(t, "wait", "gone")
  /\ UNCHANGED <<State, RoutineName, routine, newState, script, ownPid, cancelled>>

\* A cancelled thread unwinds out of wait(), leaving its child behind.
UnwindWait(t) ==
  /\ t \in cancelled
  /\ Goto(t, "wait", "unwind")
  /\ UNCHANGED <<State, RoutineName, routine, newState, script, ownPid, cancelled>>

\* The Defer of DoTransition: SetState(newState), on every way out.
SetState(t) ==
  /\ Goto(t, "defer", "idle") \/ Goto(t, "unwind", "gone")
  /\ State' = newState[t]
  /\ RoutineName' = "Nothing"
  /\ Leave(t)
  /\ UNCHANGED <<script, ownPid, cancelled>>

\* pthread_cancel(t): only a request, acted on at a cancellation point.
Cancel(t) ==
  /\ t \notin cancelled
  /\ cancelled' = cancelled \cup {t}
  /\ UNCHANGED <<State, RoutineName, pc, routine, newState, script, ownPid>>

ThreadStep(t) == Claim(t) \/ ThrowFSMException(t) \/ Fork(t) \/ Reap(t)
                 \/ UnwindWait(t) \/ SetState(t)

Next ==
  \/ \E t \in Threads : \E r \in TransitionRoutines : Call(t, r)
  \/ \E t \in Threads : ThreadStep(t)
  \/ \E p \in Pids : ScriptExit(p)
  \/ \E t \in Threads : Cancel(t)

Spec == Init /\ [][Next]_fsmVars

\* A thread waits for this script, and it is not the one that starts the firmware.
ResetOrFlash(p) ==
  \E t \in Threads : pc[t] = "wait" /\ ownPid[t] = p /\ routine[t] # StartFirmware

(***************************************************************************)
(* Threads inside the state machine are scheduled.  Reset and flash come   *)
(* to an end.  Of a start script nothing is assumed: it searches the ports *)
(* until both boards have answered, however long that takes.               *)
(***************************************************************************)
Fairness == /\ \A t \in Threads : WF_fsmVars(ThreadStep(t))
            /\ \A p \in Pids : WF_fsmVars(ScriptExit(p) /\ ResetOrFlash(p))

FairSpec == Spec /\ Fairness

-----------------------------------------------------------------------------
(***************************************************************************)
(* What the state machine guarantees.                                      *)
(***************************************************************************)

\* The thread is between its claim of the hardware and its SetState.
InTransition(t) == pc[t] \in {"fork", "wait", "defer", "unwind"}

(***************************************************************************)
(* SingleOwner: between the two critical sections of DoTransition, with    *)
(* Mutex released while the script runs, State = Transition stands for one *)
(* thread and only one, RoutineName is that thread's routine, and without  *)
(* an owner there is no routine name left behind.                          *)
(***************************************************************************)
SingleOwner ==
  /\ \A t, u \in Threads : InTransition(t) /\ InTransition(u) => t = u
  /\ State = "Transition" <=> \E t \in Threads : InTransition(t)
  /\ \A t \in Threads : InTransition(t) => RoutineName = routine[t].Name
  /\ State # "Transition" => RoutineName = "Nothing"

\* The pids of the scripts that are running or not yet reaped.
Children == {p \in Pids : script[p] # "free"}

(***************************************************************************)
(* ScriptExclusion: as long as no handler was cancelled, at most one of    *)
(* the hardware scripts exists, and while it exists the state machine says *)
(* Transition.  This is the exclusion of the serial port and the reset pin *)
(* the whole daemon is built for.                                          *)
(***************************************************************************)
ScriptExclusion ==
  cancelled = {} =>
    /\ \A p, q \in Children : p = q
    /\ Children # {} => State = "Transition"

(***************************************************************************)
(* WaitHasChild: a thread that blocks in wait() always has some child of   *)
(* the daemon to wait for, so wait() never fails with ECHILD, even when a  *)
(* cancelled handler left its script behind and somebody else reaped the   *)
(* caller's own child.                                                     *)
(***************************************************************************)
WaitHasChild == \A t \in Threads : pc[t] = "wait" => Children # {}

(***************************************************************************)
(* VerdictIsOwn: wait() takes any child, yet without a cancellation the    *)
(* status a thread judges its routine by is that of the very script it     *)
(* forked: success leads to the final state, failure to Fault.             *)
(***************************************************************************)
VerdictIsOwn ==
  [][\A t \in Threads :
       cancelled = {} /\ pc[t] = "wait" /\ pc'[t] = "defer" =>
         /\ script[ownPid[t]] \in {"ok", "err"}
         /\ script'[ownPid[t]] = "free"
         /\ newState'[t] = IF script[ownPid[t]] = "ok"
                             THEN routine[t].FinalState ELSE "Fault"]_fsmVars

\* GetStateDescription: the word a client reads as the status of the firmware.
GetStateDescription == IF State = "Transition" THEN RoutineName ELSE State

Lifecycle == INSTANCE FirmwareLifecycle WITH status <- GetStateDescription

(***************************************************************************)
(* ImplementsLifecycle: seen through GetStateDescription, every            *)
(* interleaving of callers, scripts and cancellations is a walk along the  *)
(* edges of FirmwareLifecycle.                                             *)
(***************************************************************************)
ImplementsLifecycle == Lifecycle!Spec

\* The thread waits for its start script, which goes on, and nobody cancels it.
Searching(t) ==
  /\ pc[t] = "wait" /\ routine[t] = StartFirmware /\ t \notin cancelled
  /\ \E p \in Pids : ownPid[t] = p /\ script[p] = "running"

(***************************************************************************)
(* RoutineEnds: Transition is always left through the Defer of             *)
(* DoTransition, with one exception: a start script that searches for ever *)
(* and a caller that waits for it uncancelled.  A cancellation is enough,  *)
(* and neither orphaned scripts, which may run for ever too, nor a failing *)
(* fork() or script can keep the machine there.                            *)
(***************************************************************************)
RoutineEnds ==
  \/ <>[](\E t \in Threads : Searching(t))
  \/ State = "Transition" ~> State # "Transition"
=============================================================================
