---------------------------- MODULE HandlerImpl ----------------------------
(***************************************************************************)
(* HandlerImpl (Src/HandlerImpl.cpp) as the handler threads of the server  *)
(* drive it: the request loop of Server::HandlerRoutine, the procedures    *)
(* with their lock, and the state machine of FirmwareFSM underneath.       *)
(*                                                                         *)
(* HandlerImpl has a lock of its own (Mutex) for Acquired and the user     *)
(* data.  Flash and Reset release it before they enter FirmwareFSM;        *)
(* Connect keeps it while ClearPort drains the serial port.                *)
(***************************************************************************)
EXTENDS FirmwareFSM

CONSTANTS
  Clients,                \* the processes that talk to the daemon
  Peer,                   \* the client at the other end of a thread's connection
  OnlyHolderDisconnects,  \* TRUE: only the client that has the port gives it back
  NoThread,               \* Mutex is free
  NoClient                \* UserName is still empty

ASSUME HandlerAssumption ==
  /\ Peer \in [Threads -> Clients]
  /\ OnlyHolderDisconnects \in BOOLEAN
  /\ NoThread \notin Threads

VARIABLES
  at,          \* where each thread is in its request loop
  request,     \* the procedure it serves
  Mutex,       \* HandlerImpl::Mutex: its owner or NoThread
  Acquired,    \* HandlerImpl::Acquired
  User,        \* HandlerImpl::UserName, UserPid
  DoShutdown,  \* Server::DoShutdown
  granted      \* clients that were told the port is theirs and have not returned it

sessionVars == <<at, request>>
portVars    == <<Mutex, Acquired, User>>
allVars     == <<fsmVars, sessionVars, portVars, DoShutdown, granted>>

Requests == {"Flash", "Start", "Reset", "Connect", "Disconnect", "GetStatus"}

\* The routine behind each procedure that changes the hardware.
RoutineOf == [Flash |-> FlashBootlader, Start |-> StartFirmware, Reset |-> ResetChip]

(***************************************************************************)
(* Points of the request loop.                                             *)
(*   loop      the test of DoShutdown       reply   SendPackage, an answer *)
(*   recv      in RecvPackage               error   PackError in the catch *)
(*   dispatch  DispatchPackage entered      unwind  "Server closed" while  *)
(*   firmware  EnsureNotAcquired passed             cancelled              *)
(*   inside    in FirmwareFSM               exit    out of the loop        *)
(*   clear     in ClearPort, Mutex held     dead    std::terminate ended   *)
(*                                                  the whole daemon       *)
(***************************************************************************)
LoopPoints == {"loop", "recv", "dispatch", "firmware", "inside", "clear",
               "reply", "error", "unwind", "exit", "dead"}

HandlerTypeOK ==
  /\ TypeOK
  /\ at \in [Threads -> LoopPoints]
  /\ request \in [Threads -> Requests]
  /\ Mutex \in Threads \cup {NoThread}
  /\ Acquired \in BOOLEAN
  /\ User \in Clients \cup {NoClient}
  /\ DoShutdown \in BOOLEAN
  /\ granted \in SUBSET Clients
  /\ \A t \in Threads :
       IF pc[t] \in {"idle", "gone"} THEN at[t] # "inside" ELSE at[t] \in {"inside", "dead"}

HandlerInit ==
  /\ Init
  /\ at = [t \in Threads |-> "loop"]
  /\ request = [t \in Threads |-> "GetStatus"]
  /\ Mutex = NoThread
  /\ Acquired = FALSE
  /\ User = NoClient
  /\ DoShutdown = FALSE
  /\ granted = {}

-----------------------------------------------------------------------------
(***************************************************************************)
(* The loop of HandlerRoutine.                                             *)
(***************************************************************************)
Move(t, from, to) == at[t] = from /\ at' = [at EXCEPT ![t] = to]

\* An exception leaves a thread function or a destructor: the process is gone.
Terminate(t, from) == at[t] = from /\ at' = [u \in Threads |-> "dead"]

\* while (!server.DoShutdown): looked at once per request, before recv blocks.
LoopTop(t) ==
  /\ Move(t, "loop", IF DoShutdown THEN "exit" ELSE "recv")
  /\ request' = [request EXCEPT ![t] = "GetStatus"]  \* the last one is forgotten
  /\ UNCHANGED <<fsmVars, portVars, DoShutdown, granted>>

(***************************************************************************)
(* A request arrives.  A client that gives the port back stops using it    *)
(* when it sends Disconnect.                                               *)
(***************************************************************************)
RecvPackage(t, proc) ==
  /\ t \notin cancelled
  /\ proc = "Disconnect" /\ OnlyHolderDisconnects => Peer[t] \in granted
  /\ Move(t, "recv", "dispatch")
  /\ request' = [request EXCEPT ![t] = proc]
  /\ granted' = IF proc = "Disconnect" THEN granted \ {Peer[t]} ELSE granted
  /\ UNCHANGED <<fsmVars, portVars, DoShutdown>>

\* The client says goodbye or its connection breaks: the loop is left.
ClientLeaves(t) ==
  /\ t \notin cancelled
  /\ Move(t, "recv", "exit")
  /\ UNCHANGED <<fsmVars, request, portVars, DoShutdown, granted>>

(***************************************************************************)
(* SendPackage of an answer.  If it throws, sendGuard has cleared connOk   *)
(* and the loop is left.                                                   *)
(***************************************************************************)
Reply(t) ==
  /\ t \notin cancelled
  /\ \/ /\ Move(t, "reply", "loop")
        /\ granted' = IF request[t] = "Connect" THEN granted \cup {Peer[t]} ELSE granted
     \/ Move(t, "reply", "exit") /\ UNCHANGED granted
  /\ UNCHANGED <<fsmVars, request, portVars, DoShutdown>>

(***************************************************************************)
(* PackError in catch (std::exception&).  connOk is still true, and there  *)
(* is nothing around this send: if it throws, the thread function does.    *)
(***************************************************************************)
ReplyError(t) ==
  /\ t \notin cancelled
  /\ Move(t, "error", "loop") \/ Terminate(t, "error")
  /\ UNCHANGED <<fsmVars, request, portVars, DoShutdown, granted>>

\* Mutant of CancelledInLoop: PTHREAD_CANCEL_ASYNCHRONOUS, no unwinding at all.
CancelledAnywhere(t) ==
  /\ t \in cancelled
  /\ at[t] \notin {"exit", "dead"}
  /\ at' = [at EXCEPT ![t] = "exit"]
  /\ UNCHANGED <<fsmVars, request, portVars, DoShutdown, granted>>

(***************************************************************************)
(* A cancelled thread at recv or send: the guards have cleared connOk, or  *)
(* it already is in a catch clause, and nothing more is sent.  Before the  *)
(* procedure starts the logger's write is a cancellation point too.        *)
(***************************************************************************)
CancelledInLoop(t) ==
  /\ t \in cancelled
  /\ \/ \E p \in {"recv", "reply", "error"} : Move(t, p, "exit")
     \/ Move(t, "dispatch", "unwind")
  /\ UNCHANGED <<fsmVars, request, portVars, DoShutdown, granted>>

\* catch (ForcedUnwind&): tell the client and rethrow; a throw here is fatal.
ReplyServerClosed(t) ==
  /\ Move(t, "unwind", "exit") \/ Terminate(t, "unwind")
  /\ UNCHANGED <<fsmVars, request, portVars, DoShutdown, granted>>

-----------------------------------------------------------------------------
(***************************************************************************)
(* The procedures.  lock_guard on a free Mutex and the whole body is one   *)
(* step, unless the body blocks.                                           *)
(***************************************************************************)
Serving(t, procs) == at[t] = "dispatch" /\ request[t] \in procs

GetStatus(t) ==
  /\ Serving(t, {"GetStatus"})
  /\ Mutex = NoThread
  /\ Move(t, "dispatch", "reply")
  /\ UNCHANGED <<fsmVars, request, portVars, DoShutdown, granted>>

\* Flash and Reset: refused if acquired; otherwise on, with Mutex released.
EnsureNotAcquired(t) ==
  /\ Serving(t, {"Flash", "Reset"})
  /\ Mutex = NoThread
  /\ Move(t, "dispatch", IF Acquired THEN "error" ELSE "firmware")
  /\ UNCHANGED <<fsmVars, request, portVars, DoShutdown, granted>>

\* Mutant of CallFirmware: HwUtils is called directly, around the state machine.
CallHwUtils(t) ==
  /\ \/ Move(t, "firmware", "inside")
     \/ Serving(t, {"Start"}) /\ Move(t, "dispatch", "inside")
  /\ Goto(t, "idle", "fork")
  /\ routine' = [routine EXCEPT ![t] = RoutineOf[request[t]]]
  /\ UNCHANGED <<State, RoutineName, newState, script, ownPid, cancelled>>
  /\ UNCHANGED <<request, portVars, DoShutdown, granted>>

\* Firmware.FlashBootlader, ResetChip, or StartFirmware without any check.
CallFirmware(t) ==
  /\ \/ Move(t, "firmware", "inside")
     \/ Serving(t, {"Start"}) /\ Move(t, "dispatch", "inside")
  /\ Call(t, RoutineOf[request[t]])
  /\ UNCHANGED <<request, portVars, DoShutdown, granted>>

\* DoTransition on its way: the handler is not involved.
RunFirmware(t) ==
  /\ at[t] = "inside"
  /\ Claim(t) \/ Fork(t) \/ Reap(t) \/ UnwindWait(t)
  /\ UNCHANGED <<sessionVars, portVars, DoShutdown, granted>>

\* DoTransition refuses: FSMException reaches the catch of the loop.
FirmwareRefused(t) ==
  /\ Move(t, "inside", "error")
  /\ ThrowFSMException(t)
  /\ UNCHANGED <<request, portVars, DoShutdown, granted>>

(***************************************************************************)
(* DoTransition is left through SetState: normally, by the exception of a  *)
(* failed script, or by forced unwinding.                                  *)
(***************************************************************************)
FirmwareReturns(t) ==
  /\ Move(t, "inside", IF pc[t] = "unwind" THEN "unwind"
                       ELSE IF newState[t] = "Fault" THEN "error" ELSE "reply")
  /\ SetState(t)
  /\ UNCHANGED <<request, portVars, DoShutdown, granted>>

\* Mutant of Connect: EnsureNotAcquired_NoLock is left out.
ConnectUnchecked(t) ==
  /\ Serving(t, {"Connect"})
  /\ Mutex = NoThread
  /\ \/ State # "Running" /\ Move(t, "dispatch", "error") /\ UNCHANGED Mutex
     \/ State = "Running" /\ Move(t, "dispatch", "clear") /\ Mutex' = t
  /\ UNCHANGED <<fsmVars, request, Acquired, User, DoShutdown, granted>>

\* Connect up to ClearPort: refused, or on with Mutex held.
Connect(t) ==
  /\ Serving(t, {"Connect"})
  /\ Mutex = NoThread
  /\ \/ /\ Acquired \/ State # "Running"
        /\ Move(t, "dispatch", "error")
        /\ UNCHANGED Mutex
     \/ /\ ~Acquired /\ State = "Running"
        /\ Move(t, "dispatch", "clear")
        /\ Mutex' = t
  /\ UNCHANGED <<fsmVars, request, Acquired, User, DoShutdown, granted>>

\* ClearPort read to the end of the port and Connect completes, or it threw.
ClearPort(t) ==
  /\ t \notin cancelled
  /\ \/ Move(t, "clear", "reply") /\ Acquired' = TRUE /\ User' = Peer[t]
     \/ Move(t, "clear", "error") /\ UNCHANGED <<Acquired, User>>
  /\ Mutex' = NoThread
  /\ UNCHANGED <<fsmVars, request, DoShutdown, granted>>

\* Mutant of ClearPortCancelled: lock() and unlock() by hand, no lock_guard.
ClearPortKeepsLock(t) ==
  /\ t \in cancelled
  /\ Move(t, "clear", "unwind")
  /\ UNCHANGED <<fsmVars, request, portVars, DoShutdown, granted>>

(***************************************************************************)
(* Cancelled in ClearPort: open() and read() unwind through the            *)
(* lock_guard; but close() is a cancellation point as well, and it is      *)
(* called by ~DescriptorWrapper, which is noexcept.                        *)
(***************************************************************************)
ClearPortCancelled(t) ==
  /\ t \in cancelled
  /\ \/ Move(t, "clear", "unwind") /\ Mutex' = NoThread
     \/ Terminate(t, "clear") /\ UNCHANGED Mutex
  /\ UNCHANGED <<fsmVars, request, Acquired, User, DoShutdown, granted>>

\* Whoever asks: there is no check that the caller is the user.
Disconnect(t) ==
  /\ Serving(t, {"Disconnect"})
  /\ Mutex = NoThread
  /\ Move(t, "dispatch", IF Acquired THEN "reply" ELSE "error")
  /\ Acquired' = FALSE
  /\ UNCHANGED <<fsmVars, request, Mutex, User, DoShutdown, granted>>

-----------------------------------------------------------------------------
\* SIGTERM, SIGINT or the Shutdown procedure.
Shutdown ==
  /\ ~DoShutdown
  /\ DoShutdown' = TRUE
  /\ UNCHANGED <<fsmVars, sessionVars, portVars, granted>>

\* Run cancels the handlers once it has seen DoShutdown.
CancelHandler(t) ==
  /\ DoShutdown
  /\ Cancel(t)
  /\ UNCHANGED <<sessionVars, portVars, DoShutdown, granted>>

Script(p) ==
  /\ ScriptExit(p)
  /\ UNCHANGED <<sessionVars, portVars, DoShutdown, granted>>

\* The steps a thread takes by itself, without the lock and without a request.
HandlerStep(t) ==
  \/ LoopTop(t) \/ Reply(t) \/ ReplyError(t) \/ CancelledInLoop(t) \/ ReplyServerClosed(t)
  \/ CallFirmware(t) \/ RunFirmware(t) \/ FirmwareRefused(t) \/ FirmwareReturns(t)
  \/ ClearPort(t) \/ ClearPortCancelled(t)

\* The steps that wait for Mutex.
LockStep(t) == GetStatus(t) \/ EnsureNotAcquired(t) \/ Connect(t) \/ Disconnect(t)

HandlerNext ==
  \/ \E t \in Threads : \E proc \in Requests : RecvPackage(t, proc)
  \/ \E t \in Threads : ClientLeaves(t)
  \/ \E t \in Threads : HandlerStep(t) \/ LockStep(t) \/ CancelHandler(t)
  \/ \E p \in Pids : Script(p)
  \/ Shutdown

HandlerSpec == HandlerInit /\ [][HandlerNext]_allVars

\* In ClearPort's read(), which blocks while the port is silent; nobody cancels it.
Draining(t) == at[t] = "clear" /\ t \notin cancelled

(***************************************************************************)
(* Threads run, and the scripts of Reset and Flash end.  Nothing is        *)
(* assumed about a start script or about the read() of ClearPort: neither  *)
(* has a limit of its own.  Nor about who gets a free Mutex, about clients *)
(* or about the shutdown.                                                  *)
(***************************************************************************)
HandlerFairness ==
  /\ \A t \in Threads : WF_allVars(HandlerStep(t) /\ ~Draining(t))
  /\ \A p \in Pids : WF_allVars(Script(p) /\ ResetOrFlash(p))

HandlerFairSpec == HandlerSpec /\ HandlerFairness

-----------------------------------------------------------------------------
(***************************************************************************)
(* ExclusiveHolder: if clients return only what they have, then at every   *)
(* moment at most one client has been told the port is its own, and it is  *)
(* the one the daemon has on record.  Lost answers, refused requests,      *)
(* cancelled threads and a Disconnect still on its way do not break it.    *)
(***************************************************************************)
ExclusiveHolder == granted # {} => Acquired /\ granted = {User}

(***************************************************************************)
(* LockDiscipline: a thread owns HandlerImpl::Mutex between two steps only *)
(* while it drains the port, on every way in and out of Connect, forced    *)
(* unwinding included; so nobody can leave it locked.                      *)
(***************************************************************************)
LockDiscipline ==
  \A t \in Threads : /\ at[t] = "clear" => Mutex = t
                     /\ Mutex = t => at[t] \in {"clear", "dead"}

(***************************************************************************)
(* AdmittedRequestEnds: a request that got past Mutex is answered, its     *)
(* session ends, or the daemon does.  The code gives two exceptions: a     *)
(* Start whose script searches for a board for ever, and a Connect that    *)
(* blocks for ever in ClearPort's read().  Both only while the thread is   *)
(* not cancelled, and neither keeps another thread from ending a request   *)
(* that is past Mutex already.                                             *)
(***************************************************************************)
Admitted(t) == at[t] \in {"firmware", "inside", "clear", "reply", "error", "unwind"}

AdmittedRequestEnds ==
  \A t \in Threads :
    \/ <>[]Searching(t) \/ <>[]Draining(t)
    \/ Admitted(t) ~> at[t] \in {"loop", "exit", "dead"}

(***************************************************************************)
(* UsesFirmwareFSM: whatever the handlers do, the state machine sees legal *)
(* calls only: the handlers implement the caller that FirmwareFSM assumes, *)
(* so everything proved there holds here.                                  *)
(***************************************************************************)
UsesFirmwareFSM == Spec

(***************************************************************************)
(* AcquiredMeansRunning: Connect refuses while the firmware is not started *)
(* and Reset and Flash refuse while the port is acquired, so the port      *)
(* should never be in a client's hands with the firmware not running.      *)
(***************************************************************************)
AcquiredMeansRunning == Acquired => State = "Running"
=============================================================================
