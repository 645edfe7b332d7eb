------------------------- MODULE HandlerImpl_proofs -------------------------
(***************************************************************************)
(* Proofs about HandlerImpl, for any threads, pids, clients and peers.     *)
(***************************************************************************)
EXTENDS HandlerImpl, FirmwareFSM_proofs

USE HandlerAssumption

(***************************************************************************)
(* The right to the port is a token.  It is with a thread that is about to *)
(* tell its client of the grant, with the client, or with a thread that    *)
(* has received the Disconnect and not executed it.                        *)
(***************************************************************************)
Token(t) == \/ at[t] = "reply" /\ request[t] = "Connect"
            \/ at[t] = "dispatch" /\ request[t] = "Disconnect"

\* Requests at the points that only some procedures reach.
RequestOK ==
  \A t \in Threads :
    /\ at[t] \in {"firmware", "inside"} => request[t] \in {"Flash", "Start", "Reset"}
    /\ at[t] = "clear" => request[t] = "Connect" /\ ~Acquired

\* There is one token at most, and Acquired is set while there is one.
TokenInv ==
  /\ \A t, u \in Threads : Token(t) /\ Token(u) => t = u
  /\ \A t \in Threads : Token(t) => Acquired /\ granted = {}
  /\ \A t \in Threads : at[t] = "reply" /\ request[t] = "Connect" => User = Peer[t]

(***************************************************************************)
(* A step of the handlers is a step of FirmwareFSM or leaves it alone: the *)
(* only thing to show is that they call it with one of its routines.       *)
(***************************************************************************)
LEMMA FirmwareStep ==
  RequestOK /\ [HandlerNext]_allVars => [Next]_fsmVars
<1> SUFFICES ASSUME RequestOK, HandlerNext, ~UNCHANGED fsmVars PROVE Next
  BY DEF allVars
<1>1. ASSUME NEW t \in Threads, CallFirmware(t) PROVE Next
  <2>1. request[t] \in {"Flash", "Start", "Reset"}
    BY <1>1 DEF CallFirmware, RequestOK, Move, Serving
  <2>2. RoutineOf[request[t]] \in TransitionRoutines
    BY <2>1 DEF RoutineOf, TransitionRoutines
  <2> QED
    BY <1>1, <2>2 DEF CallFirmware, Next
<1>2. ASSUME NEW t \in Threads, RunFirmware(t) \/ FirmwareRefused(t) \/ FirmwareReturns(t)
      PROVE Next
  BY <1>2 DEF RunFirmware, FirmwareRefused, FirmwareReturns, Next, ThreadStep
<1>3. ASSUME NEW t \in Threads, CancelHandler(t) PROVE Next
  BY <1>3 DEF CancelHandler, Next
<1>4. ASSUME NEW p \in Pids, Script(p) PROVE Next
  BY <1>4 DEF Script, Next
<1> QED
  BY <1>1, <1>2, <1>3, <1>4
     DEF HandlerNext, HandlerStep, LockStep, RecvPackage, ClientLeaves, Shutdown, LoopTop, Reply,
         ReplyError, CancelledInLoop, ReplyServerClosed, ClearPort, ClearPortCancelled, GetStatus,
         EnsureNotAcquired, Connect, Disconnect

(***************************************************************************)
(* The part of the invariant about one thread's place in its loop.         *)
(***************************************************************************)
LoopInv == HandlerTypeOK /\ LockDiscipline /\ RequestOK

(***************************************************************************)
(* Every step of the request loop keeps this part.                         *)
(***************************************************************************)
LEMMA LoopInvStep == LoopInv /\ [HandlerNext]_allVars => LoopInv'
<1> SUFFICES ASSUME LoopInv, [HandlerNext]_allVars PROVE LoopInv'
  OBVIOUS
<1>0. TypeOK /\ TypeOK'
  BY FirmwareStep, TypeOKStep DEF LoopInv, HandlerTypeOK
<1> USE <1>0 DEF LoopInv, HandlerTypeOK, LockDiscipline, RequestOK, Move, Terminate, Serving,
                 LoopPoints, Requests, portVars, sessionVars, fsmVars
<1>1. ASSUME NEW t \in Threads, NEW proc \in Requests, RecvPackage(t, proc) PROVE LoopInv'
  BY <1>1 DEF RecvPackage
<1>2. ASSUME NEW t \in Threads, ClientLeaves(t) PROVE LoopInv'
  BY <1>2 DEF ClientLeaves
<1>3. ASSUME NEW t \in Threads, LoopTop(t) PROVE LoopInv'
  BY <1>3 DEF LoopTop
<1>4. ASSUME NEW t \in Threads, Reply(t) PROVE LoopInv'
  BY <1>4 DEF Reply
<1>5. ASSUME NEW t \in Threads, ReplyError(t) \/ CancelledInLoop(t) \/ ReplyServerClosed(t)
      PROVE LoopInv'
  BY <1>5 DEF ReplyError, CancelledInLoop, ReplyServerClosed
<1>6. ASSUME NEW t \in Threads, GetStatus(t) \/ EnsureNotAcquired(t) PROVE LoopInv'
  BY <1>6 DEF GetStatus, EnsureNotAcquired
<1>7. ASSUME NEW t \in Threads, CallFirmware(t) PROVE LoopInv'
  BY <1>7 DEF CallFirmware, Call, Goto, TypeOK
<1>8. ASSUME NEW t \in Threads, RunFirmware(t) PROVE LoopInv'
  <2>1. pc[t] \notin {"idle", "gone"} /\ pc'[t] \notin {"idle", "gone"}
        /\ \A u \in Threads \ {t} : pc'[u] = pc[u]
    BY <1>8 DEF RunFirmware, Claim, Fork, Reap, UnwindWait, Goto, TypeOK
  <2> QED
    BY <1>8, <2>1 DEF RunFirmware
<1>9. ASSUME NEW t \in Threads, FirmwareRefused(t) PROVE LoopInv'
  BY <1>9 DEF FirmwareRefused, ThrowFSMException, Goto, TypeOK
<1>10. ASSUME NEW t \in Threads, FirmwareReturns(t) PROVE LoopInv'
  <2>1. pc'[t] \in {"idle", "gone"} /\ \A u \in Threads \ {t} : pc'[u] = pc[u]
    BY <1>10 DEF FirmwareReturns, SetState, Goto, TypeOK
  <2>2. at'[t] \in {"unwind", "error", "reply"} /\ at[t] = "inside"
        /\ \A u \in Threads \ {t} : at'[u] = at[u]
    BY <1>10 DEF FirmwareReturns
  <2>3. at' \in [Threads -> LoopPoints] /\ UNCHANGED <<request, portVars, DoShutdown, granted>>
    BY <1>10, <2>2 DEF FirmwareReturns
  <2> QED
    BY <2>1, <2>2, <2>3
<1>11. ASSUME NEW t \in Threads, Connect(t) PROVE LoopInv'
  BY <1>11 DEF Connect
<1>12. ASSUME NEW t \in Threads, ClearPort(t) PROVE LoopInv'
  <2>1. /\ at[t] = "clear" /\ Mutex = t /\ Mutex' = NoThread
        /\ at' = [at EXCEPT ![t] = "reply"] \/ at' = [at EXCEPT ![t] = "error"]
    BY <1>12 DEF ClearPort
  <2>2. UNCHANGED <<fsmVars, request, DoShutdown, granted>>
    BY <1>12 DEF ClearPort
  <2>3. Peer[t] \in Clients
    OBVIOUS
  <2>4. Acquired' \in BOOLEAN /\ User' \in Clients \cup {NoClient}
    BY <1>12, <2>3 DEF ClearPort
  <2>5. \A u \in Threads : at'[u] # "clear"
    BY <2>1
  <2> QED
    BY <2>1, <2>2, <2>4, <2>5
<1>13. ASSUME NEW t \in Threads, ClearPortCancelled(t) PROVE LoopInv'
  BY <1>13 DEF ClearPortCancelled
<1>14. ASSUME NEW t \in Threads, Disconnect(t) PROVE LoopInv'
  <2>1. \A u \in Threads : at[u] # "clear"
    BY <1>14 DEF Disconnect
  <2>2. Acquired' \in BOOLEAN /\ at' \in [Threads -> LoopPoints] /\ at[t] = "dispatch"
        /\ at'[t] \in {"reply", "error"} /\ \A u \in Threads \ {t} : at'[u] = at[u]
    BY <1>14 DEF Disconnect
  <2>3. UNCHANGED <<fsmVars, request, Mutex, User, DoShutdown, granted>> /\ Mutex = NoThread
    BY <1>14 DEF Disconnect
  <2> QED
    BY <2>1, <2>2, <2>3
<1>15. ASSUME NEW t \in Threads, CancelHandler(t) PROVE LoopInv'
  BY <1>15 DEF CancelHandler, Cancel
<1>16. ASSUME NEW p \in Pids, Script(p) PROVE LoopInv'
  BY <1>16 DEF Script, ScriptExit
<1>17. CASE Shutdown
  BY <1>17 DEF Shutdown
<1>18. CASE UNCHANGED allVars
  BY <1>18 DEF allVars
<1> QED
  BY <1>1, <1>2, <1>3, <1>4, <1>5, <1>6, <1>7, <1>8, <1>9, <1>10, <1>11, <1>12, <1>13, <1>14,
     <1>15, <1>16, <1>17, <1>18 DEF HandlerNext, HandlerStep, LockStep

(***************************************************************************)
(* The token is handed on, dropped, or created where there is none.        *)
(***************************************************************************)
LEMMA TokenStep ==
  ASSUME OnlyHolderDisconnects, LoopInv, TokenInv, ExclusiveHolder, [HandlerNext]_allVars
  PROVE  TokenInv' /\ ExclusiveHolder'
<1> USE DEF LoopInv, HandlerTypeOK, TokenInv, Token, ExclusiveHolder, Move, Terminate, Serving,
            portVars, sessionVars
<1>1. ASSUME NEW t \in Threads, NEW proc \in Requests, RecvPackage(t, proc)
      PROVE TokenInv' /\ ExclusiveHolder'
  <2>1. CASE proc = "Disconnect"
    BY <1>1, <2>1 DEF RecvPackage
  <2>2. CASE proc # "Disconnect"
    BY <1>1, <2>2 DEF RecvPackage
  <2> QED
    BY <2>1, <2>2
<1>2. ASSUME NEW t \in Threads, ClientLeaves(t) \/ LoopTop(t)
      PROVE TokenInv' /\ ExclusiveHolder'
  BY <1>2 DEF ClientLeaves, LoopTop
<1>3. ASSUME NEW t \in Threads, Reply(t) PROVE TokenInv' /\ ExclusiveHolder'
  BY <1>3 DEF Reply
<1>4. ASSUME NEW t \in Threads, ReplyError(t) \/ CancelledInLoop(t) \/ ReplyServerClosed(t)
      PROVE TokenInv' /\ ExclusiveHolder'
  BY <1>4 DEF ReplyError, CancelledInLoop, ReplyServerClosed
<1>5. ASSUME NEW t \in Threads, GetStatus(t) \/ EnsureNotAcquired(t)
      PROVE TokenInv' /\ ExclusiveHolder'
  BY <1>5 DEF GetStatus, EnsureNotAcquired
<1>6. ASSUME NEW t \in Threads,
             CallFirmware(t) \/ RunFirmware(t) \/ FirmwareRefused(t) \/ FirmwareReturns(t)
      PROVE TokenInv' /\ ExclusiveHolder'
  <2>1. request[t] \in {"Flash", "Start", "Reset"} /\ UNCHANGED <<request, portVars, granted>>
    BY <1>6 DEF CallFirmware, RunFirmware, FirmwareRefused, FirmwareReturns, RequestOK
  <2>2. \A u \in Threads \ {t} : at'[u] = at[u]
    BY <1>6 DEF CallFirmware, RunFirmware, FirmwareRefused, FirmwareReturns
  <2> QED
    BY <2>1, <2>2
<1>7. ASSUME NEW t \in Threads, Connect(t) PROVE TokenInv' /\ ExclusiveHolder'
  BY <1>7 DEF Connect
<1>8. ASSUME NEW t \in Threads, ClearPort(t) PROVE TokenInv' /\ ExclusiveHolder'
  BY <1>8 DEF ClearPort, RequestOK
<1>9. ASSUME NEW t \in Threads, ClearPortCancelled(t) PROVE TokenInv' /\ ExclusiveHolder'
  BY <1>9 DEF ClearPortCancelled
<1>10. ASSUME NEW t \in Threads, Disconnect(t) PROVE TokenInv' /\ ExclusiveHolder'
  BY <1>10 DEF Disconnect
<1>11. CASE UNCHANGED <<sessionVars, portVars, granted>>
  BY <1>11
<1> QED
  BY <1>1, <1>2, <1>3, <1>4, <1>5, <1>6, <1>7, <1>8, <1>9, <1>10, <1>11
     DEF HandlerNext, HandlerStep, LockStep, CancelHandler, Script, Shutdown, allVars

(***************************************************************************)
(* The daemon starts with the port free and every thread in its loop.      *)
(***************************************************************************)
LEMMA HandlerInitInv == HandlerInit => LoopInv /\ TokenInv /\ ExclusiveHolder
<1> SUFFICES ASSUME HandlerInit PROVE LoopInv /\ TokenInv /\ ExclusiveHolder
  OBVIOUS
<1>1. TypeOK /\ \A t \in Threads : pc[t] = "idle"
  BY InitFSMInv DEF HandlerInit, Init, FSMInv
<1> QED
  BY <1>1 DEF HandlerInit, LoopInv, HandlerTypeOK, LockDiscipline, RequestOK, TokenInv, Token,
              ExclusiveHolder, LoopPoints, Requests

(***************************************************************************)
(* Types and Mutex, with or without well-behaved clients.                  *)
(***************************************************************************)
THEOREM LoopInvariant == HandlerSpec => []LoopInv
BY HandlerInitInv, LoopInvStep, PTL DEF HandlerSpec

(***************************************************************************)
(* Every handler thread stays at a point of its loop, with a request, and  *)
(* its place in FirmwareFSM is one that place in the loop can have.        *)
(***************************************************************************)
THEOREM HandlerTypeCorrect == HandlerSpec => []HandlerTypeOK
BY LoopInvariant, PTL DEF LoopInv

(***************************************************************************)
(* Nobody leaves HandlerImpl::Mutex locked, cancelled threads included.    *)
(***************************************************************************)
THEOREM LockSafe == HandlerSpec => []LockDiscipline
BY LoopInvariant, PTL DEF LoopInv

(***************************************************************************)
(* The handlers are a legal caller of FirmwareFSM, so its theorems hold of *)
(* the composition.                                                        *)
(***************************************************************************)
THEOREM HandlerUsesFirmware == HandlerSpec => UsesFirmwareFSM
<1>1. LoopInv /\ [HandlerNext]_allVars => [Next]_fsmVars
  BY FirmwareStep DEF LoopInv
<1>2. HandlerInit => Init
  BY DEF HandlerInit
<1> QED
  BY <1>1, <1>2, LoopInvariant, PTL DEF HandlerSpec, Spec, UsesFirmwareFSM

(***************************************************************************)
(* Port arbitration: clients that return only what they have never share   *)
(* the port, for any number of clients, connections and lost answers.      *)
(***************************************************************************)
THEOREM Arbitration ==
  ASSUME OnlyHolderDisconnects PROVE HandlerSpec => []ExclusiveHolder
<1>1. LoopInv /\ TokenInv /\ ExclusiveHolder /\ [HandlerNext]_allVars
        => (TokenInv /\ ExclusiveHolder)'
  BY TokenStep
<1> QED
  BY <1>1, HandlerInitInv, LoopInvStep, PTL DEF HandlerSpec

(***************************************************************************)
(* A client polling GetStatus through any handler sees the lifecycle.      *)
(***************************************************************************)
THEOREM StatusLifecycle == HandlerSpec => ImplementsLifecycle
BY HandlerUsesFirmware, Implementation, PTL DEF UsesFirmwareFSM
=============================================================================
